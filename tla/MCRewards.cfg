\* One lock address through every stage, twice, in both custody modes: created, topped
\* up, extended, migrated, withdrawn, closed and created again, while SOL and token
\* rewards are claimed or swept, tokens are donated, payments arrive late, and the
\* admin changes fees and treasury and pauses the program in between.
SPECIFICATION Spec
CONSTANTS
    l1 = l1
    l2 = l2
    alice = alice
    bob = bob
    Locks = {l1}
    Owners = {alice}
    Treasuries = {t1, t2}
    Admins = {adm}
    OwnerOf <- OwnedByAlice
    CustodyKeys = {svc}
    ServiceKey = svc
    NoKey = nokey
    BPS_DENOMINATOR = 4
    U64 = 1000
    U128 = 1000000
    MAX_REWARD_FEE_BPS = 2
    MAX_LOCK_FEE_LAMPORTS = 1
    MAX_BONUS_BPS = 8
    MAX_LOCK_DURATION = 2
    Reserve = 1
    PoolReserve = 1
    TaxBps = 0
    Amounts = {1}
    UnlockTimes = {1, 2}
    LockFees = {1, 2}
    FeeRates = {1, 2, 4}
    PauseArgs = {TRUE, FALSE}
    PoolKinds = {}
    Capacities = {}
    MinDurations = {}
    BonusRates = {}
    ActiveArgs = {}
    FundSizes = {}
    RewardSizes = {1, 2}
    DonationSizes = {1}
    LateArrivals = TRUE
    MaxTime = 2
    MaxLocks = 2
    OwnerSol = 2
    OwnerCoin = 2
    AdminSol = 0
    AdminRew = 0
    OutsideSol = 2
    OutsideRew = 2
    OutsideCoin = 1
INVARIANTS
    VaultBacksAmount
    OwnerNeverBlocked
    RentKept
    FeeShareCapped
    TreasuryGetsFees
    TokenFeeShareCapped
    TotalsCoverLocks
PROPERTIES
    KeepsPromise
