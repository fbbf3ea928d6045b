\* lib.rs: "Terms are unchanged: same owner, amount, unlock time and boost enrollment."
SPECIFICATION Spec
CONSTANTS
    l1 = l1
    l2 = l2
    alice = alice
    bob = bob
    Locks = {l1}
    Owners = {alice}
    Treasuries = {t1}
    Admins = {adm}
    OwnerOf <- OwnedByAlice
    CustodyKeys = {svc}
    ServiceKey = svc
    NoKey = nokey
    BPS_DENOMINATOR = 4
    U64 = 1000
    U128 = 1000000
    MAX_REWARD_FEE_BPS = 2
    MAX_LOCK_FEE_LAMPORTS = 1
    MAX_BONUS_BPS = 8
    MAX_LOCK_DURATION = 3
    Reserve = 1
    PoolReserve = 1
    TaxBps = 1
    Amounts = {4}
    UnlockTimes = {1, 2, 3}
    LockFees = {0}
    FeeRates = {0}
    PauseArgs = {}
    PoolKinds = {}
    Capacities = {}
    MinDurations = {}
    BonusRates = {}
    ActiveArgs = {}
    FundSizes = {}
    RewardSizes = {}
    DonationSizes = {}
    LateArrivals = FALSE
    MaxTime = 3
    MaxLocks = 1
    OwnerSol = 2
    OwnerCoin = 4
    AdminSol = 0
    AdminRew = 0
    OutsideSol = 0
    OutsideRew = 0
    OutsideCoin = 0
PROPERTIES
    MigrationKeepsTerms
