\* README.md: rewards "accumulate on the lock and are claimable at any moment."
SPECIFICATION Spec
CONSTANTS
    l1 = l1
    l2 = l2
    alice = alice
    bob = bob
    Locks = {l1}
    Owners = {alice}
    Treasuries = {t1}
    Admins = {adm}
    OwnerOf <- OwnedByAlice
    CustodyKeys = {svc}
    ServiceKey = svc
    NoKey = nokey
    BPS_DENOMINATOR = 4
    U64 = 1000
    U128 = 1000000
    MAX_REWARD_FEE_BPS = 2
    MAX_LOCK_FEE_LAMPORTS = 1
    MAX_BONUS_BPS = 8
    MAX_LOCK_DURATION = 3
    Reserve = 1
    PoolReserve = 1
    TaxBps = 0
    Amounts = {1}
    UnlockTimes = {1, 2, 3}
    LockFees = {0}
    FeeRates = {0}
    PauseArgs = {}
    PoolKinds = {}
    Capacities = {}
    MinDurations = {}
    BonusRates = {}
    ActiveArgs = {}
    FundSizes = {}
    RewardSizes = {1}
    DonationSizes = {}
    LateArrivals = FALSE
    MaxTime = 3
    MaxLocks = 1
    OwnerSol = 2
    OwnerCoin = 2
    AdminSol = 0
    AdminRew = 0
    OutsideSol = 0
    OutsideRew = 1
    OutsideCoin = 0
INVARIANTS
    RewardsStayClaimable
