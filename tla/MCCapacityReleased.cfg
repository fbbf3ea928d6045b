\* docs/DEVELOPMENT.md: "Capacity is released on withdrawal."
SPECIFICATION Spec
CONSTANTS
    l1 = l1
    l2 = l2
    alice = alice
    bob = bob
    Locks = {l1, l2}
    Owners = {alice}
    Treasuries = {t1}
    Admins = {adm}
    OwnerOf <- OwnedByAlice
    CustodyKeys = {svc}
    ServiceKey = svc
    NoKey = nokey
    BPS_DENOMINATOR = 4
    U64 = 1000
    U128 = 1000000
    MAX_REWARD_FEE_BPS = 2
    MAX_LOCK_FEE_LAMPORTS = 1
    MAX_BONUS_BPS = 8
    MAX_LOCK_DURATION = 2
    Reserve = 1
    PoolReserve = 1
    TaxBps = 0
    Amounts = {1, 2}
    UnlockTimes = {1, 2}
    LockFees = {0}
    FeeRates = {0}
    PauseArgs = {}
    PoolKinds = {TRUE}
    Capacities = {2}
    MinDurations = {0}
    BonusRates = {4, 8}
    ActiveArgs = {TRUE}
    FundSizes = {}
    RewardSizes = {}
    DonationSizes = {}
    LateArrivals = FALSE
    MaxTime = 2
    MaxLocks = 2
    OwnerSol = 2
    OwnerCoin = 2
    AdminSol = 1
    AdminRew = 0
    OutsideSol = 0
    OutsideRew = 0
    OutsideCoin = 0
INVARIANTS
    CapacityReleased
