\* A boost pool that pays in SOL.  Under ClientFairness every confirmation ends.
SPECIFICATION LiveClientSpec
CONSTANTS
    l1 = l1
    alice = alice
    Form = form
    Gone = gone
    Unknown = unknown
    MaxClicks = 2
    Locks = {l1}
    Owners = {alice}
    Treasuries = {t1}
    Admins = {adm}
    OwnerOf <- OwnedByAlice
    CustodyKeys = {svc}
    ServiceKey = svc
    NoKey = nokey
    BPS_DENOMINATOR = 4
    U64 = 1000
    U128 = 1000000
    MAX_REWARD_FEE_BPS = 2
    MAX_LOCK_FEE_LAMPORTS = 1
    MAX_BONUS_BPS = 8
    MAX_LOCK_DURATION = 2
    Reserve = 1
    PoolReserve = 1
    TaxBps = 0
    Amounts = {1}
    UnlockTimes = {1}
    LockFees = {0}
    FeeRates = {0}
    PauseArgs = {}
    PoolKinds = {TRUE}
    Capacities = {1}
    MinDurations = {0}
    BonusRates = {4}
    ActiveArgs = {}
    FundSizes = {1}
    RewardSizes = {1}
    DonationSizes = {}
    LateArrivals = FALSE
    MaxTime = 1
    MaxLocks = 1
    OwnerSol = 1
    OwnerCoin = 1
    AdminSol = 2
    AdminRew = 0
    OutsideSol = 1
    OutsideRew = 0
    OutsideCoin = 0
PROPERTIES
    Settles
