\* Create, and claim or withdraw, with a boost pool that pays in the reward token, that
\* the components may fail to read and whose authority takes funds out or switches it off.
SPECIFICATION ClientSpec
CONSTANTS
    l1 = l1
    alice = alice
    Form = form
    Gone = gone
    Unknown = unknown
    MaxClicks = 2
    Locks = {l1}
    Owners = {alice}
    Treasuries = {t1}
    Admins = {adm}
    OwnerOf <- OwnedByAlice
    CustodyKeys = {svc}
    ServiceKey = svc
    NoKey = nokey
    BPS_DENOMINATOR = 4
    U64 = 1000
    U128 = 1000000
    MAX_REWARD_FEE_BPS = 2
    MAX_LOCK_FEE_LAMPORTS = 1
    MAX_BONUS_BPS = 8
    MAX_LOCK_DURATION = 2
    Reserve = 1
    PoolReserve = 1
    TaxBps = 0
    Amounts = {1}
    UnlockTimes = {1}
    LockFees = {0}
    FeeRates = {0}
    PauseArgs = {}
    PoolKinds = {FALSE}
    Capacities = {1}
    MinDurations = {0}
    BonusRates = {4}
    ActiveArgs = {FALSE}
    FundSizes = {1}
    RewardSizes = {1}
    DonationSizes = {}
    LateArrivals = FALSE
    MaxTime = 1
    MaxLocks = 1
    OwnerSol = 1
    OwnerCoin = 1
    AdminSol = 1
    AdminRew = 1
    OutsideSol = 0
    OutsideRew = 1
    OutsideCoin = 0
INVARIANTS
    CapacityAccounted
PROPERTIES
    KnownPoolPays
