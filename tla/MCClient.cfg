\* The life of a lock, from creation to close, in both custody modes, as one
\* browser drives it through a lossy network.
SPECIFICATION ClientSpec
CONSTANTS
    l1 = l1
    alice = alice
    Form = form
    Gone = gone
    Unknown = unknown
    MaxClicks = 3
    Locks = {l1}
    Owners = {alice}
    Treasuries = {t1}
    Admins = {adm}
    OwnerOf <- OwnedByAlice
    CustodyKeys = {svc}
    ServiceKey = svc
    NoKey = nokey
    BPS_DENOMINATOR = 4
    U64 = 1000
    U128 = 1000000
    MAX_REWARD_FEE_BPS = 2
    MAX_LOCK_FEE_LAMPORTS = 1
    MAX_BONUS_BPS = 8
    MAX_LOCK_DURATION = 3
    Reserve = 1
    PoolReserve = 1
    TaxBps = 0
    Amounts = {1}
    UnlockTimes = {1, 2, 3}
    LockFees = {0}
    FeeRates = {0}
    PauseArgs = {}
    PoolKinds = {}
    Capacities = {}
    MinDurations = {}
    BonusRates = {}
    ActiveArgs = {}
    FundSizes = {}
    RewardSizes = {}
    DonationSizes = {}
    LateArrivals = FALSE
    MaxTime = 1
    MaxLocks = 1
    OwnerSol = 2
    OwnerCoin = 2
    AdminSol = 0
    AdminRew = 0
    OutsideSol = 0
    OutsideRew = 0
    OutsideCoin = 0
INVARIANTS
    ClientTypeOK
    StaleCardIsSafe
    DoneMeansExecuted
