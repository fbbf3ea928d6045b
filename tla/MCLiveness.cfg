\* A mint with a transfer tax of a quarter: vaults hold less than the amounts, and
\* cannot be closed while they withhold tax.  Under Fairness an owner who keeps trying
\* gets tokens and rewards out, whatever the admin and strangers do.
SPECIFICATION LiveSpec
CONSTANTS
    l1 = l1
    l2 = l2
    alice = alice
    bob = bob
    Locks = {l1}
    Owners = {alice}
    Treasuries = {t1}
    Admins = {adm}
    OwnerOf <- OwnedByAlice
    CustodyKeys = {svc, other}
    ServiceKey = svc
    NoKey = nokey
    BPS_DENOMINATOR = 4
    U64 = 1000
    U128 = 1000000
    MAX_REWARD_FEE_BPS = 2
    MAX_LOCK_FEE_LAMPORTS = 1
    MAX_BONUS_BPS = 8
    MAX_LOCK_DURATION = 2
    Reserve = 1
    PoolReserve = 1
    TaxBps = 1
    Amounts = {1, 2}
    UnlockTimes = {1, 2}
    LockFees = {1}
    FeeRates = {1}
    PauseArgs = {TRUE, FALSE}
    PoolKinds = {FALSE}
    Capacities = {0}
    MinDurations = {0}
    BonusRates = {1}
    ActiveArgs = {}
    FundSizes = {}
    RewardSizes = {1}
    DonationSizes = {1}
    LateArrivals = FALSE
    MaxTime = 2
    MaxLocks = 2
    OwnerSol = 3
    OwnerCoin = 2
    AdminSol = 1
    AdminRew = 0
    OutsideSol = 2
    OutsideRew = 1
    OutsideCoin = 1
INVARIANTS
    OwnerNeverBlocked
    NoSolLeftBehind
PROPERTIES
    KeepsPromise
    KeepsLedger
    EventuallyReleased
    EventuallyClaimed
