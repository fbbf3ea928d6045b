\* Two owners compete for a pool that pays in SOL or in the reward token, by choice at
\* its creation, whatever it is then funded with, while its authority changes the
\* capacity, switches it off and takes funds out; claims of both kinds in both modes.
SPECIFICATION Spec
CONSTANTS
    l1 = l1
    l2 = l2
    alice = alice
    bob = bob
    Locks = {l1, l2}
    Owners = {alice, bob}
    Treasuries = {t1}
    Admins = {adm}
    OwnerOf <- OwnedByBoth
    CustodyKeys = {svc}
    ServiceKey = svc
    NoKey = nokey
    BPS_DENOMINATOR = 4
    U64 = 1000
    U128 = 1000000
    MAX_REWARD_FEE_BPS = 2
    MAX_LOCK_FEE_LAMPORTS = 1
    MAX_BONUS_BPS = 8
    MAX_LOCK_DURATION = 1
    Reserve = 1
    PoolReserve = 1
    TaxBps = 0
    Amounts = {1, 2}
    UnlockTimes = {1}
    LockFees = {0}
    FeeRates = {2}
    PauseArgs = {}
    PoolKinds = {TRUE, FALSE}
    Capacities = {1, 3}
    MinDurations = {1}
    BonusRates = {8}
    ActiveArgs = {TRUE, FALSE}
    FundSizes = {3}
    RewardSizes = {2}
    DonationSizes = {}
    LateArrivals = FALSE
    MaxTime = 1
    MaxLocks = 2
    OwnerSol = 1
    OwnerCoin = 2
    AdminSol = 4
    AdminRew = 3
    OutsideSol = 2
    OutsideRew = 2
    OutsideCoin = 0
SYMMETRY OwnersAlike
INVARIANTS
    TypeOK
    EnrolledCoversBoosted
    BoostedWithinAmount
    PoolSolvent
    OwnerNeverBlocked
PROPERTIES
    BonusWithinRate
    KeepsPoolBooks
