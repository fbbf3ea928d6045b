\* One key of the table that posts to the signing route, two concurrent requests for a token's
\* metadata, two for its locks, of a mint with or without a tax of one unit on a transfer.
SPECIFICATION ServerSpec
CONSTANTS
    l1 = l1
    l2 = l2
    r1 = r1
    r2 = r2
    MaxTime = 4
    Ips = {ip}
    LIMIT = 2
    WINDOW = 2
    MaxPosts = 3
    MetaReqs = {r1, r2}
    MetaTTL = 2
    Gateways = 2
    MaxVersions = 2
    ApiLocks = {l1, l2}
    ApiReqs = {r1, r2}
    LocksTTL = 2
    MaxBuild = 1
    CHUNK = 1
    Taxes = {0, 1}
    WalletHolds = 3
    MaxChanges = 3
INVARIANTS
    TwiceLimitAtMost
    OnlyBusyRefused
    CachedMetaWasTrue
    NoImageIsExplained
    QuietTotalExact
    CountedWasHeld
    AnswerAge
CONSTRAINT Together
SYMMETRY Slots
