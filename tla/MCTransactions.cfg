\* Two locks of one owner, two master secrets, the service deployed with either or none, the
\* scripts run with either.  A caller creates and withdraws, under its own key or any that the
\* service derives, with and without appended accounts, and puts two withdrawals into one
\* transaction.  A pool in the reward token, which the page passes or fails to read, while the
\* operator funds and empties it.
SPECIFICATION Spec
CONSTANTS
    Locks = {l1, l2}
    NoLock = nolock
    Secrets = {s1, s2}
    NoSecret = nosecret
    Treasury = treasury
    CallerOps = {"createLockCustodial", "withdrawCustodial"}
    BatchOps = {"withdrawCustodial"}
    PoolAssets = {TRUE}
CONSTRAINT Apart
SYMMETRY Interchangeable
INVARIANTS
    TxTypeOK
    SignaturesComplete
    PrivilegesSuffice
    ServiceServesPage
PROPERTIES
    CustodyOpensOnRequest
    HoldersAttested
