------------------------------ MODULE LocksApi ------------------------------
(***************************************************************************)
(* GET /api/locks/<mint>: what is locked of one token, put together from   *)
(* several reads of the chain, each at a moment of its own, and kept for   *)
(* LocksTTL from the end of the last read.  First the list of the locks;   *)
(* then the mint's account; then the balances of the vaults, CHUNK at a    *)
(* time, in the order of the list.  A list or a mint that cannot be read   *)
(* fails the answer; a call for vaults that fails leaves them unread, and  *)
(* so does a node that does not know the mint.  Requests run concurrently, *)
(* and owners go on using their locks.  Left out: what is shown beside the *)
(* total (supply, names, pool, launchpad).                                 *)
(***************************************************************************)
EXTENDS ServerClock, Integers, FiniteSetsExt, SequencesExt, Sums

CONSTANTS
    ApiLocks,     \* the addresses of the token's locks
    ApiReqs,      \* requests in flight at a time
    LocksTTL,     \* TTL_MS
    MaxBuild,     \* the longest that the reads of an answer take: assumption on the RPC node
    CHUNK,        \* vaults read by one call
    Taxes,        \* the taxes that a mint may have: what a transfer loses on the way
    WalletHolds,  \* the owner's tokens at the start
    MaxChanges    \* bound: how often the chain changes

ASSUME ApiAssumption ==
    /\ LocksTTL \in Nat /\ MaxBuild \in Nat /\ CHUNK \in Nat \ {0}
    /\ IsFiniteSet(ApiLocks) /\ Taxes \subseteq {0, 1} /\ WalletHolds \in Nat

VARIABLES
    chain,        \* the token on the chain
    changes,      \* how often it has changed
    locksCache,   \* the entry of the mint: empty, or one
    apiReq        \* the requests

apiVars == <<chain, changes, locksCache, apiReq>>

Gone == -1                    \* the balance of an account that does not exist
Unread == -2                  \* vaultBalanceRaw = null
NoLockThere == [state |-> "none", amount |-> 0, authority |-> 1, vault |-> Gone]

\* The vault of a lock belongs to its vault authority, 1 or after a migration 2.
VaultAt(l, authority) ==
    IF chain.locks[l].authority = authority THEN chain.locks[l].vault ELSE Gone

-----------------------------------------------------------------------------
(***************************************************************************)
(* The chain, as the owners change it.  The field given is there to state  *)
(* a property: somebody has sent tokens to a vault past the program.       *)
(***************************************************************************)
Net(a) == IF a > 0 THEN a - chain.tax ELSE 0

Changed(l, lock, wallet, given) ==
    /\ changes < MaxChanges
    /\ changes' = changes + 1
    /\ wallet >= 0
    /\ chain' = [chain EXCEPT !.locks[l] = lock, !.wallet = wallet, !.given = given]
    /\ apiReq' = [r \in ApiReqs |->
           LET q == apiReq[r]
               balance == IF q.list[l].authority = lock.authority THEN lock.vault ELSE Gone
           IN  IF q.stage # "vaults" /\ q.stage # "listed" THEN q
               ELSE [q EXCEPT !.quiet = FALSE,
                              !.seen[l] = IF q.list[l].state = "live" THEN @ \cup {balance}
                                                                      ELSE @]]
    /\ UNCHANGED locksCache

Lock(l) == chain.locks[l]

\* create_lock, or create_lock_custodial, which locks in custody at once.
OwnerCreates(l, a, authority) ==
    /\ Lock(l).state = "none"
    /\ Changed(l, [state |-> "live", amount |-> a, authority |-> authority, vault |-> Net(a)],
               chain.wallet - a, chain.given)

OwnerTopsUp(l, a) ==
    /\ Lock(l).state = "live"
    /\ Changed(l, [Lock(l) EXCEPT !.amount = @ + a, !.vault = @ + Net(a)],
               chain.wallet - a, chain.given)

OwnerWithdraws(l) ==
    /\ Lock(l).state = "live"
    /\ Changed(l, [Lock(l) EXCEPT !.state = "withdrawn", !.vault = Gone],
               chain.wallet + Net(Lock(l).vault), chain.given)

OwnerMigrates(l) ==
    /\ Lock(l).state = "live" /\ Lock(l).authority = 1
    /\ Changed(l, [Lock(l) EXCEPT !.authority = 2, !.vault = Net(@), !.amount = Lock(l).vault],
               chain.wallet, chain.given)

OwnerCloses(l) ==
    /\ Lock(l).state = "withdrawn"
    /\ Changed(l, NoLockThere, chain.wallet, chain.given)

StrangerDonates(l) ==
    /\ Lock(l).state = "live"
    /\ Changed(l, [Lock(l) EXCEPT !.vault = @ + Net(1)], chain.wallet - 1, TRUE)

-----------------------------------------------------------------------------
(***************************************************************************)
(* A request.  The fields began, quiet and seen are there to state         *)
(* properties: when its reads began; whether the chain has stood still     *)
(* since the list was read; and the balances that the vault of each live   *)
(* lock of the list has had since.                                         *)
(***************************************************************************)
Idle == [stage |-> "idle", list |-> [l \in ApiLocks |-> NoLockThere],
         order |-> << >>, vaults |-> [l \in ApiLocks |-> Unread], chunk |-> 0,
         failed |-> FALSE, began |-> 0, quiet |-> FALSE, seen |-> [l \in ApiLocks |-> {}]]

ApiStages == {"idle", "reading", "listed", "vaults"}

Live(list) == {l \in ApiLocks : list[l].state = "live"}
Listed(list) == {l \in ApiLocks : list[l].state # "none"}

\* Mutant: an entry never expires.
ApiHitForEver == locksCache # << >>

ApiHit == locksCache # << >> /\ now - locksCache[1].at < LocksTTL

\* A hit is answered at once and changes nothing.
Ask(r) ==
    /\ apiReq[r].stage = "idle" /\ ~ApiHit
    /\ apiReq' = [apiReq EXCEPT ![r] = [apiReq[r] EXCEPT !.stage = "reading", !.began = now]]
    /\ UNCHANGED <<chain, changes, locksCache>>

\* The node gives the accounts in any order.
ReadList(r) ==
    /\ apiReq[r].stage = "reading"
    /\ \E order \in SetToSeqs(Listed(chain.locks)) :
          apiReq' = [apiReq EXCEPT ![r] =
              [apiReq[r] EXCEPT !.stage = "listed", !.list = chain.locks, !.order = order,
                  !.quiet = TRUE,
                  !.seen = [l \in ApiLocks |-> IF Lock(l).state = "live" THEN {Lock(l).vault}
                                                                        ELSE {}]]]
    /\ UNCHANGED <<chain, changes, locksCache>>

\* All of the first reads are in; now the mint's account is.
ReadMint(r) ==
    /\ apiReq[r].stage = "listed"
    /\ apiReq' = [apiReq EXCEPT ![r] = [apiReq[r] EXCEPT !.stage = "vaults"]]
    /\ UNCHANGED <<chain, changes, locksCache>>

\* The node has no account of the mint: no vault is asked for.
MintMissing(r) ==
    /\ apiReq[r].stage = "listed"
    /\ apiReq' = [apiReq EXCEPT ![r] =
           [apiReq[r] EXCEPT !.stage = "vaults", !.chunk = Len(apiReq[r].order),
                             !.failed = TRUE]]
    /\ UNCHANGED <<chain, changes, locksCache>>

\* The list or the mint cannot be read: 502, and nothing is stored.
ApiFails(r) ==
    /\ apiReq[r].stage \in {"reading", "listed"}
    /\ apiReq' = [apiReq EXCEPT ![r] = Idle]
    /\ UNCHANGED <<chain, changes, locksCache>>

\* The places of the list whose vaults the next call reads.
Chunk(q) == {i \in DOMAIN q.order : q.chunk < i /\ i <= q.chunk + CHUNK}
MoreChunks(q) == q.chunk < Len(q.order)

\* Mutant: the start of the chunk is forgotten.
LockInChunk(q, i) == q.order[i - q.chunk]

\* locks[i + j], which gets what the j-th account of the chunk holds.
LockFor(q, i) == q.order[i]

\* An account that is missing is an empty vault if the lock is known to be withdrawn.
Balance(q, l) ==
    LET b == VaultAt(l, q.list[l].authority) IN
    IF b # Gone THEN b ELSE IF q.list[l].state = "withdrawn" THEN 0 ELSE Unread

VaultsRead(q) ==
    [l \in ApiLocks |->
        IF \E i \in Chunk(q) : LockFor(q, i) = l
        THEN Balance(q, q.order[CHOOSE i \in Chunk(q) : LockFor(q, i) = l])
        ELSE q.vaults[l]]

ReadVaults(r) ==
    LET q == apiReq[r] IN
    /\ q.stage = "vaults" /\ MoreChunks(q)
    /\ apiReq' = [apiReq EXCEPT ![r] =
           [q EXCEPT !.chunk = q.chunk + CHUNK, !.vaults = VaultsRead(q)]]
    /\ UNCHANGED <<chain, changes, locksCache>>

\* The call fails, and the vaults of its chunk stay unread.
MissVaults(r) ==
    /\ apiReq[r].stage = "vaults" /\ MoreChunks(apiReq[r])
    /\ apiReq' = [apiReq EXCEPT ![r] =
           [apiReq[r] EXCEPT !.chunk = apiReq[r].chunk + CHUNK, !.failed = TRUE]]
    /\ UNCHANGED <<chain, changes, locksCache>>

\* Mutant: what the vaults hold is not looked at.
RecordedAmount(q, l) == q.list[l].amount

\* vaultBalanceRaw ?? amountRaw
Contribution(q, l) == IF q.vaults[l] = Unread THEN q.list[l].amount ELSE q.vaults[l]

Total(q) == SumOver(Live(q.list), [l \in Live(q.list) |-> Contribution(q, l)])

StoredAt(q) == now

Complete(q) == q.stage = "vaults" /\ ~MoreChunks(q)

Finish(r) ==
    LET q == apiReq[r] IN
    /\ Complete(q)
    /\ locksCache' = <<[at |-> StoredAt(q), total |-> Total(q), began |-> q.began]>>
    /\ apiReq' = [apiReq EXCEPT ![r] = Idle]
    /\ UNCHANGED <<chain, changes>>

ApiRestart ==
    /\ locksCache' = << >>
    /\ apiReq' = [r \in ApiReqs |-> Idle]
    /\ UNCHANGED <<chain, changes>>

\* The assumption on the RPC node.
ApiTick ==
    /\ \A r \in ApiReqs : apiReq[r].stage # "idle" => now - apiReq[r].began < MaxBuild
    /\ Tick

ApiInit ==
    /\ \E tax \in Taxes :
          chain = [locks |-> [l \in ApiLocks |-> NoLockThere], wallet |-> WalletHolds,
                   tax |-> tax, given |-> FALSE]
    /\ changes = 0
    /\ locksCache = << >>
    /\ apiReq = [r \in ApiReqs |-> Idle]

ChainNext ==
    \E l \in ApiLocks :
        \/ \E a, authority \in {1, 2} : OwnerCreates(l, a, authority)
        \/ \E a \in {1, 2} : OwnerTopsUp(l, a)
        \/ OwnerWithdraws(l) \/ OwnerMigrates(l) \/ OwnerCloses(l) \/ StrangerDonates(l)

ApiStep(r) ==
    \/ Ask(r) \/ ReadList(r) \/ ReadMint(r) \/ MintMissing(r) \/ ApiFails(r)
    \/ ReadVaults(r) \/ MissVaults(r) \/ Finish(r)

ApiNext ==
    \/ (\E r \in ApiReqs : ApiStep(r)) /\ UNCHANGED now
    \/ ChainNext /\ UNCHANGED now
    \/ ApiRestart /\ UNCHANGED now
    \/ ApiTick /\ UNCHANGED apiVars

-----------------------------------------------------------------------------
\* docs/INTEGRATION.md:71 calls the sum of the recorded amounts of the live locks the
\* locked amount of a token.  The route adds up what the vaults hold instead: if the
\* chain has stood still since the list was read, and every vault was asked for, the
\* total is exactly that; and it is the documented amount as well, unless the mint taxes
\* its transfers or somebody has sent tokens to a vault directly.
QuietTotalExact ==
    LET live == Live(chain.locks) IN
    \A r \in ApiReqs :
        LET q == apiReq[r] IN
        Complete(q) /\ q.quiet /\ ~q.failed =>
            /\ Total(q) = SumOver(live, [l \in live |-> Lock(l).vault])
            /\ chain.tax = 0 /\ ~chain.given =>
                  Total(q) = SumOver(live, [l \in live |-> Lock(l).amount])

\* Whatever has changed in between, a live lock of the list is counted with a balance
\* that its own vault has had since the list was read; or with its recorded amount,
\* when the call failed or was left out, or the vault was gone by then.
CountedWasHeld ==
    \A r \in ApiReqs :
        LET q == apiReq[r] IN
        Complete(q) => \A l \in Live(q.list) :
            IF q.vaults[l] # Unread THEN q.vaults[l] \in q.seen[l]
                                    ELSE q.failed \/ Gone \in q.seen[l]

\* No answer from the cache is older than LocksTTL and the time that its reads took,
\* also when two requests missed the cache and the slower one stored last.  The header
\* of the answer, max-age=15, lets a browser or a proxy keep it for a while after that.
AnswerAge == ApiHit => now - locksCache[1].began < LocksTTL + MaxBuild
=============================================================================
