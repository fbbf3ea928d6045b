----------------------------- MODULE MetaCache -----------------------------
(***************************************************************************)
(* resolveTokenMeta, behind POST /api/token and the locks API: the name    *)
(* and image of a token from the indexer, and where the indexer has no     *)
(* image but knows the metadata file, from the first gateway that serves   *)
(* it with one.  Answers are kept for MetaTTL, counted from before the     *)
(* indexer was asked.  Requests run concurrently: while one awaits, others *)
(* run and the indexer's answer changes; each gateway may serve or fail at *)
(* any time.                                                               *)
(*                                                                         *)
(* One token: those of a batch are looked up and stored one by one.        *)
(***************************************************************************)
EXTENDS ServerClock, Sequences

CONSTANTS
    MetaReqs,    \* requests in flight at a time
    MetaTTL,     \* TTL
    Gateways,    \* how many gateways are tried, in order
    MaxVersions  \* bound: how often the token's metadata changes

ASSUME MetaAssumption == MetaTTL \in Nat /\ Gateways \in Nat \ {0}

VARIABLES
    versions,    \* the indexer's answers so far: since when, with an image, with a file
    lastFailed,  \* when each gateway last failed a request, or served no image, if ever
    metaCache,   \* the entry of the token: empty, or one
    metaReq      \* the requests

metaVars == <<versions, lastFailed, metaCache, metaReq>>

Current == Len(versions)
NoMeta  == [version |-> 0, image |-> FALSE, file |-> FALSE]
MetaIdle == [stage |-> "idle", from |-> 0, gateway |-> 0, meta |-> NoMeta]

MetaStages == {"idle", "asking", "gateways"}

MetaHit == metaCache # << >> /\ now - metaCache[1].at < MetaTTL

\* "now" is read once, before anything is awaited.  A hit is answered and changes nothing.
AskMeta(r) ==
    /\ metaReq[r].stage = "idle" /\ ~MetaHit
    /\ metaReq' = [metaReq EXCEPT ![r].stage = "asking", ![r].from = now]
    /\ UNCHANGED <<versions, lastFailed, metaCache>>

\* Mutant: the time of the answer is stored, not that of the request.
StampOfAnswer(q) == now

\* What is stored carries the time at which its request began.
StampOf(q) == q.from

Store(r, meta) ==
    /\ metaCache' = <<[at |-> StampOf(metaReq[r]), v |-> meta]>>
    /\ metaReq' = [metaReq EXCEPT ![r] = MetaIdle]

\* The indexer answers, with an image, with the address of the metadata file, or with
\* neither.  That there was a file is kept to state a property.
IndexerAnswers(r) ==
    LET version == versions[Current]
        meta == [version |-> Current, image |-> version.image, file |-> version.file] IN
    /\ metaReq[r].stage = "asking"
    /\ IF meta.image \/ ~meta.file THEN Store(r, meta)
       ELSE /\ metaReq' = [metaReq EXCEPT ![r].stage = "gateways", ![r].gateway = 1,
                                          ![r].meta = meta]
            /\ UNCHANGED metaCache
    /\ UNCHANGED <<versions, lastFailed>>

\* Or its answer lacks the token.  The caller gets what the cache had for other tokens.
IndexerFails(r) ==
    /\ metaReq[r].stage = "asking"
    /\ metaReq' = [metaReq EXCEPT ![r] = MetaIdle]
    /\ UNCHANGED <<versions, lastFailed, metaCache>>

GatewayAnswers(r) ==
    /\ metaReq[r].stage = "gateways"
    /\ Store(r, [metaReq[r].meta EXCEPT !.image = TRUE])
    /\ UNCHANGED <<versions, lastFailed>>

\* Mutant: only the first gateway is tried.
FirstGateway(g) == g = 1

LastGateway(g) == g = Gateways

\* The next one is tried; after the last the token has no image, and that is stored too.
GatewayFails(r) ==
    LET g == metaReq[r].gateway IN
    /\ metaReq[r].stage = "gateways"
    /\ lastFailed' = [lastFailed EXCEPT ![g] = <<now>>]
    /\ IF LastGateway(g) THEN Store(r, metaReq[r].meta)
       ELSE metaReq' = [metaReq EXCEPT ![r].gateway = g + 1] /\ UNCHANGED metaCache
    /\ UNCHANGED versions

\* The owner of the token edits its metadata.
MetadataChanges ==
    /\ Current < MaxVersions
    /\ \E image, file \in BOOLEAN :
           versions' = Append(versions, [since |-> now, image |-> image, file |-> file])
    /\ UNCHANGED <<lastFailed, metaCache, metaReq>>

MetaRestart ==
    /\ metaCache' = << >>
    /\ metaReq' = [r \in MetaReqs |-> MetaIdle]
    /\ UNCHANGED <<versions, lastFailed>>

MetaInit ==
    /\ versions = <<[since |-> 0, image |-> FALSE, file |-> TRUE]>>
    /\ lastFailed = [g \in 1..Gateways |-> << >>]
    /\ metaCache = << >>
    /\ metaReq = [r \in MetaReqs |-> MetaIdle]

MetaStep(r) ==
    \/ AskMeta(r) \/ IndexerAnswers(r) \/ IndexerFails(r)
    \/ GatewayAnswers(r) \/ GatewayFails(r)

MetaNext ==
    \/ (\E r \in MetaReqs : MetaStep(r)) /\ UNCHANGED now
    \/ MetadataChanges /\ UNCHANGED now
    \/ MetaRestart /\ UNCHANGED now
    \/ Tick /\ UNCHANGED metaVars

-----------------------------------------------------------------------------
\* What a caller gets from the cache was the indexer's answer at some moment of the last
\* MetaTTL: however slow the gateways were, the time they took counts as age, and a slow
\* request that overwrites the answer of a later one does not prolong its own.
CachedMetaWasTrue ==
    MetaHit =>
        LET version == metaCache[1].v.version IN
        version = Current \/ versions[version + 1].since + MetaTTL > now

\* A caller is told from the cache that a token, of which there is a metadata file, has no
\* image only if each of the gateways has failed within the last MetaTTL.
NoImageIsExplained ==
    MetaHit /\ ~metaCache[1].v.image /\ metaCache[1].v.file =>
        \A g \in 1..Gateways : lastFailed[g] # << >> /\ lastFailed[g][1] + MetaTTL > now
=============================================================================
