---------------------------- MODULE ServerProofs ----------------------------
(***************************************************************************)
(* Invariants of the server, for any number of keys, locks, requests and   *)
(* gateways, and every limit, window and time to live.                     *)
(***************************************************************************)
EXTENDS Server, FiniteSetTheorems, SequenceTheorems, TLAPS

(***************************************************************************)
(* The throttle.  The requests S with one key, the entry h of the table    *)
(* and the time: the windows are WINDOW apart, each request lies within    *)
(* its own, and the requests of a window are numbered without gaps.        *)
(***************************************************************************)
Request == [t : Nat, at : Nat, n : Nat \ {0}]
Entry   == [n : Nat, at : Nat]

WithinWindow(S, time) ==
    \A e \in S : e.at <= e.t /\ e.t < e.at + WINDOW /\ e.t <= time

WindowsApart(S) ==
    \A e, f \in S : e.at = f.at \/ e.at + WINDOW <= f.at \/ f.at + WINDOW <= e.at

EntryIsLast(S, h) ==
    \A e \in S : /\ h.n > 0
                 /\ e.at = h.at \/ e.at + WINDOW <= h.at
                 /\ e.at = h.at => e.n <= h.n

Numbered(S) == \A e, f \in S : e.at = f.at /\ e.n = f.n => e = f

NoGaps(S) == \A e \in S : \A k \in 1..e.n : \E f \in S : f.at = e.at /\ f.n = k /\ f.t <= e.t

EntryCounts(S, h) == \A k \in 1..h.n : \E f \in S : f.at = h.at /\ f.n = k

LogOK(S, h, time) ==
    /\ IsFiniteSet(S) /\ S \subseteq Request
    /\ h \in Entry /\ h.at <= time
    /\ WithinWindow(S, time) /\ WindowsApart(S) /\ EntryIsLast(S, h)
    /\ Numbered(S) /\ NoGaps(S) /\ EntryCounts(S, h)

SignInv ==
    /\ now \in Nat
    /\ DOMAIN hits = Ips /\ DOMAIN log = Ips
    /\ \A ip \in Ips : LogOK(log[ip], hits[ip], now)

Recorded(h) == [t |-> now, at |-> h.at, n |-> h.n]

LEMMA CountedCases ==
    ASSUME NEW h \in Entry, now \in Nat
    PROVE  /\ Counted(h) \in Entry
           /\ \/ /\ h.n > 0 /\ now - h.at < WINDOW
                 /\ Counted(h).at = h.at /\ Counted(h).n = h.n + 1
              \/ /\ ~(h.n > 0 /\ now - h.at < WINDOW)
                 /\ Counted(h).at = now /\ Counted(h).n = 1
BY DEF Entry, Counted, InWindow

LEMMA PostKeepsLog ==
    ASSUME NEW S, NEW h, now \in Nat, LogOK(S, h, now)
    PROVE  LogOK(S \cup {Recorded(Counted(h))}, Counted(h), now)
<1> DEFINE c == Counted(h)
           e0 == Recorded(c)
           T == S \cup {e0}
<1>1. h \in Entry /\ h.at <= now /\ S \subseteq Request
  BY DEF LogOK
<1>2. c \in Entry
  BY <1>1, CountedCases
<1>3. \/ /\ h.n > 0 /\ now < h.at + WINDOW /\ c.at = h.at /\ c.n = h.n + 1
      \/ /\ h.n > 0 => h.at + WINDOW <= now
         /\ c.at = now /\ c.n = 1
  BY <1>1, CountedCases, ThrottleAssumption DEF Entry
<1>4. WINDOW \in Nat \ {0} /\ h.n \in Nat /\ h.at \in Nat /\ c.at \in Nat /\ c.n \in Nat \ {0}
      /\ c.at <= now /\ now < c.at + WINDOW
  BY <1>1, <1>2, <1>3, ThrottleAssumption DEF Entry
<1> HIDE DEF c
<1>5. e0 \in Request /\ e0.t = now /\ e0.at = c.at /\ e0.n = c.n
  BY <1>4 DEF Recorded, Request
<1> HIDE DEF e0
<1>6. \A e \in S : e.t \in Nat /\ e.at \in Nat /\ e.n \in Nat \ {0}
  BY <1>1 DEF Request
<1>7. IsFiniteSet(T) /\ T \subseteq Request
  BY <1>1, <1>5, FS_AddElement DEF LogOK
<1>8. WithinWindow(T, now)
  BY <1>4, <1>5 DEF LogOK, WithinWindow
<1>9. \A e \in S : h.n > 0 /\ (e.at = h.at \/ e.at + WINDOW <= h.at)
                   /\ (e.at = h.at => e.n <= h.n)
  BY DEF LogOK, EntryIsLast
<1>10. \A e \in S : (e.at = c.at /\ e.n < c.n) \/ e.at + WINDOW <= c.at
  BY <1>3, <1>4, <1>6, <1>9
<1>11. WindowsApart(T)
  BY <1>5, <1>10 DEF LogOK, WindowsApart
<1>12. EntryIsLast(T, c)
  BY <1>4, <1>5, <1>6, <1>10 DEF EntryIsLast
<1>13. Numbered(T)
  BY <1>4, <1>5, <1>6, <1>10 DEF LogOK, Numbered
<1>14. \A k \in 1..c.n : \E f \in T : f.at = c.at /\ f.n = k /\ f.t <= now
  <2> TAKE k \in 1..c.n
  <2>1. CASE k = c.n
    BY <2>1, <1>4, <1>5
  <2>2. CASE k # c.n
    <3>1. c.at = h.at /\ k \in 1..h.n
      BY <2>2, <1>3, <1>4
    <3>2. PICK f \in S : f.at = h.at /\ f.n = k
      BY <3>1 DEF LogOK, EntryCounts
    <3>3. f.t <= now
      BY DEF LogOK, WithinWindow
    <3> QED
      BY <3>1, <3>2, <3>3
  <2> QED
    BY <2>1, <2>2
<1>15. NoGaps(T)
  <2> SUFFICES ASSUME NEW e \in T, NEW k \in 1..e.n
               PROVE  \E f \in T : f.at = e.at /\ f.n = k /\ f.t <= e.t
    BY DEF NoGaps
  <2>1. CASE e \in S
    BY <2>1 DEF LogOK, NoGaps
  <2>2. CASE e = e0
    BY <2>2, <1>5, <1>14
  <2> QED
    BY <2>1, <2>2
<1>16. EntryCounts(T, c)
  BY <1>14 DEF EntryCounts
<1> QED
  BY <1>2, <1>4, <1>7, <1>8, <1>11, <1>12, <1>13, <1>15, <1>16 DEF LogOK, c, e0

LEMMA LaterKeepsLog ==
    ASSUME NEW S, NEW h, NEW t \in Nat, NEW u \in Nat, t <= u, LogOK(S, h, t)
    PROVE  LogOK(S, h, u)
<1>1. \A e \in S : e.t \in Nat
  BY DEF LogOK, Request
<1>2. WithinWindow(S, u)
  BY <1>1 DEF LogOK, WithinWindow
<1>3. h.at <= u
  BY DEF LogOK, Entry
<1> QED
  BY <1>2, <1>3 DEF LogOK

LEMMA EmptyLog == ASSUME NEW time \in Nat PROVE LogOK({}, NoHit, time)
BY FS_EmptySet
DEF LogOK, NoHit, Entry, WithinWindow, WindowsApart, EntryIsLast, Numbered, NoGaps, EntryCounts

LEMMA SignInvInit == ASSUME ServerInit PROVE SignInv
BY EmptyLog DEF ServerInit, SignInit, SignInv

LEMMA SignInvStep ==
    ASSUME SignInv, SignNext
    PROVE  SignInv'
<1> USE DEF SignInv
<1>1. ASSUME NEW ip \in Ips, Post(ip), now' = now
      PROVE  SignInv'
  <2>1. LogOK(log[ip] \cup {Recorded(Counted(hits[ip]))}, Counted(hits[ip]), now)
    BY PostKeepsLog
  <2>2. /\ hits' = [hits EXCEPT ![ip] = Counted(hits[ip])]
        /\ log' = [log EXCEPT ![ip] = log[ip] \cup {Recorded(Counted(hits[ip]))}]
    BY <1>1 DEF Post, Recorded
  <2>3. ASSUME NEW other \in Ips
        PROVE  LogOK(log'[other], hits'[other], now)
    <3>1. CASE other = ip
      BY <3>1, <2>1, <2>2
    <3>2. CASE other # ip
      BY <3>2, <2>2
    <3> QED
      BY <3>1, <3>2
  <2> QED
    BY <1>1, <2>2, <2>3
<1>2. ASSUME SignRestart, now' = now
      PROVE  SignInv'
  <2>1. LogOK({}, NoHit, now)
    BY EmptyLog
  <2>2. \A ip \in Ips : log'[ip] = {} /\ hits'[ip] = NoHit
    BY <1>2 DEF SignRestart
  <2>3. DOMAIN hits' = Ips /\ DOMAIN log' = Ips
    BY <1>2 DEF SignRestart
  <2> QED
    BY <1>2, <2>1, <2>2, <2>3
<1>3. ASSUME Tick, UNCHANGED signVars
      PROVE  SignInv'
  <2>1. now' \in Nat /\ now <= now'
    BY <1>3 DEF Tick
  <2>2. ASSUME NEW ip \in Ips
        PROVE  LogOK(log[ip], hits[ip], now')
    BY <2>1, LaterKeepsLog
  <2> QED
    BY <1>3, <2>1, <2>2 DEF signVars
<1> QED
  BY <1>1, <1>2, <1>3 DEF SignNext

\* A step of another route, or one that changes nothing: the clock may go on.
LEMMA SignInvElsewhere ==
    ASSUME SignInv, UNCHANGED signVars, UNCHANGED now \/ Tick
    PROVE  SignInv'
<1>1. now' \in Nat /\ now <= now'
  BY DEF SignInv, Tick
<1>2. ASSUME NEW ip \in Ips
      PROVE  LogOK(log[ip], hits[ip], now')
  BY <1>1, LaterKeepsLog DEF SignInv
<1> QED
  BY <1>1, <1>2 DEF SignInv, signVars

\* A step of the server is one of the throttle's, or lets the clock go on at most.
LEMMA StepsOfSign ==
    ASSUME [ServerNext]_serverVars
    PROVE  SignNext \/ (UNCHANGED signVars /\ (UNCHANGED now \/ Tick))
<1>1. CASE route = "sign" /\ SignNext
  BY <1>1
<1>2. CASE MetaNext /\ UNCHANGED signVars
  BY <1>2 DEF MetaNext
<1>3. CASE ApiNext /\ UNCHANGED signVars
  BY <1>3 DEF ApiNext, ApiTick
<1>4. CASE UNCHANGED serverVars
  BY <1>4 DEF serverVars
<1> QED
  BY <1>1, <1>2, <1>3, <1>4 DEF ServerNext

\* The inductive invariant of the throttle.
THEOREM ServerSignInv == ServerSpec => []SignInv
<1>1. SignInv /\ [ServerNext]_serverVars => SignInv'
  BY SignInvStep, SignInvElsewhere, StepsOfSign
<1> QED
  BY <1>1, SignInvInit, PTL DEF ServerSpec

-----------------------------------------------------------------------------
\* The requests of one window that were let through are at most LIMIT.
LEMMA OneWindow ==
    ASSUME NEW S, S \subseteq Request, IsFiniteSet(S), Numbered(S),
           \A e \in S : e.n <= LIMIT, \A e, f \in S : e.at = f.at
    PROVE  Cardinality(S) <= LIMIT
<1> DEFINE number == [e \in S |-> e.n]
<1>1. number \in Injection(S, 1..LIMIT)
  BY ThrottleAssumption DEF Injection, IsInjective, Numbered, Request
<1>2. IsFiniteSet(1..LIMIT) /\ Cardinality(1..LIMIT) = LIMIT
  BY FS_Interval, ThrottleAssumption
<1> HIDE DEF number
<1> QED
  BY <1>1, <1>2, FS_Injection

LEMMA LogBoundsStretch ==
    ASSUME NEW S, NEW h, NEW time \in Nat, LogOK(S, h, time), NEW from \in Nat
    PROVE  LET during == {e \in S : e.n <= LIMIT /\ from <= e.t /\ e.t < from + WINDOW}
           IN  IsFiniteSet(during) /\ Cardinality(during) <= 2 * LIMIT
<1> DEFINE D == {e \in S : e.n <= LIMIT /\ from <= e.t /\ e.t < from + WINDOW}
           Before == {e \in D : e.at <= from}
           After  == {e \in D : from < e.at}
<1>1. \A e \in S : e.t \in Nat /\ e.at \in Nat /\ e.n \in Nat
  BY DEF LogOK, Request
<1>2. D = Before \cup After
  BY <1>1
<1>3. WINDOW \in Nat /\ LIMIT \in Nat
  BY ThrottleAssumption
<1>4. \A e, f \in Before : e.at = f.at
  BY <1>1, <1>3 DEF LogOK, WithinWindow, WindowsApart
<1>5. \A e, f \in After : e.at = f.at
  BY <1>1, <1>3 DEF LogOK, WithinWindow, WindowsApart
<1>6. IsFiniteSet(Before) /\ IsFiniteSet(After)
  BY FS_Subset DEF LogOK
<1>7. Cardinality(Before) <= LIMIT
  <2>1. Before \subseteq Request /\ Numbered(Before) /\ \A e \in Before : e.n <= LIMIT
    BY DEF LogOK, Numbered
  <2> QED
    BY <2>1, <1>4, <1>6, OneWindow
<1>8. Cardinality(After) <= LIMIT
  <2>1. After \subseteq Request /\ Numbered(After) /\ \A e \in After : e.n <= LIMIT
    BY DEF LogOK, Numbered
  <2> QED
    BY <2>1, <1>5, <1>6, OneWindow
<1> HIDE DEF D, Before, After
<1>9. /\ Cardinality(Before) \in Nat /\ Cardinality(After) \in Nat
      /\ Cardinality(Before \cap After) \in Nat
  BY <1>6, FS_CardinalityType, FS_Subset
<1>10. IsFiniteSet(D) /\ Cardinality(D) <= LIMIT + LIMIT
  BY <1>2, <1>3, <1>6, <1>7, <1>8, <1>9, FS_Union
<1> QED
  BY <1>3, <1>10 DEF D

\* Whatever the requests with one key, no stretch of time of the length of a window
\* lets more than 2 * LIMIT of them through.
THEOREM ThrottleBounds == ServerSpec => []TwiceLimitAtMost
<1>1. SignInv => TwiceLimitAtMost
  <2> SUFFICES ASSUME SignInv, NEW ip \in Ips, NEW from \in 0..now
               PROVE  LET during == {e \in LetThrough(ip) : from <= e.t /\ e.t < from + WINDOW}
                      IN  IsFiniteSet(during) /\ Cardinality(during) <= 2 * LIMIT
    BY DEF TwiceLimitAtMost
  <2> DEFINE D == {e \in log[ip] : e.n <= LIMIT /\ from <= e.t /\ e.t < from + WINDOW}
  <2>1. from \in Nat /\ now \in Nat /\ LogOK(log[ip], hits[ip], now)
    BY DEF SignInv
  <2>2. IsFiniteSet(D) /\ Cardinality(D) <= 2 * LIMIT
    BY <2>1, LogBoundsStretch
  <2>3. {e \in LetThrough(ip) : from <= e.t /\ e.t < from + WINDOW} = D
    BY DEF LetThrough
  <2> QED
    BY <2>2, <2>3
<1> QED
  BY <1>1, ServerSignInv, PTL

\* Nobody is refused for requests that lie a window or more in the past.
THEOREM RefusedWereBusy == ServerSpec => []OnlyBusyRefused
<1>1. SignInv => OnlyBusyRefused
  <2> SUFFICES ASSUME SignInv, NEW ip \in Ips, NEW e \in log[ip], e.n > LIMIT
               PROVE  Cardinality({f \in log[ip] : e.t < f.t + WINDOW /\ f.t <= e.t}) > LIMIT
    BY DEF OnlyBusyRefused
  <2> DEFINE S == log[ip]
             recent == {f \in S : e.t < f.t + WINDOW /\ f.t <= e.t}
             kth(k) == CHOOSE f \in S : f.at = e.at /\ f.n = k /\ f.t <= e.t
             pick == [k \in 1..e.n |-> kth(k)]
  <2>1. LogOK(S, hits[ip], now) /\ WINDOW \in Nat /\ LIMIT \in Nat
    BY ThrottleAssumption DEF SignInv
  <2>2. \A f \in S : f.t \in Nat /\ f.at \in Nat /\ f.n \in Nat
    BY <2>1 DEF LogOK, Request
  <2>3. \A k \in 1..e.n : kth(k) \in S /\ kth(k).at = e.at /\ kth(k).n = k /\ kth(k).t <= e.t
    BY <2>1 DEF LogOK, NoGaps
  <2>4. \A k \in 1..e.n : kth(k) \in recent
    BY <2>1, <2>2, <2>3 DEF LogOK, WithinWindow
  <2> HIDE DEF kth
  <2>5. pick \in Injection(1..e.n, recent)
    BY <2>3, <2>4 DEF Injection, IsInjective
  <2>6. IsFiniteSet(recent)
    BY <2>1, FS_Subset DEF LogOK
  <2>7. Cardinality(1..e.n) = e.n
    BY <2>2, FS_Interval
  <2> HIDE DEF pick, recent
  <2>8. Cardinality(1..e.n) <= Cardinality(recent) /\ Cardinality(recent) \in Nat
    BY <2>5, <2>6, FS_Injection, FS_CardinalityType
  <2>9. Cardinality(recent) > LIMIT
    BY <2>1, <2>2, <2>7, <2>8
  <2> QED
    BY <2>9 DEF recent
<1> QED
  BY <1>1, ServerSignInv, PTL

-----------------------------------------------------------------------------
(***************************************************************************)
(* The token metadata.  A version was the indexer's answer since a time if *)
(* it still is, or its successor came then or later.                       *)
(***************************************************************************)
Version == [since : Nat, image : BOOLEAN, file : BOOLEAN]
Meta    == [version : Nat, image : BOOLEAN, file : BOOLEAN]

TrueSince(version, from) ==
    /\ version \in 1..Len(versions)
    /\ version = Len(versions) \/ versions[version + 1].since >= from

FailedSince(g, from) == lastFailed[g] # << >> /\ lastFailed[g][1] >= from

RequestOK(q) ==
    /\ q \in [stage : MetaStages, from : Nat, gateway : Nat, meta : Meta]
    /\ q.from <= now
    /\ q.stage = "gateways" =>
          /\ q.gateway \in 1..Gateways
          /\ TrueSince(q.meta.version, q.from)
          /\ \A g \in 1..(q.gateway - 1) : FailedSince(g, q.from)

StoredOK(entry) ==
    /\ entry \in [at : Nat, v : Meta]
    /\ TrueSince(entry.v.version, entry.at)
    /\ ~entry.v.image /\ entry.v.file => \A g \in 1..Gateways : FailedSince(g, entry.at)

MetaInv ==
    /\ now \in Nat
    /\ versions \in Seq(Version) /\ Len(versions) >= 1
    /\ lastFailed \in [1..Gateways -> Seq(Nat)]
    /\ DOMAIN metaReq = MetaReqs
    /\ \A r \in MetaReqs : RequestOK(metaReq[r])
    /\ metaCache # << >> => StoredOK(metaCache[1]) /\ metaCache[1].at <= now

LEMMA MetaInvInit == ASSUME ServerInit PROVE MetaInv
<1>1. RequestOK(MetaIdle)
  BY DEF ServerInit, RequestOK, MetaIdle, MetaStages, NoMeta, Meta
<1> QED
  BY <1>1, MetaAssumption DEF ServerInit, MetaInit, MetaInv, Version

\* What a failure, a new version or the time adds takes nothing back.
LEMMA MoreOfMeta ==
    ASSUME MetaInv, now' \in Nat, now <= now',
           \/ versions' = versions
           \/ \E image, file \in BOOLEAN :
                 versions' = Append(versions, [since |-> now, image |-> image, file |-> file]),
           \/ lastFailed' = lastFailed
           \/ \E g \in 1..Gateways : lastFailed' = [lastFailed EXCEPT ![g] = <<now>>]
    PROVE  /\ versions' \in Seq(Version) /\ Len(versions') >= 1
           /\ lastFailed' \in [1..Gateways -> Seq(Nat)]
           /\ \A version, from \in Nat :
                 from <= now /\ TrueSince(version, from) => TrueSince(version, from)'
           /\ \A g \in 1..Gateways, from \in Nat :
                 from <= now /\ FailedSince(g, from) => FailedSince(g, from)'
<1>1. versions' \in Seq(Version) /\ Len(versions') >= 1
  <2>1. CASE versions' = versions
    BY <2>1 DEF MetaInv
  <2>2. ASSUME NEW image \in BOOLEAN, NEW file \in BOOLEAN,
               versions' = Append(versions, [since |-> now, image |-> image, file |-> file])
        PROVE  versions' \in Seq(Version) /\ Len(versions') >= 1
    <3>1. [since |-> now, image |-> image, file |-> file] \in Version
      BY DEF MetaInv, Version
    <3> QED
      BY <2>2, <3>1 DEF MetaInv
  <2> QED
    BY <2>1, <2>2
<1>2. now \in Nat /\ <<now>> \in Seq(Nat) /\ <<now>> # << >> /\ <<now>>[1] = now
  BY DEF MetaInv
<1>3. lastFailed' \in [1..Gateways -> Seq(Nat)]
  BY <1>2 DEF MetaInv
<1>4. ASSUME NEW version \in Nat, NEW from \in Nat, from <= now, TrueSince(version, from)
      PROVE  TrueSince(version, from)'
  <2>1. CASE versions' = versions
    BY <2>1, <1>4 DEF TrueSince
  <2>2. ASSUME NEW image \in BOOLEAN, NEW file \in BOOLEAN,
               versions' = Append(versions, [since |-> now, image |-> image, file |-> file])
        PROVE  TrueSince(version, from)'
    <3>1. /\ Len(versions') = Len(versions) + 1
          /\ versions'[Len(versions) + 1] = [since |-> now, image |-> image, file |-> file]
          /\ \A i \in 1..Len(versions) : versions'[i] = versions[i]
      BY <2>2 DEF MetaInv
    <3> QED
      BY <3>1, <1>4 DEF TrueSince, MetaInv
  <2> QED
    BY <2>1, <2>2
<1>5. ASSUME NEW g \in 1..Gateways, NEW from \in Nat, from <= now, FailedSince(g, from)
      PROVE  FailedSince(g, from)'
  <2>1. CASE lastFailed' = lastFailed
    BY <2>1, <1>5 DEF FailedSince
  <2>2. ASSUME NEW h \in 1..Gateways, lastFailed' = [lastFailed EXCEPT ![h] = <<now>>]
        PROVE  FailedSince(g, from)'
    <3>1. lastFailed'[g] = IF g = h THEN <<now>> ELSE lastFailed[g]
      BY <2>2 DEF MetaInv
    <3> QED
      BY <3>1, <1>2, <1>5 DEF FailedSince
  <2> QED
    BY <2>1, <2>2
<1> QED
  BY <1>1, <1>3, <1>4, <1>5

LEMMA RequestStaysOK ==
    ASSUME MetaInv, now' \in Nat, now <= now', NEW q, RequestOK(q),
           \A version, from \in Nat :
              from <= now /\ TrueSince(version, from) => TrueSince(version, from)',
           \A g \in 1..Gateways, from \in Nat :
              from <= now /\ FailedSince(g, from) => FailedSince(g, from)'
    PROVE  RequestOK(q)'
<1>1. /\ q \in [stage : MetaStages, from : Nat, gateway : Nat, meta : Meta]
      /\ q.from \in Nat /\ q.meta.version \in Nat /\ q.from <= now /\ q.from <= now'
  BY DEF RequestOK, MetaInv, Meta
<1>2. CASE q.stage = "gateways"
  <2>1. q.gateway \in 1..Gateways
    BY <1>2 DEF RequestOK
  <2>2. TrueSince(q.meta.version, q.from)'
    BY <1>1, <1>2 DEF RequestOK
  <2>3. \A g \in 1..(q.gateway - 1) : FailedSince(g, q.from)'
    BY <1>1, <1>2, <2>1, MetaAssumption DEF RequestOK
  <2> QED
    BY <1>1, <2>1, <2>2, <2>3 DEF RequestOK
<1>3. CASE q.stage # "gateways"
  BY <1>1, <1>3 DEF RequestOK
<1> QED
  BY <1>2, <1>3

LEMMA EntryStaysOK ==
    ASSUME MetaInv, NEW entry, StoredOK(entry), entry.at <= now,
           \A version, from \in Nat :
              from <= now /\ TrueSince(version, from) => TrueSince(version, from)',
           \A g \in 1..Gateways, from \in Nat :
              from <= now /\ FailedSince(g, from) => FailedSince(g, from)'
    PROVE  StoredOK(entry)'
BY DEF StoredOK, Meta

\* A step preserves the invariant if what it changes of the requests and of the cache is
\* right: the rest stays so.
LEMMA MetaFrame ==
    ASSUME MetaInv, now' \in Nat, now <= now',
           \/ versions' = versions
           \/ \E image, file \in BOOLEAN :
                 versions' = Append(versions, [since |-> now, image |-> image, file |-> file]),
           \/ lastFailed' = lastFailed
           \/ \E g \in 1..Gateways : lastFailed' = [lastFailed EXCEPT ![g] = <<now>>],
           DOMAIN metaReq' = MetaReqs,
           \A r \in MetaReqs : metaReq'[r] = metaReq[r] \/ RequestOK(metaReq[r])',
           \/ metaCache' = metaCache \/ metaCache' = << >>
           \/ StoredOK(metaCache[1])' /\ metaCache'[1].at <= now'
    PROVE  MetaInv'
<1>1. /\ versions' \in Seq(Version) /\ Len(versions') >= 1
      /\ lastFailed' \in [1..Gateways -> Seq(Nat)]
      /\ \A version, from \in Nat :
            from <= now /\ TrueSince(version, from) => TrueSince(version, from)'
      /\ \A g \in 1..Gateways, from \in Nat :
            from <= now /\ FailedSince(g, from) => FailedSince(g, from)'
  BY MoreOfMeta
<1>2. ASSUME NEW r \in MetaReqs
      PROVE  RequestOK(metaReq[r])'
  <2>1. CASE metaReq'[r] = metaReq[r]
    <3>1. RequestOK(metaReq[r])
      BY DEF MetaInv
    <3>2. PICK p : p = metaReq[r]
      OBVIOUS
    <3>3. RequestOK(p)'
      BY <1>1, <3>1, <3>2, RequestStaysOK
    <3> QED
      BY <2>1, <3>2, <3>3
  <2> QED
    BY <2>1
<1>3. metaCache' # << >> => StoredOK(metaCache[1])' /\ metaCache'[1].at <= now'
  <2>1. CASE metaCache' = metaCache /\ metaCache # << >>
    <3>1. StoredOK(metaCache[1]) /\ metaCache[1].at <= now /\ metaCache[1].at \in Nat
      BY <2>1 DEF MetaInv, StoredOK
    <3>2. PICK entry : entry = metaCache[1]
      OBVIOUS
    <3>3. StoredOK(entry)'
      BY <1>1, <3>1, <3>2, EntryStaysOK
    <3> QED
      BY <2>1, <3>1, <3>2, <3>3 DEF MetaInv
  <2> QED
    BY <2>1
<1> QED
  BY <1>1, <1>2, <1>3 DEF MetaInv

\* A version and a failure of now, as the primed state has them.
LEMMA NowIsTrue ==
    ASSUME MetaInv
    PROVE  Current \in Nat /\ versions[Current] \in Version /\ TrueSince(Current, now)
BY DEF MetaInv, Current, TrueSince

LEMMA RequestTypes ==
    ASSUME MetaInv, NEW r \in MetaReqs
    PROVE  /\ RequestOK(metaReq[r])
           /\ metaReq[r] \in [stage : MetaStages, from : Nat, gateway : Nat, meta : Meta]
           /\ metaReq[r].from \in Nat /\ metaReq[r].from <= now /\ metaReq[r].gateway \in Nat
           /\ metaReq[r].meta \in Meta
BY DEF MetaInv, RequestOK

LEMMA IdleOK == ASSUME now \in Nat PROVE RequestOK(MetaIdle)
BY DEF RequestOK, MetaIdle, MetaStages, NoMeta, Meta

\* A step of request r, after which it is q.
LEMMA MetaFrameOf ==
    ASSUME MetaInv, NEW r \in MetaReqs, NEW q, now' = now, RequestOK(q)',
           metaReq' = [metaReq EXCEPT ![r] = q],
           versions' = versions,
           \/ lastFailed' = lastFailed
           \/ \E g \in 1..Gateways : lastFailed' = [lastFailed EXCEPT ![g] = <<now>>],
           metaCache' = metaCache \/ (StoredOK(metaCache[1])' /\ metaCache'[1].at <= now)
    PROVE  MetaInv'
<1>1. now' \in Nat /\ now <= now' /\ DOMAIN metaReq = MetaReqs
  BY DEF MetaInv
<1>2. DOMAIN metaReq' = MetaReqs /\ metaReq'[r] = q
  BY <1>1
<1>3. \A k \in MetaReqs : metaReq'[k] = metaReq[k] \/ k = r
  BY <1>1
<1>4. RequestOK(metaReq[r])'
  BY <1>2
<1> QED
  BY <1>1, <1>2, <1>3, <1>4, MetaFrame

LEMMA AskMetaKeeps ==
    ASSUME MetaInv, NEW r \in MetaReqs, AskMeta(r), now' = now
    PROVE  MetaInv'
<1>1. now \in Nat /\ DOMAIN metaReq = MetaReqs
  BY DEF MetaInv
<1>2. PICK q : q = [metaReq[r] EXCEPT !.stage = "asking", !.from = now]
  OBVIOUS
<1>3. /\ q \in [stage : MetaStages, from : Nat, gateway : Nat, meta : Meta]
      /\ q.stage = "asking" /\ q.from = now
  BY <1>1, <1>2, RequestTypes DEF MetaStages
<1>4. RequestOK(q)'
  BY <1>1, <1>3 DEF RequestOK
<1>5. metaReq' = [metaReq EXCEPT ![r] = q] /\ UNCHANGED <<versions, lastFailed, metaCache>>
  BY <1>2 DEF AskMeta
<1> QED
  BY <1>4, <1>5, MetaFrameOf

\* What is stored is right if its version was true, and the failures were, since the
\* time that the request carries.
LEMMA StoreKeeps ==
    ASSUME MetaInv, NEW r \in MetaReqs, NEW meta \in Meta, Store(r, meta), now' = now,
           NEW from, from = metaReq[r].from,
           versions' = versions,
           \/ lastFailed' = lastFailed
           \/ \E g \in 1..Gateways : lastFailed' = [lastFailed EXCEPT ![g] = <<now>>],
           TrueSince(meta.version, from),
           ~meta.image /\ meta.file => \A g \in 1..Gateways : FailedSince(g, from)'
    PROVE  MetaInv'
<1>1. PICK entry : entry = [at |-> metaReq[r].from, v |-> meta]
  OBVIOUS
<1>2. metaReq[r].from \in Nat /\ metaReq[r].from <= now /\ now \in Nat
  BY RequestTypes DEF MetaInv
<1>3. /\ entry \in [at : Nat, v : Meta] /\ entry.at = from /\ entry.v = meta
      /\ from <= now
  BY <1>1, <1>2
<1>4. TrueSince(meta.version, from)'
  BY DEF TrueSince
<1>5. StoredOK(entry)'
  BY <1>3, <1>4 DEF StoredOK
<1>6. metaCache' = <<entry>> /\ metaReq' = [metaReq EXCEPT ![r] = MetaIdle]
  BY <1>1 DEF Store, StampOf
<1>7. StoredOK(metaCache[1])' /\ metaCache'[1].at <= now
  BY <1>3, <1>5, <1>6
<1>8. PICK idle : idle = MetaIdle
  OBVIOUS
<1>9. RequestOK(idle)'
  BY <1>2, <1>8 DEF RequestOK, MetaIdle, MetaStages, NoMeta, Meta
<1> QED
  BY <1>6, <1>7, <1>8, <1>9, MetaFrameOf

LEMMA IndexerAnswersKeeps ==
    ASSUME MetaInv, NEW r \in MetaReqs, IndexerAnswers(r), now' = now
    PROVE  MetaInv'
<1>1. PICK from : from = metaReq[r].from
  OBVIOUS
<1>2. PICK meta : meta = [version |-> Current, image |-> versions[Current].image,
                          file |-> versions[Current].file]
  OBVIOUS
<1>3. /\ from \in Nat /\ from <= now /\ now \in Nat
      /\ meta \in Meta /\ meta.version = Len(versions) /\ Len(versions) \in 1..Len(versions)
  <2>1. from \in Nat /\ from <= now /\ now \in Nat
    BY <1>1, RequestTypes DEF MetaInv
  <2>2. /\ Current \in Nat /\ versions[Current].image \in BOOLEAN
        /\ versions[Current].file \in BOOLEAN
    BY NowIsTrue DEF Version
  <2>3. meta \in Meta /\ meta.version = Current
    BY <1>2, <2>2 DEF Meta
  <2> QED
    BY <2>1, <2>3 DEF MetaInv, Current
<1>4. TrueSince(meta.version, from)
  BY <1>3 DEF TrueSince
<1>5. CASE meta.image \/ ~meta.file
  <2>1. Store(r, meta) /\ UNCHANGED <<versions, lastFailed>>
    BY <1>2, <1>5 DEF IndexerAnswers
  <2> QED
    BY <1>1, <1>3, <1>4, <1>5, <2>1, StoreKeeps
<1>6. CASE ~(meta.image \/ ~meta.file)
  <2>1. PICK q : q = [metaReq[r] EXCEPT !.stage = "gateways", !.gateway = 1, !.meta = meta]
    OBVIOUS
  <2>2. /\ q \in [stage : MetaStages, from : Nat, gateway : Nat, meta : Meta]
        /\ q.stage = "gateways" /\ q.from = from /\ q.gateway = 1 /\ q.meta = meta
    BY <1>1, <1>3, <2>1, RequestTypes DEF MetaStages
  <2>3. metaReq' = [metaReq EXCEPT ![r] = q] /\ UNCHANGED <<versions, lastFailed, metaCache>>
    BY <1>2, <1>6, <2>1 DEF IndexerAnswers
  <2>4. TrueSince(meta.version, from)'
    BY <1>4, <2>3 DEF TrueSince
  <2>5. RequestOK(q)'
    BY <1>3, <2>2, <2>4, MetaAssumption DEF RequestOK
  <2> QED
    BY <2>3, <2>5, MetaFrameOf
<1> QED
  BY <1>5, <1>6

LEMMA IndexerFailsKeeps ==
    ASSUME MetaInv, NEW r \in MetaReqs, IndexerFails(r), now' = now
    PROVE  MetaInv'
<1>1. PICK idle : idle = MetaIdle
  OBVIOUS
<1>2. RequestOK(idle)'
  BY <1>1 DEF MetaInv, RequestOK, MetaIdle, MetaStages, NoMeta, Meta
<1> QED
  BY <1>1, <1>2, MetaFrameOf DEF IndexerFails

LEMMA GatewayAnswersKeeps ==
    ASSUME MetaInv, NEW r \in MetaReqs, GatewayAnswers(r), now' = now
    PROVE  MetaInv'
<1>1. PICK from : from = metaReq[r].from
  OBVIOUS
<1>2. PICK meta : meta = [metaReq[r].meta EXCEPT !.image = TRUE]
  OBVIOUS
<1>3. meta \in Meta /\ meta.image /\ meta.version = metaReq[r].meta.version
  BY <1>2, RequestTypes DEF Meta
<1>4. TrueSince(meta.version, from)
  BY <1>1, <1>3, RequestTypes DEF GatewayAnswers, RequestOK
<1> QED
  BY <1>1, <1>2, <1>3, <1>4, StoreKeeps DEF GatewayAnswers

LEMMA GatewayFailsKeeps ==
    ASSUME MetaInv, NEW r \in MetaReqs, GatewayFails(r), now' = now
    PROVE  MetaInv'
<1>1. PICK from : from = metaReq[r].from
  OBVIOUS
<1>2. PICK meta : meta = metaReq[r].meta
  OBVIOUS
<1>3. PICK g : g = metaReq[r].gateway
  OBVIOUS
<1>4. /\ from \in Nat /\ from <= now /\ now \in Nat /\ meta \in Meta /\ g \in 1..Gateways
      /\ TrueSince(meta.version, from) /\ \A h \in 1..(g - 1) : FailedSince(h, from)
  BY <1>1, <1>2, <1>3, RequestTypes DEF GatewayFails, RequestOK, MetaInv
<1>5. lastFailed' = [lastFailed EXCEPT ![g] = <<now>>] /\ versions' = versions
  BY <1>3 DEF GatewayFails
<1>6. \A h \in 1..g : FailedSince(h, from)'
  <2>1. <<now>> # << >> /\ <<now>>[1] = now
    OBVIOUS
  <2>2. \A h \in 1..Gateways : lastFailed'[h] = IF h = g THEN <<now>> ELSE lastFailed[h]
    BY <1>4, <1>5 DEF MetaInv
  <2>3. \A h \in 1..g : h \in 1..Gateways /\ (h = g \/ h \in 1..(g - 1))
    BY <1>4, MetaAssumption
  <2> QED
    BY <1>4, <2>1, <2>2, <2>3 DEF FailedSince
<1>7. CASE LastGateway(g)
  <2>1. Store(r, meta)
    BY <1>2, <1>3, <1>7 DEF GatewayFails
  <2> QED
    BY <1>1, <1>4, <1>5, <1>6, <1>7, <2>1, StoreKeeps DEF LastGateway
<1>8. CASE ~LastGateway(g)
  <2>1. PICK q : q = [metaReq[r] EXCEPT !.gateway = g + 1]
    OBVIOUS
  <2>2. /\ q \in [stage : MetaStages, from : Nat, gateway : Nat, meta : Meta]
        /\ q.from = from /\ q.gateway = g + 1 /\ q.meta = meta
    BY <1>1, <1>2, <1>4, <2>1, RequestTypes
  <2>3. metaReq' = [metaReq EXCEPT ![r] = q] /\ metaCache' = metaCache
    BY <1>3, <1>8, <2>1 DEF GatewayFails
  <2>4. TrueSince(meta.version, from)'
    BY <1>4, <1>5 DEF TrueSince
  <2>5. q.gateway \in 1..Gateways /\ q.gateway - 1 = g
    BY <1>4, <1>8, <2>2, MetaAssumption DEF LastGateway
  <2>6. RequestOK(q)'
    BY <1>4, <1>6, <2>2, <2>4, <2>5 DEF RequestOK
  <2> QED
    BY <1>4, <1>5, <2>3, <2>6, MetaFrameOf
<1> QED
  BY <1>7, <1>8

LEMMA MetaInvStep ==
    ASSUME MetaInv, MetaNext
    PROVE  MetaInv'
<1>1. now \in Nat /\ DOMAIN metaReq = MetaReqs
  BY DEF MetaInv
<1>2. ASSUME NEW r \in MetaReqs, MetaStep(r), now' = now
      PROVE  MetaInv'
  BY <1>2, AskMetaKeeps, IndexerAnswersKeeps, IndexerFailsKeeps, GatewayAnswersKeeps,
     GatewayFailsKeeps DEF MetaStep
<1>3. ASSUME MetadataChanges, now' = now
      PROVE  MetaInv'
  BY <1>1, <1>3, MetaFrame DEF MetadataChanges
<1>4. ASSUME MetaRestart, now' = now
      PROVE  MetaInv'
  <2>1. PICK idle : idle = MetaIdle
    OBVIOUS
  <2>2. RequestOK(idle)'
    BY <1>1, <1>4, <2>1 DEF RequestOK, MetaIdle, MetaStages, NoMeta, Meta
  <2>3. DOMAIN metaReq' = MetaReqs /\ \A r \in MetaReqs : metaReq'[r] = idle
    BY <1>4, <2>1 DEF MetaRestart
  <2>4. \A r \in MetaReqs : RequestOK(metaReq[r])'
    BY <2>2, <2>3
  <2> QED
    BY <1>1, <1>4, <2>3, <2>4, MetaFrame DEF MetaRestart
<1>5. ASSUME Tick, UNCHANGED metaVars
      PROVE  MetaInv'
  BY <1>1, <1>5, MetaFrame DEF Tick, metaVars
<1> QED
  BY <1>2, <1>3, <1>4, <1>5 DEF MetaNext

LEMMA StepsOfMeta ==
    ASSUME [ServerNext]_serverVars
    PROVE  MetaNext \/ (UNCHANGED metaVars /\ (UNCHANGED now \/ Tick))
<1>1. CASE SignNext /\ UNCHANGED metaVars
  BY <1>1 DEF SignNext
<1>2. CASE MetaNext
  BY <1>2
<1>3. CASE ApiNext /\ UNCHANGED metaVars
  BY <1>3 DEF ApiNext, ApiTick
<1>4. CASE UNCHANGED serverVars
  BY <1>4 DEF serverVars
<1> QED
  BY <1>1, <1>2, <1>3, <1>4 DEF ServerNext

\* The inductive invariant of the metadata cache.
THEOREM ServerMetaInv == ServerSpec => []MetaInv
<1>1. MetaInv /\ UNCHANGED metaVars /\ (UNCHANGED now \/ Tick) => MetaInv'
  BY MetaFrame DEF MetaInv, Tick, metaVars
<1>2. MetaInv /\ [ServerNext]_serverVars => MetaInv'
  BY <1>1, MetaInvStep, StepsOfMeta
<1> QED
  BY <1>2, MetaInvInit, PTL DEF ServerSpec

\* What the cache answers was true at some moment of the last MetaTTL.
THEOREM CachedMetaIsRecent == ServerSpec => []CachedMetaWasTrue
<1>1. MetaInv => CachedMetaWasTrue
  <2> SUFFICES ASSUME MetaInv, MetaHit, metaCache[1].v.version # Current
               PROVE  versions[metaCache[1].v.version + 1].since + MetaTTL > now
    BY DEF CachedMetaWasTrue
  <2> DEFINE v == metaCache[1].v.version
  <2>1. metaCache[1].at \in Nat /\ now \in Nat /\ now - metaCache[1].at < MetaTTL
    BY DEF MetaHit, MetaInv, StoredOK
  <2>2. v \in 1..Len(versions) /\ v # Len(versions)
    BY DEF MetaHit, MetaInv, StoredOK, TrueSince, Current
  <2>3. versions[v + 1].since >= metaCache[1].at
    BY <2>2 DEF MetaHit, MetaInv, StoredOK, TrueSince
  <2>4. versions[v + 1] \in Version
    BY <2>2 DEF MetaInv
  <2>5. versions[v + 1].since \in Nat
    BY <2>4 DEF Version
  <2> QED
    BY <2>1, <2>3, <2>5, MetaAssumption
<1> QED
  BY <1>1, ServerMetaInv, PTL

\* A token that has a metadata file but is answered without an image has seen every
\* gateway fail within the last MetaTTL.
THEOREM MissingImageIsRecent == ServerSpec => []NoImageIsExplained
<1>1. MetaInv => NoImageIsExplained
  <2> SUFFICES ASSUME MetaInv, MetaHit, ~metaCache[1].v.image, metaCache[1].v.file,
                      NEW g \in 1..Gateways
               PROVE  lastFailed[g] # << >> /\ lastFailed[g][1] + MetaTTL > now
    BY DEF NoImageIsExplained
  <2>1. metaCache[1].at \in Nat /\ now \in Nat /\ now - metaCache[1].at < MetaTTL
    BY DEF MetaHit, MetaInv, StoredOK
  <2>2. lastFailed[g] # << >> /\ lastFailed[g][1] >= metaCache[1].at
    BY DEF MetaHit, MetaInv, StoredOK, FailedSince
  <2>3. lastFailed[g] \in Seq(Nat)
    BY DEF MetaInv
  <2>4. lastFailed[g][1] \in Nat
    BY <2>2, <2>3
  <2> QED
    BY <2>1, <2>2, <2>4, MetaAssumption
<1> QED
  BY <1>1, ServerMetaInv, PTL

-----------------------------------------------------------------------------
(***************************************************************************)
(* The locks API.  The reads of a request that is not idle, and those of   *)
(* the answer in the cache, took no longer than MaxBuild.                  *)
(***************************************************************************)
ReadsInTime(q) ==
    /\ DOMAIN q = DOMAIN Idle
    /\ q.began \in Nat
    /\ q.stage # "idle" => q.began <= now /\ now - q.began <= MaxBuild

ApiInv ==
    /\ now \in Nat
    /\ DOMAIN apiReq = ApiReqs
    /\ \A r \in ApiReqs : ReadsInTime(apiReq[r]) /\ (route # "locks" => apiReq[r].stage = "idle")
    /\ locksCache # << >> =>
          /\ locksCache[1].at \in Nat /\ locksCache[1].began \in Nat
          /\ locksCache[1].at - locksCache[1].began <= MaxBuild

\* A step on the chain or of request r, after which each request that is not idle has
\* begun when it had before, or now.
LEMMA ApiFrame ==
    ASSUME ApiInv, now' = now, route = "locks", route' = route,
           DOMAIN apiReq' = ApiReqs,
           \A r \in ApiReqs :
              /\ DOMAIN apiReq'[r] = DOMAIN Idle
              /\ \/ apiReq'[r].stage = "idle" /\ apiReq'[r].began \in Nat
                 \/ apiReq'[r].began = now
                 \/ apiReq[r].stage # "idle" /\ apiReq'[r].began = apiReq[r].began,
           \/ locksCache' = locksCache
           \/ locksCache' = << >>
           \/ /\ locksCache'[1].at = now /\ locksCache'[1].began \in Nat
              /\ now - locksCache'[1].began <= MaxBuild
    PROVE  ApiInv'
BY ApiAssumption DEF ApiInv, ReadsInTime

\* After a step of request r that leaves q in its place.
LEMMA ApiFrameOf ==
    ASSUME ApiInv, now' = now, route = "locks", route' = route,
           NEW r \in ApiReqs, NEW q, apiReq' = [apiReq EXCEPT ![r] = q],
           DOMAIN q = DOMAIN Idle,
           \/ q.stage = "idle" /\ q.began \in Nat
           \/ q.began = now
           \/ apiReq[r].stage # "idle" /\ q.began = apiReq[r].began,
           \/ locksCache' = locksCache
           \/ /\ locksCache'[1].at = now /\ locksCache'[1].began \in Nat
              /\ now - locksCache'[1].began <= MaxBuild
    PROVE  ApiInv'
<1>1. DOMAIN apiReq' = ApiReqs /\ apiReq'[r] = q
      /\ \A k \in ApiReqs : k # r => apiReq'[k] = apiReq[k]
  BY DEF ApiInv
<1>2. ASSUME NEW k \in ApiReqs
      PROVE  /\ DOMAIN apiReq'[k] = DOMAIN Idle
             /\ \/ apiReq'[k].stage = "idle" /\ apiReq'[k].began \in Nat
                \/ apiReq'[k].began = now
                \/ apiReq[k].stage # "idle" /\ apiReq'[k].began = apiReq[k].began
  <2>1. CASE k = r
    BY <1>1, <2>1
  <2>2. CASE k # r
    BY <1>1, <2>2 DEF ApiInv, ReadsInTime
  <2> QED
    BY <2>1, <2>2
<1> QED
  BY <1>1, <1>2, ApiFrame

LEMMA IdleRequest ==
    /\ Idle.stage = "idle" /\ Idle.began = 0
    /\ DOMAIN Idle = {"stage", "list", "order", "vaults", "chunk", "failed", "began", "quiet", "seen"}
BY DEF Idle

LEMMA ReadStepKeeps ==
    ASSUME ApiInv, now' = now, route = "locks", route' = route, NEW r \in ApiReqs,
           ReadList(r) \/ ReadMint(r) \/ MintMissing(r) \/ ReadVaults(r) \/ MissVaults(r)
    PROVE  ApiInv'
<1>1. apiReq[r].stage # "idle" /\ locksCache' = locksCache
  BY DEF ReadList, ReadMint, MintMissing, ReadVaults, MissVaults
<1>2. DOMAIN apiReq[r] = DOMAIN Idle /\ r \in DOMAIN apiReq
  BY DEF ApiInv, ReadsInTime
<1>3. ASSUME NEW q, apiReq' = [apiReq EXCEPT ![r] = q],
             DOMAIN q = DOMAIN Idle, q.began = apiReq[r].began
      PROVE  ApiInv'
  BY <1>1, <1>3, ApiFrameOf
<1>4. CASE ReadList(r)
  <2> DEFINE seen == [l \in ApiLocks |-> IF Lock(l).state = "live" THEN {Lock(l).vault}
                                                                   ELSE {}]
             Read(order) == [apiReq[r] EXCEPT !.stage = "listed", !.list = chain.locks,
                                              !.order = order, !.quiet = TRUE, !.seen = seen]
  <2>1. PICK order : apiReq' = [apiReq EXCEPT ![r] = Read(order)]
    BY <1>4 DEF ReadList
  <2> HIDE DEF seen
  <2>2. PICK q : q = Read(order)
    OBVIOUS
  <2>3. DOMAIN q = DOMAIN Idle /\ q.began = apiReq[r].began
    BY <1>2, <2>2, IdleRequest
  <2> QED
    BY <1>3, <2>1, <2>2, <2>3
<1>5. CASE ReadMint(r)
  <2>1. PICK q : q = [apiReq[r] EXCEPT !.stage = "vaults"]
    OBVIOUS
  <2>2. apiReq' = [apiReq EXCEPT ![r] = q]
    BY <1>5, <2>1 DEF ReadMint
  <2>3. DOMAIN q = DOMAIN Idle /\ q.began = apiReq[r].began
    BY <1>2, <2>1, IdleRequest
  <2> QED
    BY <1>3, <2>2, <2>3
<1>6. CASE ReadVaults(r)
  <2>1. PICK q : q = [apiReq[r] EXCEPT !.chunk = apiReq[r].chunk + CHUNK,
                                       !.vaults = VaultsRead(apiReq[r])]
    OBVIOUS
  <2>2. apiReq' = [apiReq EXCEPT ![r] = q]
    BY <1>6, <2>1 DEF ReadVaults
  <2>3. DOMAIN q = DOMAIN Idle /\ q.began = apiReq[r].began
    BY <1>2, <2>1, IdleRequest
  <2> QED
    BY <1>3, <2>2, <2>3
<1>7. CASE MissVaults(r)
  <2>1. PICK q : q = [apiReq[r] EXCEPT !.chunk = apiReq[r].chunk + CHUNK, !.failed = TRUE]
    OBVIOUS
  <2>2. apiReq' = [apiReq EXCEPT ![r] = q]
    BY <1>7, <2>1 DEF MissVaults
  <2>3. DOMAIN q = DOMAIN Idle /\ q.began = apiReq[r].began
    BY <1>2, <2>1, IdleRequest
  <2> QED
    BY <1>3, <2>2, <2>3
<1>8. CASE MintMissing(r)
  <2>1. PICK q : q = [apiReq[r] EXCEPT !.stage = "vaults",
                                       !.chunk = Len(apiReq[r].order), !.failed = TRUE]
    OBVIOUS
  <2>2. apiReq' = [apiReq EXCEPT ![r] = q]
    BY <1>8, <2>1 DEF MintMissing
  <2>3. DOMAIN q = DOMAIN Idle /\ q.began = apiReq[r].began
    BY <1>2, <2>1, IdleRequest
  <2> QED
    BY <1>3, <2>2, <2>3
<1> QED
  BY <1>4, <1>5, <1>6, <1>7, <1>8

LEMMA FinishKeeps ==
    ASSUME ApiInv, now' = now, route = "locks", route' = route, NEW r \in ApiReqs, Finish(r)
    PROVE  ApiInv'
<1>1. PICK idle : idle = Idle
  OBVIOUS
<1>2. DOMAIN idle = DOMAIN Idle /\ idle.stage = "idle" /\ idle.began \in Nat
  BY <1>1, IdleRequest
<1>3. apiReq[r].stage # "idle" /\ apiReq' = [apiReq EXCEPT ![r] = idle]
  BY <1>1 DEF Finish, Complete
<1>4. locksCache'[1].at = now /\ locksCache'[1].began = apiReq[r].began
  BY DEF Finish, StoredAt
<1>5. apiReq[r].began \in Nat /\ now - apiReq[r].began <= MaxBuild
  BY <1>3 DEF ApiInv, ReadsInTime
<1> QED
  BY <1>2, <1>3, <1>4, <1>5, ApiFrameOf

LEMMA ApiStepKeeps ==
    ASSUME ApiInv, now' = now, route = "locks", route' = route, NEW r \in ApiReqs, ApiStep(r)
    PROVE  ApiInv'
<1>1. now \in Nat /\ r \in DOMAIN apiReq /\ DOMAIN apiReq[r] = DOMAIN Idle
  BY DEF ApiInv, ReadsInTime
<1>2. CASE Ask(r)
  <2>1. PICK q : q = [apiReq[r] EXCEPT !.stage = "reading", !.began = now]
    OBVIOUS
  <2>2. DOMAIN q = DOMAIN Idle /\ q.began = now
    BY <1>1, <2>1, IdleRequest
  <2>3. apiReq' = [apiReq EXCEPT ![r] = q] /\ locksCache' = locksCache
    BY <1>1, <1>2, <2>1 DEF Ask
  <2> QED
    BY <2>2, <2>3, ApiFrameOf
<1>3. CASE ApiFails(r)
  <2>1. PICK idle : idle = Idle
    OBVIOUS
  <2>2. DOMAIN idle = DOMAIN Idle /\ idle.stage = "idle" /\ idle.began \in Nat
    BY <2>1, IdleRequest
  <2> QED
    BY <1>3, <2>1, <2>2, ApiFrameOf DEF ApiFails
<1> QED
  BY <1>2, <1>3, ReadStepKeeps, FinishKeeps DEF ApiStep

\* What the owners do changes what the requests may have seen, not when they began.
LEMMA ChainKeeps ==
    ASSUME ApiInv, now' = now, route = "locks", route' = route, ChainNext
    PROVE  ApiInv'
<1>1. ASSUME NEW l, NEW lock, NEW wallet, NEW given, Changed(l, lock, wallet, given)
      PROVE  ApiInv'
  <2>1. DOMAIN apiReq' = ApiReqs /\ locksCache' = locksCache
    BY <1>1 DEF Changed
  <2>2. ASSUME NEW r \in ApiReqs
        PROVE  DOMAIN apiReq'[r] = DOMAIN Idle /\ apiReq'[r].began = apiReq[r].began
               /\ apiReq'[r].stage = apiReq[r].stage
    <3>1. DOMAIN apiReq[r] = DOMAIN Idle
      BY DEF ApiInv, ReadsInTime
    <3> QED
      BY <1>1, <3>1, IdleRequest DEF Changed
  <2> QED
    BY <2>1, <2>2, ApiFrame DEF ApiInv, ReadsInTime
<1> QED
  BY <1>1
  DEF ChainNext, OwnerCreates, OwnerTopsUp, OwnerWithdraws, OwnerMigrates, OwnerCloses,
      StrangerDonates

LEMMA ApiInvStep ==
    ASSUME ApiInv, [ServerNext]_serverVars
    PROVE  ApiInv'
<1>1. CASE route = "locks" /\ ApiNext /\ route' = route
  <2>1. ASSUME NEW r \in ApiReqs, ApiStep(r), now' = now
        PROVE  ApiInv'
    BY <1>1, <2>1, ApiStepKeeps
  <2>2. CASE ChainNext /\ now' = now
    BY <1>1, <2>2, ChainKeeps
  <2>3. CASE ApiRestart /\ now' = now
    BY <1>1, <2>3, IdleRequest, ApiFrame DEF ApiRestart
  <2>4. CASE ApiTick /\ UNCHANGED apiVars
    BY <1>1, <2>4, ApiAssumption DEF ApiTick, Tick, apiVars, ApiInv, ReadsInTime
  <2> QED
    BY <1>1, <2>1, <2>2, <2>3, <2>4 DEF ApiNext
<1>2. CASE UNCHANGED apiVars /\ route' = route /\ (UNCHANGED now \/ (Tick /\ route # "locks"))
  BY <1>2 DEF apiVars, Tick, ApiInv, ReadsInTime
<1>3. CASE route = "sign" /\ SignNext /\ UNCHANGED apiVars /\ route' = route
  BY <1>2, <1>3 DEF SignNext
<1>4. CASE route = "token" /\ MetaNext /\ UNCHANGED apiVars /\ route' = route
  BY <1>2, <1>4 DEF MetaNext
<1>5. CASE UNCHANGED serverVars
  BY <1>2, <1>5 DEF serverVars
<1> QED
  BY <1>1, <1>3, <1>4, <1>5 DEF ServerNext

LEMMA ApiInvInit == ASSUME ServerInit PROVE ApiInv
BY IdleRequest DEF ServerInit, ApiInit, ApiInv, ReadsInTime

\* An answer from the cache is younger than LocksTTL and the time that its reads took.
THEOREM AnswersAreRecent == ServerSpec => []AnswerAge
<1>1. ApiInv => AnswerAge
  BY ApiAssumption DEF ApiInv, AnswerAge, ApiHit
<1>2. ApiInv /\ [ServerNext]_serverVars => ApiInv'
  BY ApiInvStep
<1> QED
  BY <1>1, <1>2, ApiInvInit, PTL DEF ServerSpec

-----------------------------------------------------------------------------
(***************************************************************************)
(* The total of the locks API.  Of the vault of a live lock of the list, a *)
(* request knows nothing or a balance that the vault has had since the     *)
(* list was read; what the vault has now is one of these balances; after   *)
(* its call, a vault is unread only for a reason; and without a tax and    *)
(* gifts, what a vault holds is what is recorded of its lock.              *)
(***************************************************************************)
Balances == Nat \cup {Gone}

LockOnChain ==
    {k \in [state : {"none", "live", "withdrawn"}, amount : Int, authority : {1, 2},
            vault : Balances] : k.state = "live" => k.vault \in Nat}

ChainTypes ==
    [locks : [ApiLocks -> LockOnChain], wallet : Int, tax : {0, 1}, given : BOOLEAN]

\* Without a tax and gifts, a vault holds what is recorded.
HeldAsRecorded ==
    chain.tax = 0 /\ ~chain.given => \A l \in Live(chain.locks) : Lock(l).amount = Lock(l).vault

ApiRequest ==
    [stage : ApiStages, list : [ApiLocks -> LockOnChain], order : Seq(ApiLocks),
     vaults : [ApiLocks -> Nat \cup {Unread}], chunk : Nat, failed : BOOLEAN, began : Nat,
     quiet : BOOLEAN, seen : [ApiLocks -> SUBSET Balances]]

\* Before the list is read.
NothingRead(q) == q.chunk = 0 /\ \A l \in ApiLocks : q.vaults[l] = Unread

Tracked(q, l) ==
    /\ VaultAt(l, q.list[l].authority) \in q.seen[l]
    /\ q.vaults[l] # Unread => q.vaults[l] \in q.seen[l]

ReadOrMissed(q, l) ==
    /\ q.vaults[l] = Unread => q.failed \/ Gone \in q.seen[l]
    /\ q.quiet /\ ~q.failed => q.vaults[l] = Lock(l).vault

AllTracked(q) == \A l \in Live(q.list) : Tracked(q, l)

ChunksRead(q) ==
    \A i \in DOMAIN q.order :
        i <= q.chunk /\ q.order[i] \in Live(q.list) => ReadOrMissed(q, q.order[i])

Covers(q) == \A l \in Live(q.list) : \E i \in DOMAIN q.order : q.order[i] = l

Reading(q) ==
    /\ Covers(q) /\ AllTracked(q) /\ ChunksRead(q)
    /\ q.quiet => q.list = chain.locks

RequestTracked(q) ==
    IF q.stage \in {"listed", "vaults"} THEN Reading(q) ELSE NothingRead(q)

TotalsInv ==
    /\ chain \in ChainTypes
    /\ HeldAsRecorded
    /\ apiReq \in [ApiReqs -> ApiRequest]
    /\ \A r \in ApiReqs : RequestTracked(apiReq[r])

\* Any order of the accounts names each of them.
LEMMA OrderCovers ==
    ASSUME NEW S, S \subseteq ApiLocks, NEW order \in SetToSeqs(S)
    PROVE  /\ order \in Seq(ApiLocks)
           /\ \A l \in S : \E i \in DOMAIN order : order[i] = l
<1> DEFINE n == Cardinality(S)
<1>1. IsFiniteSet(S) /\ n \in Nat
  BY ApiAssumption, FS_Subset, FS_CardinalityType
<1>2. order \in [1..n -> S] /\ \A i, j \in 1..n : i # j => order[i] # order[j]
  BY DEF SetToSeqs
<1> HIDE DEF n
<1>3. order \in [1..n -> ApiLocks]
  BY <1>2
<1>4. order \in Seq(ApiLocks)
  BY <1>1, <1>3, SeqDef
<1>5. order \in Injection(1..n, S)
  BY <1>2 DEF Injection, IsInjective
<1>6. Cardinality(1..n) = n
  BY <1>1, FS_Interval
<1>7. order \in Surjection(1..n, S)
  BY <1>1, <1>5, <1>6, FS_Injection DEF n
<1>8. \A l \in S : \E i \in 1..n : order[i] = l
  BY <1>7 DEF Surjection
<1> QED
  BY <1>2, <1>4, <1>8

LEMMA TrackedStays ==
    ASSUME chain' = chain, NEW q
    PROVE  RequestTracked(q)' <=> RequestTracked(q)
BY DEF RequestTracked, Reading, NothingRead, Covers, AllTracked, ChunksRead, Tracked,
       ReadOrMissed, VaultAt, Lock

LEMMA TotalsFrameOf ==
    ASSUME TotalsInv, chain' = chain, NEW r \in ApiReqs, NEW q \in ApiRequest,
           apiReq' = [apiReq EXCEPT ![r] = q], RequestTracked(q)
    PROVE  TotalsInv'
<1>1. apiReq \in [ApiReqs -> ApiRequest] /\ apiReq' \in [ApiReqs -> ApiRequest]
  BY DEF TotalsInv
<1>2. ASSUME NEW k \in ApiReqs PROVE RequestTracked(apiReq[k])'
  <2>1. PICK x : x = apiReq'[k]
    OBVIOUS
  <2>2. x = (IF k = r THEN q ELSE apiReq[k])
    BY <1>1, <2>1
  <2>3. RequestTracked(x)
    BY <2>2 DEF TotalsInv
  <2>4. RequestTracked(x)'
    BY <2>3, TrackedStays
  <2> QED
    BY <2>1, <2>4
<1> QED
  BY <1>1, <1>2 DEF TotalsInv, HeldAsRecorded, Lock

LEMMA VaultNow ==
    ASSUME chain \in ChainTypes, NEW l \in ApiLocks, NEW authority
    PROVE  /\ VaultAt(l, authority) \in Balances
           /\ Lock(l).state = "live" /\ authority = Lock(l).authority
                 => VaultAt(l, authority) = Lock(l).vault /\ Lock(l).vault \in Nat
<1>1. chain.locks[l] \in LockOnChain
  BY DEF ChainTypes
<1> QED
  BY <1>1 DEF VaultAt, Lock, LockOnChain, Balances

\* A call reads the vaults of its chunk, each into the lock that it belongs to.
LEMMA ChunkIsRead ==
    ASSUME NEW q \in ApiRequest, NEW l \in ApiLocks
    PROVE  /\ (\E i \in Chunk(q) : q.order[i] = l) => VaultsRead(q)[l] = Balance(q, l)
           /\ ~(\E i \in Chunk(q) : q.order[i] = l) => VaultsRead(q)[l] = q.vaults[l]
<1>1. VaultsRead(q)[l] = IF \E i \in Chunk(q) : LockFor(q, i) = l
                         THEN Balance(q, q.order[CHOOSE i \in Chunk(q) : LockFor(q, i) = l])
                         ELSE q.vaults[l]
  BY DEF VaultsRead
<1>2. ASSUME \E i \in Chunk(q) : q.order[i] = l
      PROVE  q.order[CHOOSE i \in Chunk(q) : LockFor(q, i) = l] = l
  BY <1>2 DEF LockFor
<1> QED
  BY <1>1, <1>2 DEF LockFor

LEMMA BalanceRead ==
    ASSUME chain \in ChainTypes, NEW q \in ApiRequest, NEW l \in Live(q.list), Tracked(q, l)
    PROVE  /\ Balance(q, l) \in Nat \cup {Unread}
           /\ Balance(q, l) # Unread => Balance(q, l) \in q.seen[l]
           /\ Balance(q, l) = Unread => Gone \in q.seen[l]
           /\ q.list = chain.locks => Balance(q, l) = Lock(l).vault
<1> DEFINE b == VaultAt(l, q.list[l].authority)
<1>1. l \in ApiLocks /\ q.list[l].state = "live"
  BY DEF Live
<1>2. b \in Balances /\ b \in q.seen[l]
  BY <1>1, VaultNow DEF Tracked
<1>3. Balance(q, l) = IF b # Gone THEN b ELSE Unread
  BY <1>1 DEF Balance
<1>4. q.list = chain.locks => b = Lock(l).vault /\ Lock(l).vault \in Nat
  BY <1>1, VaultNow DEF Lock
<1> HIDE DEF b
<1> QED
  BY <1>2, <1>3, <1>4 DEF Balances, Gone, Unread

LEMMA VaultsReadType ==
    ASSUME chain \in ChainTypes, NEW q \in ApiRequest
    PROVE  VaultsRead(q) \in [ApiLocks -> Nat \cup {Unread}]
<1>1. VaultsRead(q) = [l \in ApiLocks |-> VaultsRead(q)[l]]
  BY DEF VaultsRead
<1>2. ASSUME NEW l \in ApiLocks PROVE VaultsRead(q)[l] \in Nat \cup {Unread}
  <2>1. VaultAt(l, q.list[l].authority) \in Balances
    BY VaultNow
  <2>2. Balance(q, l) \in Nat \cup {Unread}
    BY <2>1 DEF Balance, Balances, Gone, Unread
  <2>3. q.vaults[l] \in Nat \cup {Unread}
    BY DEF ApiRequest
  <2> QED
    BY <2>2, <2>3, ChunkIsRead
<1> QED
  BY <1>1, <1>2

LEMMA ReadVaultsTracks ==
    ASSUME TotalsInv, chain' = chain, NEW r \in ApiReqs, ReadVaults(r)
    PROVE  TotalsInv'
<1>1. PICK p : p = apiReq[r]
  OBVIOUS
<1>2. PICK q : q = [p EXCEPT !.chunk = p.chunk + CHUNK, !.vaults = VaultsRead(p)]
  OBVIOUS
<1>3. /\ p \in ApiRequest /\ RequestTracked(p) /\ p.stage = "vaults" /\ chain \in ChainTypes
      /\ apiReq' = [apiReq EXCEPT ![r] = q]
  BY <1>1, <1>2 DEF TotalsInv, ReadVaults
<1>4. VaultsRead(p) \in [ApiLocks -> Nat \cup {Unread}] /\ p.chunk + CHUNK \in Nat /\ p.chunk \in Nat
  BY <1>3, VaultsReadType, ApiAssumption DEF ApiRequest
<1>5. /\ q \in ApiRequest /\ q.stage = p.stage /\ q.list = p.list /\ q.order = p.order
      /\ q.chunk = p.chunk + CHUNK /\ q.vaults = VaultsRead(p) /\ q.failed = p.failed
      /\ q.quiet = p.quiet /\ q.seen = p.seen
  BY <1>2, <1>3, <1>4 DEF ApiRequest
<1>6. Reading(p)
  BY <1>3 DEF RequestTracked
<1>7. AllTracked(q)
  <2> SUFFICES ASSUME NEW l \in Live(p.list) PROVE Tracked(q, l)
    BY <1>5 DEF AllTracked
  <2>1. l \in ApiLocks /\ Tracked(p, l)
    BY <1>6 DEF Live, Reading, AllTracked
  <2>2. q.vaults[l] = Balance(p, l) \/ q.vaults[l] = p.vaults[l]
    BY <1>3, <1>5, <2>1, ChunkIsRead
  <2> QED
    BY <1>3, <1>5, <2>1, <2>2, BalanceRead DEF Tracked
<1>8. ChunksRead(q)
  <2> SUFFICES ASSUME NEW i \in DOMAIN p.order, i <= p.chunk + CHUNK,
                      p.order[i] \in Live(p.list)
               PROVE  ReadOrMissed(q, p.order[i])
    BY <1>5 DEF ChunksRead
  <2> DEFINE l == p.order[i]
  <2>1. l \in ApiLocks /\ Tracked(p, l) /\ (p.quiet => p.list = chain.locks)
    BY <1>6 DEF Live, Reading, AllTracked
  <2>2. CASE \E j \in Chunk(p) : p.order[j] = l
    <3>1. q.vaults[l] = Balance(p, l)
      BY <1>3, <1>5, <2>1, <2>2, ChunkIsRead
    <3> HIDE DEF l
    <3>2. ReadOrMissed(q, l)
      BY <1>3, <1>5, <2>1, <3>1, BalanceRead DEF ReadOrMissed, l
    <3> QED
      BY <3>2 DEF l
  <2>3. CASE ~\E j \in Chunk(p) : p.order[j] = l
    <3>1. i \notin Chunk(p) /\ i \in Nat
      BY <1>3, <2>3 DEF ApiRequest
    <3>2. i <= p.chunk
      BY <1>4, <3>1 DEF Chunk
    <3>3. ReadOrMissed(p, l)
      BY <1>6, <3>2 DEF Reading, ChunksRead
    <3>4. q.vaults[l] = p.vaults[l]
      BY <1>3, <1>5, <2>1, <2>3, ChunkIsRead
    <3> QED
      BY <1>5, <3>3, <3>4 DEF ReadOrMissed
  <2> QED
    BY <2>2, <2>3
<1>9. RequestTracked(q)
  BY <1>3, <1>5, <1>6, <1>7, <1>8 DEF RequestTracked, Reading, Covers
<1> QED
  BY <1>3, <1>5, <1>9, TotalsFrameOf

\* What a call that failed does not read may stay unread.
LEMMA MissVaultsTracks ==
    ASSUME TotalsInv, chain' = chain, NEW r \in ApiReqs, MissVaults(r)
    PROVE  TotalsInv'
<1>1. PICK p : p = apiReq[r]
  OBVIOUS
<1>2. PICK q : q = [p EXCEPT !.chunk = p.chunk + CHUNK, !.failed = TRUE]
  OBVIOUS
<1>3. /\ p \in ApiRequest /\ RequestTracked(p) /\ p.stage = "vaults" /\ p.chunk \in Nat
      /\ apiReq' = [apiReq EXCEPT ![r] = q]
  BY <1>1, <1>2 DEF TotalsInv, MissVaults, ApiRequest
<1>4. /\ q \in ApiRequest /\ q.stage = p.stage /\ q.list = p.list /\ q.order = p.order
      /\ q.failed /\ q.vaults = p.vaults /\ q.quiet = p.quiet /\ q.seen = p.seen
  <2>1. p.chunk + CHUNK \in Nat
    BY <1>3, ApiAssumption
  <2> QED
    BY <1>2, <1>3, <2>1 DEF ApiRequest
<1>5. Reading(p)
  BY <1>3 DEF RequestTracked
<1>6. AllTracked(q) /\ ChunksRead(q)
  BY <1>4, <1>5 DEF Reading, AllTracked, ChunksRead, Tracked, ReadOrMissed
<1>7. RequestTracked(q)
  BY <1>3, <1>4, <1>5, <1>6 DEF RequestTracked, Reading, Covers
<1> QED
  BY <1>3, <1>4, <1>7, TotalsFrameOf

LEMMA ReadListTracks ==
    ASSUME TotalsInv, chain' = chain, NEW r \in ApiReqs, ReadList(r)
    PROVE  TotalsInv'
<1>1. PICK p : p = apiReq[r]
  OBVIOUS
<1>2. PICK list : list = chain.locks
  OBVIOUS
<1>3. PICK seen : seen = [l \in ApiLocks |-> IF Lock(l).state = "live" THEN {Lock(l).vault}
                                                                       ELSE {}]
  OBVIOUS
<1>4. PICK order \in SetToSeqs(Listed(chain.locks)) :
         apiReq' = [apiReq EXCEPT ![r] =
            [p EXCEPT !.stage = "listed", !.list = list, !.order = order, !.quiet = TRUE,
                      !.seen = seen]]
  BY <1>1, <1>2, <1>3 DEF ReadList
<1>5. PICK q : q = [p EXCEPT !.stage = "listed", !.list = list, !.order = order,
                             !.quiet = TRUE, !.seen = seen]
  OBVIOUS
<1>6. /\ p \in ApiRequest /\ RequestTracked(p) /\ p.stage = "reading"
      /\ list \in [ApiLocks -> LockOnChain] /\ chain \in ChainTypes
  BY <1>1, <1>2 DEF TotalsInv, ReadList, ChainTypes
<1>7. seen \in [ApiLocks -> SUBSET Balances]
      /\ \A l \in Live(list) : seen[l] = {Lock(l).vault}
  <2>1. \A l \in ApiLocks : Lock(l).vault \in Balances
    BY <1>2, <1>6 DEF Lock, LockOnChain
  <2> QED
    BY <1>2, <1>3, <2>1 DEF Live, Lock
<1>8. order \in Seq(ApiLocks) /\ \A l \in Listed(list) : \E i \in DOMAIN order : order[i] = l
  <2>1. Listed(list) \subseteq ApiLocks
    BY DEF Listed
  <2>2. order \in SetToSeqs(Listed(list))
    BY <1>2, <1>4
  <2> QED
    BY <2>1, <2>2, OrderCovers
<1>9. /\ q \in ApiRequest /\ q.stage = "listed" /\ q.list = list /\ q.order = order
      /\ q.chunk = p.chunk /\ q.vaults = p.vaults /\ q.quiet = TRUE /\ q.seen = seen
  BY <1>5, <1>6, <1>7, <1>8 DEF ApiRequest, ApiStages
<1>10. q.chunk = 0 /\ \A l \in ApiLocks : q.vaults[l] = Unread
  BY <1>6, <1>9 DEF RequestTracked, NothingRead
<1>11. AllTracked(q)
  <2> SUFFICES ASSUME NEW l \in Live(list) PROVE Tracked(q, l)
    BY <1>9 DEF AllTracked
  <2>1. l \in ApiLocks /\ Lock(l).state = "live" /\ list[l] = Lock(l)
    BY <1>2 DEF Live, Lock
  <2>2. VaultAt(l, list[l].authority) = Lock(l).vault
    BY <1>6, <2>1, VaultNow
  <2> QED
    BY <1>7, <1>9, <1>10, <2>1, <2>2 DEF Tracked
<1>12. ChunksRead(q)
  <2>1. \A i \in DOMAIN order : i \in Nat \ {0}
    BY <1>8
  <2> QED
    BY <1>9, <1>10, <2>1 DEF ChunksRead
<1>13. Covers(q)
  BY <1>8, <1>9 DEF Covers, Live, Listed
<1>14. RequestTracked(q)
  BY <1>2, <1>9, <1>11, <1>12, <1>13 DEF RequestTracked, Reading
<1> QED
  BY <1>4, <1>5, <1>9, <1>14, TotalsFrameOf

LEMMA IdleTracked == Idle \in ApiRequest /\ RequestTracked(Idle)
<1>1. NoLockThere \in LockOnChain
  BY DEF NoLockThere, LockOnChain, Balances, Gone
<1>2. << >> \in Seq(ApiLocks)
  OBVIOUS
<1>3. Idle.stage = "idle" /\ Idle.chunk = 0 /\ Idle.vaults = [l \in ApiLocks |-> Unread]
  BY DEF Idle
<1>4. RequestTracked(Idle)
  BY <1>3 DEF RequestTracked, NothingRead
<1>5. /\ [l \in ApiLocks |-> NoLockThere] \in [ApiLocks -> LockOnChain]
      /\ [l \in ApiLocks |-> Unread] \in [ApiLocks -> Nat \cup {Unread}]
      /\ [l \in ApiLocks |-> {}] \in [ApiLocks -> SUBSET Balances]
  BY <1>1
<1>6. Idle \in ApiRequest
  BY <1>2, <1>5 DEF Idle, ApiRequest, ApiStages
<1> QED
  BY <1>4, <1>6

LEMMA OtherStepsTrack ==
    ASSUME TotalsInv, now \in Nat, chain' = chain, NEW r \in ApiReqs,
           Ask(r) \/ ReadMint(r) \/ MintMissing(r) \/ ApiFails(r) \/ Finish(r)
    PROVE  TotalsInv'
<1>1. PICK p : p = apiReq[r]
  OBVIOUS
<1>2. p \in ApiRequest /\ RequestTracked(p)
  BY <1>1 DEF TotalsInv
<1>3. CASE ApiFails(r) \/ Finish(r)
  <2>1. PICK q : q = Idle
    OBVIOUS
  <2> QED
    BY <1>3, <2>1, IdleTracked, TotalsFrameOf DEF ApiFails, Finish
<1>4. CASE Ask(r)
  <2>1. PICK q : q = [p EXCEPT !.stage = "reading", !.began = now]
    OBVIOUS
  <2>2. p.stage = "idle" /\ apiReq' = [apiReq EXCEPT ![r] = q]
    BY <1>1, <1>4, <2>1 DEF Ask
  <2>3. q \in ApiRequest /\ q.stage = "reading" /\ q.chunk = p.chunk /\ q.vaults = p.vaults
    BY <1>2, <2>1 DEF ApiRequest, ApiStages
  <2>4. RequestTracked(q)
    BY <1>2, <2>2, <2>3 DEF RequestTracked, NothingRead
  <2> QED
    BY <2>2, <2>3, <2>4, TotalsFrameOf
<1>5. CASE ReadMint(r)
  <2>1. PICK q : q = [p EXCEPT !.stage = "vaults"]
    OBVIOUS
  <2>2. p.stage = "listed" /\ apiReq' = [apiReq EXCEPT ![r] = q]
    BY <1>1, <1>5, <2>1 DEF ReadMint
  <2>3. /\ q \in ApiRequest /\ q.stage = "vaults" /\ q.list = p.list /\ q.order = p.order
        /\ q.chunk = p.chunk /\ q.vaults = p.vaults /\ q.failed = p.failed
        /\ q.quiet = p.quiet /\ q.seen = p.seen
    BY <1>2, <2>1 DEF ApiRequest, ApiStages
  <2>4. RequestTracked(q)
    BY <1>2, <2>2, <2>3 DEF RequestTracked, Reading, Covers, AllTracked, ChunksRead,
       Tracked, ReadOrMissed
  <2> QED
    BY <2>2, <2>3, <2>4, TotalsFrameOf
<1>6. CASE MintMissing(r)
  <2>1. PICK q : q = [p EXCEPT !.stage = "vaults", !.chunk = Len(p.order), !.failed = TRUE]
    OBVIOUS
  <2>2. p.stage = "listed" /\ apiReq' = [apiReq EXCEPT ![r] = q]
    BY <1>1, <1>6, <2>1 DEF MintMissing
  <2>3. Len(p.order) \in Nat
    BY <1>2 DEF ApiRequest
  <2>4. /\ q \in ApiRequest /\ q.stage = "vaults" /\ q.list = p.list /\ q.order = p.order
        /\ q.vaults = p.vaults /\ q.failed /\ q.quiet = p.quiet /\ q.seen = p.seen
    BY <1>2, <2>1, <2>3 DEF ApiRequest, ApiStages
  <2>5. RequestTracked(q)
    BY <1>2, <2>2, <2>4 DEF RequestTracked, Reading, Covers, AllTracked, ChunksRead,
       Tracked, ReadOrMissed
  <2> QED
    BY <2>2, <2>4, <2>5, TotalsFrameOf
<1> QED
  BY <1>3, <1>4, <1>5, <1>6

\* A change on the chain: the requests under way are not quiet any more, and have
\* seen one balance more.
LEMMA ChangedTracks ==
    ASSUME TotalsInv, NEW l \in ApiLocks, NEW lock \in LockOnChain, NEW wallet \in Int,
           NEW given \in BOOLEAN, chain.given => given, Changed(l, lock, wallet, given),
           chain.tax = 0 /\ ~given /\ lock.state = "live" => lock.amount = lock.vault
    PROVE  TotalsInv'
<1>1. chain \in ChainTypes /\ apiReq \in [ApiReqs -> ApiRequest]
  BY DEF TotalsInv
<1>2. chain' = [chain EXCEPT !.locks[l] = lock, !.wallet = wallet, !.given = given]
  BY DEF Changed
<1>3. /\ chain' \in ChainTypes /\ chain'.locks = [chain.locks EXCEPT ![l] = lock]
      /\ chain'.tax = chain.tax /\ chain'.given = given
  BY <1>1, <1>2 DEF ChainTypes
<1>4. ASSUME NEW k \in ApiLocks, NEW a
      PROVE  VaultAt(k, a)' = IF k = l THEN IF a = lock.authority THEN lock.vault ELSE Gone
                              ELSE VaultAt(k, a)
  BY <1>1, <1>3 DEF VaultAt, ChainTypes
<1>5. ASSUME NEW r \in ApiReqs
      PROVE  apiReq'[r] \in ApiRequest /\ RequestTracked(apiReq[r])'
  <2>1. PICK p : p = apiReq[r]
    OBVIOUS
  <2>2. PICK x : x = apiReq'[r]
    OBVIOUS
  <2>3. p \in ApiRequest /\ RequestTracked(p)
    BY <2>1 DEF TotalsInv
  <2> DEFINE balance == IF p.list[l].authority = lock.authority THEN lock.vault ELSE Gone
  <2>4. x = IF p.stage # "vaults" /\ p.stage # "listed" THEN p
            ELSE [p EXCEPT !.quiet = FALSE,
                           !.seen[l] = IF p.list[l].state = "live" THEN @ \cup {balance}
                                                                   ELSE @]
    BY <2>1, <2>2 DEF Changed
  <2>5. CASE p.stage \notin {"listed", "vaults"}
    <3>1. x = p
      BY <2>4, <2>5
    <3>2. NothingRead(p)
      BY <2>3, <2>5 DEF RequestTracked
    <3>3. RequestTracked(x)'
      BY <2>5, <3>1, <3>2 DEF RequestTracked, NothingRead
    <3> QED
      BY <2>1, <2>2, <2>3, <3>1, <3>3
  <2>6. CASE p.stage \in {"listed", "vaults"}
    <3>1. balance \in Balances
      BY DEF LockOnChain, Balances
    <3> HIDE DEF balance
    <3>2. x = [p EXCEPT !.quiet = FALSE,
                        !.seen[l] = IF p.list[l].state = "live" THEN @ \cup {balance} ELSE @]
      BY <2>4, <2>6
    <3>3. /\ x \in ApiRequest /\ x.stage = p.stage /\ x.list = p.list /\ x.order = p.order
          /\ x.chunk = p.chunk /\ x.vaults = p.vaults /\ x.failed = p.failed /\ ~x.quiet
      BY <2>3, <3>1, <3>2 DEF ApiRequest
    <3>4. /\ \A k \in ApiLocks : p.seen[k] \subseteq x.seen[k]
          /\ p.list[l].state = "live" => balance \in x.seen[l]
      BY <2>3, <3>2 DEF ApiRequest
    <3>5. Reading(p)
      BY <2>3, <2>6 DEF RequestTracked
    <3>6. ASSUME NEW k \in Live(p.list) PROVE Tracked(x, k)'
      <4>1. k \in ApiLocks /\ p.list[k].state = "live" /\ Tracked(p, k)
        BY <3>5 DEF Live, Reading, AllTracked
      <4>2. VaultAt(k, p.list[k].authority)' \in x.seen[k]
        BY <1>4, <3>4, <4>1 DEF Tracked, balance
      <4>3. x.vaults[k] # Unread => x.vaults[k] \in x.seen[k]
        BY <3>3, <3>4, <4>1 DEF Tracked
      <4> QED
        BY <3>3, <4>2, <4>3 DEF Tracked
    <3>7. ASSUME NEW i \in DOMAIN p.order, i <= p.chunk, p.order[i] \in Live(p.list)
          PROVE  ReadOrMissed(x, p.order[i])'
      <4>1. ReadOrMissed(p, p.order[i]) /\ p.order[i] \in ApiLocks
        BY <3>5, <3>7 DEF Reading, ChunksRead, Live
      <4> QED
        BY <3>3, <3>4, <4>1 DEF ReadOrMissed
    <3>8. RequestTracked(x)'
      BY <2>6, <3>3, <3>5, <3>6, <3>7 DEF RequestTracked, Reading, Covers, AllTracked,
         ChunksRead, Live
    <3> QED
      BY <2>1, <2>2, <3>3, <3>8
  <2> QED
    BY <2>5, <2>6
<1>6. apiReq' \in [ApiReqs -> ApiRequest]
  <2>1. DOMAIN apiReq' = ApiReqs /\ apiReq' = [r \in ApiReqs |-> apiReq'[r]]
    BY DEF Changed
  <2> QED
    BY <1>5, <2>1
<1>7. HeldAsRecorded'
  <2> SUFFICES ASSUME chain.tax = 0, ~given, ~chain.given, NEW k \in Live(chain'.locks)
               PROVE  chain'.locks[k].amount = chain'.locks[k].vault
    BY <1>3 DEF HeldAsRecorded, Lock
  <2>1. k \in ApiLocks /\ chain'.locks[k].state = "live"
    BY DEF Live
  <2>2. chain'.locks[k] = IF k = l THEN lock ELSE chain.locks[k]
    BY <1>1, <1>3, <2>1 DEF ChainTypes
  <2> QED
    BY <2>1, <2>2 DEF TotalsInv, HeldAsRecorded, Live, Lock
<1> QED
  BY <1>3, <1>5, <1>6, <1>7 DEF TotalsInv

LEMMA NetType ==
    ASSUME TotalsInv, NEW a \in Nat
    PROVE  Net(a) \in Nat /\ (chain.tax = 0 => Net(a) = a)
BY DEF Net, TotalsInv, ChainTypes

LEMMA LockWith ==
    ASSUME NEW k \in LockOnChain, NEW amount \in Int, NEW vault \in Nat
    PROVE  [k EXCEPT !.amount = amount, !.vault = vault] \in LockOnChain
BY DEF LockOnChain, Balances

LEMMA MovedLock ==
    ASSUME NEW k \in LockOnChain, NEW amount \in Nat, NEW vault \in Nat
    PROVE  \E lock \in LockOnChain :
              /\ lock = [k EXCEPT !.authority = 2, !.vault = vault, !.amount = amount]
              /\ lock.amount = amount /\ lock.vault = vault
<1>1. amount \in Int /\ vault \in Balances
  BY DEF Balances
<1>2. PICK lock : lock = [k EXCEPT !.authority = 2, !.vault = vault, !.amount = amount]
  OBVIOUS
<1>3. lock \in LockOnChain
  BY <1>1, <1>2 DEF LockOnChain
<1>4. lock.amount = amount /\ lock.vault = vault
  BY <1>2 DEF LockOnChain
<1> QED
  BY <1>2, <1>3, <1>4

\* What the program does to a lock keeps what it records and what the vault holds the
\* same, but for the tax.
LEMMA ProgramTracks ==
    ASSUME TotalsInv, NEW l \in ApiLocks, NEW lock \in LockOnChain, NEW wallet \in Int,
           Changed(l, lock, wallet, chain.given),
           chain.tax = 0 /\ ~chain.given /\ lock.state = "live" => lock.amount = lock.vault
    PROVE  TotalsInv'
<1>1. chain.given \in BOOLEAN
  BY DEF TotalsInv, ChainTypes
<1> QED
  BY <1>1, ChangedTracks

LEMMA ChainTracks ==
    ASSUME TotalsInv, ChainNext
    PROVE  TotalsInv'
<1>1. /\ chain.wallet \in Int
      /\ \A l \in ApiLocks : Lock(l) \in LockOnChain
                             /\ (Lock(l).state = "live" => Lock(l).vault \in Nat)
  BY DEF TotalsInv, ChainTypes, Lock, LockOnChain
<1>2. ASSUME NEW l \in ApiLocks, Lock(l).state = "live", chain.tax = 0, ~chain.given
      PROVE  Lock(l).amount = Lock(l).vault
  BY <1>2 DEF TotalsInv, HeldAsRecorded, Live, Lock
<1>3. ASSUME NEW l \in ApiLocks, NEW a \in {1, 2}, NEW authority \in {1, 2},
             OwnerCreates(l, a, authority)
      PROVE  TotalsInv'
  <2> DEFINE lock == [state |-> "live", amount |-> a, authority |-> authority, vault |-> Net(a)]
  <2>1. Net(a) \in Nat /\ (chain.tax = 0 => Net(a) = a)
    BY NetType
  <2>2. lock \in LockOnChain /\ (chain.tax = 0 => lock.amount = lock.vault)
    BY <2>1 DEF LockOnChain, Balances
  <2>3. Changed(l, lock, chain.wallet - a, chain.given)
    BY <1>3 DEF OwnerCreates
  <2> QED
    BY <1>1, <2>2, <2>3, ProgramTracks
<1>4. ASSUME NEW l \in ApiLocks, NEW a \in {1, 2}, OwnerTopsUp(l, a)
      PROVE  TotalsInv'
  <2>1. Lock(l).state = "live" /\ Lock(l) \in LockOnChain /\ Lock(l).vault \in Nat
    BY <1>1, <1>4 DEF OwnerTopsUp
  <2>2. Net(a) \in Nat /\ (chain.tax = 0 => Net(a) = a)
    BY NetType
  <2>3. PICK k \in LockOnChain, amount \in Int, vault \in Nat :
           k = Lock(l) /\ amount = Lock(l).amount + a /\ vault = Lock(l).vault + Net(a)
    BY <2>1, <2>2 DEF LockOnChain
  <2>4. PICK lock : lock = [k EXCEPT !.amount = amount, !.vault = vault]
    OBVIOUS
  <2>5. lock \in LockOnChain /\ lock.amount = amount /\ lock.vault = vault
    BY <2>4, LockWith DEF LockOnChain
  <2>6. Changed(l, lock, chain.wallet - a, chain.given)
    BY <1>4, <2>3, <2>4 DEF OwnerTopsUp
  <2>7. chain.tax = 0 /\ ~chain.given => lock.amount = lock.vault
    BY <1>2, <2>1, <2>2, <2>3, <2>5
  <2> QED
    BY <1>1, <2>5, <2>6, <2>7, ProgramTracks
<1>5. ASSUME NEW l \in ApiLocks, OwnerWithdraws(l)
      PROVE  TotalsInv'
  <2>1. PICK lock : lock = [Lock(l) EXCEPT !.state = "withdrawn", !.vault = Gone]
    OBVIOUS
  <2>2. lock \in LockOnChain /\ lock.state = "withdrawn"
    BY <1>1, <2>1 DEF LockOnChain, Balances
  <2>3. Net(Lock(l).vault) \in Nat
    BY <1>1, <1>5, NetType DEF OwnerWithdraws
  <2>4. PICK wallet \in Int : wallet = chain.wallet + Net(Lock(l).vault)
    BY <1>1, <2>3
  <2>5. Changed(l, lock, wallet, chain.given)
    BY <1>5, <2>1, <2>4 DEF OwnerWithdraws
  <2> QED
    BY <2>2, <2>5, ProgramTracks
<1>6. ASSUME NEW l \in ApiLocks, OwnerMigrates(l)
      PROVE  TotalsInv'
  <2>1. /\ Lock(l).vault \in Nat /\ Net(Lock(l).vault) \in Nat
        /\ chain.tax = 0 => Net(Lock(l).vault) = Lock(l).vault
    BY <1>1, <1>6, NetType DEF OwnerMigrates
  <2>2. PICK k \in LockOnChain, v \in Nat, net \in Nat :
           k = Lock(l) /\ v = Lock(l).vault /\ net = Net(Lock(l).vault)
    BY <1>1, <2>1
  <2>3. PICK lock \in LockOnChain :
           /\ lock = [k EXCEPT !.authority = 2, !.vault = net, !.amount = v]
           /\ lock.amount = v /\ lock.vault = net
    BY MovedLock
  <2>5. Changed(l, lock, chain.wallet, chain.given)
    <3>1. lock = [Lock(l) EXCEPT !.authority = 2, !.vault = Net(@), !.amount = Lock(l).vault]
      BY <2>2, <2>3
    <3> QED
      BY <1>6, <3>1 DEF OwnerMigrates
  <2> QED
    BY <1>1, <2>1, <2>2, <2>3, <2>5, ProgramTracks
<1>7. ASSUME NEW l \in ApiLocks, OwnerCloses(l)
      PROVE  TotalsInv'
  <2>1. NoLockThere \in LockOnChain /\ NoLockThere.state = "none"
    BY DEF NoLockThere, LockOnChain, Balances
  <2> QED
    BY <1>1, <1>7, <2>1, ProgramTracks DEF OwnerCloses
<1>8. ASSUME NEW l \in ApiLocks, StrangerDonates(l)
      PROVE  TotalsInv'
  <2>1. Lock(l).vault \in Nat /\ Net(1) \in Nat
    BY <1>1, <1>8, NetType DEF StrangerDonates
  <2>2. PICK lock : lock = [Lock(l) EXCEPT !.vault = @ + Net(1)]
    OBVIOUS
  <2>3. lock \in LockOnChain
    BY <1>1, <2>1, <2>2 DEF LockOnChain, Balances
  <2>4. PICK given \in BOOLEAN, wallet \in Int : given = TRUE /\ wallet = chain.wallet - 1
    <3>1. TRUE \in BOOLEAN /\ chain.wallet - 1 \in Int
      BY <1>1
    <3> QED
      BY <3>1, Zenon
  <2>5. Changed(l, lock, wallet, given)
    BY <1>8, <2>2, <2>4 DEF StrangerDonates
  <2>6. /\ chain.given => given
        /\ chain.tax = 0 /\ ~given /\ lock.state = "live" => lock.amount = lock.vault
    BY <2>4
  <2> QED
    BY <2>3, <2>4, <2>5, <2>6, ChangedTracks
<1> QED
  BY <1>3, <1>4, <1>5, <1>6, <1>7, <1>8 DEF ChainNext

LEMMA TotalsInvInit == ASSUME ServerInit PROVE TotalsInv
<1>1. NoLockThere \in LockOnChain
  BY DEF NoLockThere, LockOnChain, Balances
<1>2. chain \in ChainTypes /\ ~(\E l \in ApiLocks : chain.locks[l].state = "live")
  <2>1. PICK tax \in Taxes :
           chain = [locks |-> [l \in ApiLocks |-> NoLockThere], wallet |-> WalletHolds,
                    tax |-> tax, given |-> FALSE]
    BY DEF ServerInit, ApiInit
  <2>2. WalletHolds \in Int /\ tax \in {0, 1}
    BY ApiAssumption
  <2>3. NoLockThere.state = "none"
    BY DEF NoLockThere
  <2> QED
    BY <1>1, <2>1, <2>2, <2>3 DEF ChainTypes
<1>3. apiReq = [r \in ApiReqs |-> Idle]
  BY DEF ServerInit, ApiInit
<1>4. HeldAsRecorded
  BY <1>2 DEF HeldAsRecorded, Live
<1>5. ASSUME NEW r \in ApiReqs PROVE apiReq[r] \in ApiRequest /\ RequestTracked(apiReq[r])
  <2>1. PICK idle : idle = Idle
    OBVIOUS
  <2>2. apiReq[r] = idle
    BY <1>3, <2>1
  <2> QED
    BY <2>1, <2>2, IdleTracked
<1>6. apiReq \in [ApiReqs -> ApiRequest]
  BY <1>3, IdleTracked
<1> QED
  BY <1>2, <1>4, <1>5, <1>6 DEF TotalsInv

LEMMA TotalsInvStep ==
    ASSUME TotalsInv, now \in Nat, [ServerNext]_serverVars
    PROVE  TotalsInv'
<1>1. CASE UNCHANGED apiVars
  <2>1. UNCHANGED <<chain, apiReq>>
    BY <1>1 DEF apiVars
  <2>2. ASSUME NEW r \in ApiReqs PROVE RequestTracked(apiReq[r])'
    <3>1. PICK x : x = apiReq[r]
      OBVIOUS
    <3>2. RequestTracked(x)'
      BY <2>1, <3>1, TrackedStays DEF TotalsInv
    <3> QED
      BY <2>1, <3>1, <3>2
  <2> QED
    BY <2>1, <2>2 DEF TotalsInv, HeldAsRecorded, Lock
<1>2. ASSUME NEW r \in ApiReqs, ApiStep(r) PROVE TotalsInv'
  <2>1. chain' = chain
    BY <1>2 DEF ApiStep, Ask, ReadList, ReadMint, MintMissing, ApiFails, ReadVaults,
       MissVaults, Finish
  <2> QED
    BY <1>2, <2>1, OtherStepsTrack, ReadListTracks, ReadVaultsTracks, MissVaultsTracks
    DEF ApiStep
<1>3. CASE ApiRestart
  <2>1. chain' = chain /\ apiReq' = [r \in ApiReqs |-> Idle]
    BY <1>3 DEF ApiRestart
  <2>2. PICK idle : idle = Idle
    OBVIOUS
  <2>3. RequestTracked(idle)'
    BY <2>1, <2>2, IdleTracked, TrackedStays
  <2> QED
    BY <2>1, <2>2, <2>3, IdleTracked DEF TotalsInv, HeldAsRecorded, Lock
<1>4. CASE ApiNext
  BY <1>1, <1>2, <1>3, <1>4, ChainTracks DEF ApiNext
<1> QED
  BY <1>1, <1>4 DEF ServerNext, serverVars, apiVars

LEMMA TotalsInvAlways == ServerSpec => []TotalsInv
<1>1. ServerSpec => []ApiInv
  BY ApiInvInit, ApiInvStep, PTL DEF ServerSpec
<1>2. ApiInv => now \in Nat
  BY DEF ApiInv
<1> QED
  BY <1>1, <1>2, TotalsInvInit, TotalsInvStep, PTL DEF ServerSpec

\* When all chunks are through, the vault of every live lock of the list has been read
\* or missed.
LEMMA CompleteIsRead ==
    ASSUME TotalsInv, NEW r \in ApiReqs, Complete(apiReq[r]), NEW l \in Live(apiReq[r].list)
    PROVE  Tracked(apiReq[r], l) /\ ReadOrMissed(apiReq[r], l) /\ l \in ApiLocks
<1> DEFINE q == apiReq[r]
<1>1. q \in ApiRequest /\ Reading(q)
  BY DEF TotalsInv, RequestTracked, Complete
<1>2. PICK i \in DOMAIN q.order : q.order[i] = l
  BY <1>1 DEF Reading, Covers
<1>3. q.order \in Seq(ApiLocks) /\ q.chunk \in Nat /\ ~(q.chunk < Len(q.order))
  BY <1>1 DEF ApiRequest, Complete, MoreChunks
<1>4. i <= q.chunk
  BY <1>2, <1>3
<1> QED
  BY <1>1, <1>2, <1>4 DEF Reading, AllTracked, ChunksRead, Live

\* locks.ts, the reads of buildTokenLocks: for any number of locks and requests, whatever
\* the size of a chunk and the order of the list, the total counts each live lock of the
\* list with a balance that its own vault has had since the list was read.
THEOREM TotalsCountHeldBalances == ServerSpec => []CountedWasHeld
<1>1. TotalsInv => CountedWasHeld
  BY CompleteIsRead DEF CountedWasHeld, Tracked, ReadOrMissed
<1> QED
  BY <1>1, TotalsInvAlways, PTL

\* When the chain has stood still since the list was read and every vault was asked for,
\* the total is what the vaults hold; which is the sum of the recorded amounts that
\* docs/INTEGRATION.md:71 calls the locked amount, if the mint has no tax and nobody has
\* sent tokens to a vault directly.
THEOREM QuietTotalsAreExact == ServerSpec => []QuietTotalExact
<1> DEFINE live == Live(chain.locks)
<1>1. ASSUME TotalsInv, NEW r \in ApiReqs, Complete(apiReq[r]), apiReq[r].quiet,
             ~apiReq[r].failed
      PROVE  /\ Total(apiReq[r]) = SumOver(live, [l \in live |-> Lock(l).vault])
             /\ chain.tax = 0 /\ ~chain.given =>
                   Total(apiReq[r]) = SumOver(live, [l \in live |-> Lock(l).amount])
  <2> DEFINE q == apiReq[r]
  <2>1. q.list = chain.locks
    BY <1>1 DEF TotalsInv, RequestTracked, Reading, Complete
  <2>2. ASSUME NEW l \in Live(chain.locks) PROVE Contribution(q, l) = Lock(l).vault
    <3>1. q.vaults[l] = Lock(l).vault
      BY <1>1, <2>1, CompleteIsRead DEF ReadOrMissed
    <3>2. Lock(l).vault \in Nat
      BY <1>1 DEF Live, TotalsInv, ChainTypes, LockOnChain, Lock
    <3> QED
      BY <3>1, <3>2 DEF Contribution, Unread
  <2>3. [l \in live |-> Contribution(q, l)] = [l \in live |-> Lock(l).vault]
    BY <2>2
  <2>4. Total(q) = SumOver(live, [l \in live |-> Lock(l).vault])
    BY <2>1, <2>3 DEF Total
  <2>5. ASSUME chain.tax = 0, ~chain.given
        PROVE  [l \in live |-> Lock(l).vault] = [l \in live |-> Lock(l).amount]
    BY <1>1, <2>5 DEF TotalsInv, HeldAsRecorded
  <2> QED
    BY <2>4, <2>5
<1>2. TotalsInv => QuietTotalExact
  BY <1>1 DEF QuietTotalExact
<1> QED
  BY <1>2, TotalsInvAlways, PTL
=============================================================================
