---------------------------- MODULE SignThrottle ----------------------------
(***************************************************************************)
(* The throttle of POST /api/custody/sign: for each key, the first address *)
(* of X-Forwarded-For or "local", which several clients may share and a    *)
(* client may choose, a counter and the time its window began.  The first  *)
(* request after a window has passed begins the next one; a request is     *)
(* refused when the window has already seen LIMIT of them.  Requests that  *)
(* fail later, for a malformed body or a refused transaction, count too.   *)
(* The table is in memory: a restart forgets it, and nothing else does.    *)
(* Left out: a service without a secret answers 503 before it counts.      *)
(***************************************************************************)
EXTENDS ServerClock, FiniteSets

CONSTANTS
    Ips,        \* the keys that requests carry
    LIMIT,      \* requests that a window lets through
    WINDOW,     \* its length
    MaxPosts    \* bound: requests of one window

ASSUME ThrottleAssumption == LIMIT \in Nat \ {0} /\ WINDOW \in Nat \ {0}

VARIABLES
    hits,       \* the table: n requests in the window that began at "at"; none yet if n = 0
    log         \* every request since the process started: when, in which window, the how-manieth

signVars == <<hits, log>>

NoHit == [n |-> 0, at |-> 0]

\* Mutant: a window never ends.
InWindowForEver(h) == h.n > 0

InWindow(h) == h.n > 0 /\ now - h.at < WINDOW

\* Mutant: a window that is full is followed by the next at once.
CountedAfresh(h) ==
    IF InWindow(h) /\ h.n < LIMIT THEN [h EXCEPT !.n = h.n + 1] ELSE [n |-> 1, at |-> now]

Counted(h) == IF InWindow(h) THEN [h EXCEPT !.n = h.n + 1] ELSE [n |-> 1, at |-> now]

\* A request past the limit is answered 429, and counted all the same.
Post(ip) ==
    LET h == Counted(hits[ip]) IN
    /\ h.n <= MaxPosts
    /\ hits' = [hits EXCEPT ![ip] = h]
    /\ log' = [log EXCEPT ![ip] = log[ip] \cup {[t |-> now, at |-> h.at, n |-> h.n]}]

SignInit ==
    /\ hits = [ip \in Ips |-> NoHit]
    /\ log = [ip \in Ips |-> {}]

SignRestart ==
    /\ hits' = [ip \in Ips |-> NoHit]
    /\ log' = [ip \in Ips |-> {}]

SignNext ==
    \/ (\E ip \in Ips : Post(ip)) /\ UNCHANGED now
    \/ SignRestart /\ UNCHANGED now
    \/ Tick /\ UNCHANGED signVars

-----------------------------------------------------------------------------
LetThrough(ip) == {e \in log[ip] : e.n <= LIMIT}

\* Whatever the requests, no stretch of time of the length of a window lets more than
\* twice the limit through under one key: a window begins with its first request, so that
\* the last requests of one and the first of the next may come at once.
TwiceLimitAtMost ==
    \A ip \in Ips : \A from \in 0..now :
        LET during == {e \in LetThrough(ip) : from <= e.t /\ e.t < from + WINDOW}
        IN  IsFiniteSet(during) /\ Cardinality(during) <= 2 * LIMIT

\* Under the key of a refused request, more than LIMIT requests came in the WINDOW that ends
\* with it: none is refused for requests of long ago.
OnlyBusyRefused ==
    \A ip \in Ips : \A e \in log[ip] :
        e.n > LIMIT =>
            LET recent == {f \in log[ip] : e.t < f.t + WINDOW /\ f.t <= e.t}
            IN  Cardinality(recent) > LIMIT
=============================================================================
