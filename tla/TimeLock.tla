------------------------------ MODULE TimeLock ------------------------------
(***************************************************************************)
(* What Caged promises the owner of a lock (README.md: "Pick a date and    *)
(* time. Extend any time. Never shorten." and "same owner, amount and      *)
(* unlock date" for a migration), without vaults, fees, pools or rewards:  *)
(* tokens put in escrow stay there, and only grow, until a release after   *)
(* the unlock time; the unlock time only moves into the future; custody    *)
(* passes from the program to the service at most once and costs at most   *)
(* one transfer tax.                                                       *)
(***************************************************************************)
EXTENDS Integers

CONSTANTS
    Locks,
    Net(_),        \* what arrives of a transfer
    MaxDuration    \* how far ahead an unlock time may be set

VARIABLES
    clock,
    phase,         \* of every lock: "free", "locked" or "released"
    unlock,        \* its unlock time
    keeper,        \* who can sign for its vault: "program" or "service"
    escrow         \* tokens in its vault

absVars == <<clock, phase, unlock, keeper, escrow>>

Start ==
    /\ clock = 0
    /\ phase = [l \in Locks |-> "free"]
    /\ unlock = [l \in Locks |-> 0]
    /\ keeper = [l \in Locks |-> "program"]
    /\ escrow = [l \in Locks |-> 0]

Advance ==
    /\ clock' = clock + 1
    /\ UNCHANGED <<phase, unlock, keeper, escrow>>

Lock(l, t, k, n) ==
    /\ phase[l] = "free"
    /\ clock < t /\ t <= clock + MaxDuration
    /\ phase' = [phase EXCEPT ![l] = "locked"]
    /\ unlock' = [unlock EXCEPT ![l] = t]
    /\ keeper' = [keeper EXCEPT ![l] = k]
    /\ escrow' = [escrow EXCEPT ![l] = n]
    /\ UNCHANGED clock

Grow(l, n) ==
    /\ phase[l] = "locked" /\ n >= escrow[l]
    /\ escrow' = [escrow EXCEPT ![l] = n]
    /\ UNCHANGED <<clock, phase, unlock, keeper>>

Extend(l, t) ==
    /\ phase[l] = "locked"
    /\ unlock[l] < t /\ t <= clock + MaxDuration
    /\ unlock' = [unlock EXCEPT ![l] = t]
    /\ UNCHANGED <<clock, phase, keeper, escrow>>

Entrust(l, n) ==
    /\ phase[l] = "locked" /\ keeper[l] = "program"
    /\ n >= Net(escrow[l])
    /\ keeper' = [keeper EXCEPT ![l] = "service"]
    /\ escrow' = [escrow EXCEPT ![l] = n]
    /\ UNCHANGED <<clock, phase, unlock>>

Release(l) ==
    /\ phase[l] = "locked" /\ unlock[l] <= clock
    /\ phase' = [phase EXCEPT ![l] = "released"]
    /\ escrow' = [escrow EXCEPT ![l] = 0]
    /\ UNCHANGED <<clock, unlock, keeper>>

Free(l) ==
    /\ phase[l] = "released"
    /\ phase' = [phase EXCEPT ![l] = "free"]
    /\ unlock' = [unlock EXCEPT ![l] = 0]
    /\ keeper' = [keeper EXCEPT ![l] = "program"]
    /\ UNCHANGED <<clock, escrow>>

\* Of the value a step gives a lock's variable there is one: the next one.
LockMoves(l) ==
    \/ Lock(l, unlock'[l], keeper'[l], escrow'[l])
    \/ Grow(l, escrow'[l])
    \/ Extend(l, unlock'[l])
    \/ Entrust(l, escrow'[l])
    \/ Release(l)
    \/ Free(l)

AbsNext == Advance \/ \E l \in Locks : LockMoves(l)

AbsSpec == Start /\ [][AbsNext]_absVars
=============================================================================
