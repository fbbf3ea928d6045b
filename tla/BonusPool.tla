----------------------------- MODULE BonusPool -----------------------------
(***************************************************************************)
(* What a boost pool promises the locks that enroll in it and the partner  *)
(* who funds it (docs/DEVELOPMENT.md: "enrolled at creation or top-up,     *)
(* first come until capacity is full"), without wallets, vaults, rates and *)
(* rewards: capacity is given to one lock at a time and never twice; a     *)
(* bonus goes to a lock that is enrolled, out of funds that are there, and *)
(* is booked with the lock and with the pool; and nothing else but a       *)
(* withdrawal of free funds takes money out.                               *)
(***************************************************************************)
EXTENDS Integers

CONSTANT Locks

VARIABLES
    open,        \* has the pool been created?
    capacity,    \* tokens that can be enrolled
    taken,       \* tokens that count as enrolled
    share,       \* enrolled tokens of every lock
    earned,      \* bonus that every lock shows as paid
    paid,        \* bonus that the pool shows as paid
    funds        \* what the pool can pay

poolState == <<open, capacity, taken, share, earned, paid, funds>>

Start ==
    /\ open = FALSE
    /\ capacity = 0 /\ taken = 0 /\ paid = 0 /\ funds = 0
    /\ share = [l \in Locks |-> 0] /\ earned = [l \in Locks |-> 0]

Open(c) ==
    /\ ~open
    /\ open' = TRUE /\ capacity' = c
    /\ UNCHANGED <<taken, share, earned, paid, funds>>

Resize(c) ==
    /\ open
    /\ capacity' = c
    /\ UNCHANGED <<open, taken, share, earned, paid, funds>>

Enroll(l, n) ==
    /\ open /\ n > 0 /\ taken + n <= capacity
    /\ taken' = taken + n
    /\ share' = [share EXCEPT ![l] = @ + n]
    /\ UNCHANGED <<open, capacity, earned, paid, funds>>

\* The capacity of a lock that leaves becomes free, or is lost for good.
Leave(l) ==
    /\ share[l] > 0 /\ share[l] <= taken
    /\ share' = [share EXCEPT ![l] = 0]
    /\ taken' \in {taken, taken - share[l]}
    /\ UNCHANGED <<open, capacity, earned, paid, funds>>

Pay(l, n) ==
    /\ open /\ share[l] > 0
    /\ n > 0 /\ n <= funds
    /\ funds' = funds - n
    /\ earned' = [earned EXCEPT ![l] = @ + n]
    /\ paid' = paid + n
    /\ UNCHANGED <<open, capacity, taken, share>>

\* An address without enrolled tokens starts again from nothing.
Forget(l) ==
    /\ share[l] = 0
    /\ earned' = [earned EXCEPT ![l] = 0]
    /\ UNCHANGED <<open, capacity, taken, share, paid, funds>>

Fund(n) ==
    /\ open /\ n > 0
    /\ funds' = funds + n
    /\ UNCHANGED <<open, capacity, taken, share, earned, paid>>

Drain(n) ==
    /\ open /\ n > 0 /\ n <= funds
    /\ funds' = funds - n
    /\ UNCHANGED <<open, capacity, taken, share, earned, paid>>

\* A step determines its amount: what the pool's variables change by.
PoolNext ==
    \/ Open(capacity') \/ Resize(capacity')
    \/ Fund(funds' - funds) \/ Drain(funds - funds')
    \/ \E l \in Locks :
          \/ Enroll(l, taken' - taken) \/ Leave(l)
          \/ Pay(l, paid' - paid) \/ Forget(l)

PoolSpec == Start /\ [][PoolNext]_poolState
=============================================================================
