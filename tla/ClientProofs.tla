---------------------------- MODULE ClientProofs ----------------------------
(***************************************************************************)
(* Safety of LockClient, for every number of locks, clicks and lost or     *)
(* late transactions.                                                      *)
(*                                                                         *)
(* The inductive invariant has three layers.  What an attempt says about   *)
(* itself (its arguments, who may have clicked it, whether it can have     *)
(* reached the network) is a property of its record, so that all attempts  *)
(* together are a sequence over a set (SoundAttempts).  What they say      *)
(* about each other is that an address is created at most once, and what   *)
(* they say about the chain is which pool they saw.                        *)
(***************************************************************************)
EXTENDS ClientProperties, LockerAccountingProofs, SequenceTheorems

-----------------------------------------------------------------------------
\* What an attempt says about itself

\* The arguments are those of the form and of the card.
ArgumentsGiven(x) ==
    /\ x.op \in {"create", "topUp"} => x.amount \in Amounts
    /\ x.op \in {"create", "extend"} => x.unlock \in UnlockTimes
    /\ x.hook = Form => x.op = "create"

\* Only what the network has seen has a fate.
SentBeforeFate(x) == x.fate # "unsent" => x.step \in {"confirming", "over"}

\* A pool is passed only if it was seen, and with a release whenever it was.
PoolPassedIfSeen(x) ==
    /\ x.withPool => x.poolKnown
    /\ x.op \in {"create", "topUp", "withdraw"} => (x.withPool <=> x.poolKnown)

SoundAttempts ==
    {x \in AttemptRecord : ArgumentsGiven(x) /\ SentBeforeFate(x) /\ PoolPassedIfSeen(x)}

\* The types of the client, with what every attempt says about itself.
ReadTypes ==
    /\ card \in [Locks -> CardRecord \cup {Unknown}]
    /\ form \in FormRecord \cup {Unknown}
    /\ poolSeen \subseteq Hooks /\ solSeen \subseteq Locks /\ rewardSeen \subseteq Locks
    /\ status \in [Hooks -> {"idle", "signing", "confirming", "done", "error"}]

ClientInv == TypeInv /\ ReadTypes /\ attempt \in Seq(SoundAttempts)

LEMMA AttemptParts ==
    ASSUME attempt \in Seq(SoundAttempts)
    PROVE  /\ Len(attempt) \in Nat /\ DOMAIN attempt = 1..Len(attempt)
           /\ attempt \in [DOMAIN attempt -> SoundAttempts]
           /\ \A i \in DOMAIN attempt : attempt[i] \in SoundAttempts
                                        /\ attempt[i] \in AttemptRecord
  BY LenProperties, ElementOfSeq DEF SoundAttempts

LEMMA FunctionIsSeq ==
    ASSUME NEW S, NEW n \in Nat, NEW f \in [1..n -> S]
    PROVE  f \in Seq(S)
  BY SeqDef

\* The hook and the network move an attempt on, and leave what was clicked.
MovedTo(x, s, f) == [x EXCEPT !.step = s, !.fate = f]

LEMMA MovedSound ==
    ASSUME NEW x \in SoundAttempts, NEW s \in Steps, NEW f \in Fates,
           f # "unsent" => s \in {"confirming", "over"}
    PROVE  /\ MovedTo(x, s, f) \in SoundAttempts
           /\ MovedTo(x, s, f).step = s /\ MovedTo(x, s, f).fate = f
           /\ MovedTo(x, s, f).hook = x.hook /\ MovedTo(x, s, f).op = x.op
           /\ MovedTo(x, s, f).lock = x.lock
           /\ MovedTo(x, s, f).withPool = x.withPool
           /\ MovedTo(x, s, f).poolKnown = x.poolKnown
<1>1. x \in AttemptRecord
  BY DEF SoundAttempts
<1>2. MovedTo(x, s, f) \in AttemptRecord
  BY <1>1 DEF MovedTo, AttemptRecord
<1>3. /\ MovedTo(x, s, f).step = s /\ MovedTo(x, s, f).fate = f
      /\ MovedTo(x, s, f).hook = x.hook /\ MovedTo(x, s, f).op = x.op
      /\ MovedTo(x, s, f).lock = x.lock
      /\ MovedTo(x, s, f).amount = x.amount /\ MovedTo(x, s, f).unlock = x.unlock
      /\ MovedTo(x, s, f).withPool = x.withPool
      /\ MovedTo(x, s, f).poolKnown = x.poolKnown
  BY <1>1 DEF MovedTo, AttemptRecord
<1> QED
  BY <1>2, <1>3 DEF SoundAttempts, ArgumentsGiven, SentBeforeFate, PoolPassedIfSeen

\* A component that goes away leaves its attempts without a hook.
LeftBy(x, h) == [x EXCEPT !.hook = IF @ = h THEN Gone ELSE @]

LEMMA LeftSound ==
    ASSUME NEW x \in SoundAttempts, NEW h
    PROVE  /\ LeftBy(x, h) \in SoundAttempts
           /\ LeftBy(x, h).hook = IF x.hook = h THEN Gone ELSE x.hook
           /\ LeftBy(x, h).fate = x.fate /\ LeftBy(x, h).op = x.op
           /\ LeftBy(x, h).lock = x.lock /\ LeftBy(x, h).withPool = x.withPool
           /\ LeftBy(x, h).poolKnown = x.poolKnown
<1>1. x \in AttemptRecord
  BY DEF SoundAttempts
<1>2. LeftBy(x, h) \in AttemptRecord
  BY <1>1 DEF LeftBy, AttemptRecord
<1>3. /\ LeftBy(x, h).hook = IF x.hook = h THEN Gone ELSE x.hook
      /\ LeftBy(x, h).step = x.step
      /\ LeftBy(x, h).fate = x.fate /\ LeftBy(x, h).op = x.op
      /\ LeftBy(x, h).lock = x.lock
      /\ LeftBy(x, h).amount = x.amount /\ LeftBy(x, h).unlock = x.unlock
      /\ LeftBy(x, h).withPool = x.withPool
      /\ LeftBy(x, h).poolKnown = x.poolKnown
  BY <1>1 DEF LeftBy, AttemptRecord
<1> QED
  BY <1>2, <1>3, HookAssumption
  DEF SoundAttempts, ArgumentsGiven, SentBeforeFate, PoolPassedIfSeen, Hooks

-----------------------------------------------------------------------------
\* What the steps do to the attempts

\* Sending, executing and confirming: the attempt moves on, is not executed twice,
\* and the chain changes only by executing it.
Progress(i, s, f) ==
    /\ attempt' = [attempt EXCEPT ![i] = MovedTo(@, s, f)]
    /\ f # "unsent" => s \in {"confirming", "over"}
    /\ attempt[i].fate = "executed" => f = "executed"
    /\ f = "executed" /\ attempt[i].fate # "executed" => Execute(i)
    /\ UNCHANGED <<card, form, solSeen, rewardSeen>> /\ poolSeen' \subseteq poolSeen
    /\ Execute(i) \/ UNCHANGED vars

Progresses(i) == \E s \in Steps, f \in Fates : Progress(i, s, f)

LEMMA MovesAreMoves ==
    ASSUME attempt \in Seq(SoundAttempts), NEW i \in DOMAIN attempt,
           NEW s \in Steps, NEW from, Moves(i, from, s)
    PROVE  attempt' = [attempt EXCEPT ![i] = MovedTo(@, s, attempt[i].fate)]
<1> DEFINE x == attempt[i]
<1>1. x \in AttemptRecord
  BY AttemptParts
<1>2. attempt' = [attempt EXCEPT ![i] = [x EXCEPT !.step = s]]
  BY DEF Moves
<1> HIDE DEF x
<1>3. [x EXCEPT !.step = s] = MovedTo(x, s, x.fate)
  BY <1>1 DEF MovedTo, AttemptRecord
<1> QED
  BY <1>2, <1>3 DEF x

LEMMA FatesAreMoves ==
    ASSUME attempt \in Seq(SoundAttempts), NEW i \in DOMAIN attempt,
           NEW f \in Fates, Fate(i, f)
    PROVE  attempt' = [attempt EXCEPT ![i] = MovedTo(@, attempt[i].step, f)]
<1> DEFINE x == attempt[i]
<1>1. x \in AttemptRecord
  BY AttemptParts
<1>2. attempt' = [attempt EXCEPT ![i] = [x EXCEPT !.fate = f]]
  BY DEF Fate
<1> HIDE DEF x
<1>3. [x EXCEPT !.fate = f] = MovedTo(x, x.step, f)
  BY <1>1 DEF MovedTo, AttemptRecord
<1> QED
  BY <1>2, <1>3 DEF x

LEMMA SendProgresses ==
    ASSUME attempt \in Seq(SoundAttempts), NEW i \in DOMAIN attempt, SendStep(i)
    PROVE  Progresses(i)
<1> DEFINE x == attempt[i]
<1>1. /\ x \in AttemptRecord /\ x.step \in Steps /\ x.fate \in Fates
      /\ x.fate # "unsent" => x.step \in {"confirming", "over"}
  BY AttemptParts DEF AttemptRecord, SoundAttempts, SentBeforeFate
<1>2. /\ {"signing", "confirming", "over"} \subseteq Steps
      /\ {"pending", "executed", "failed", "expired"} \subseteq Fates
  BY DEF Steps, Fates
<1>3. ASSUME NEW from, NEW s \in Steps, Moves(i, from, s),
             x.fate # "unsent" => s \in {"confirming", "over"},
             UNCHANGED <<card, form, solSeen, rewardSeen, vars>>, poolSeen' \subseteq poolSeen
      PROVE  Progresses(i)
  <2>1. attempt' = [attempt EXCEPT ![i] = MovedTo(@, s, x.fate)]
    BY <1>3, MovesAreMoves
  <2>2. Progress(i, s, x.fate)
    BY <1>1, <1>3, <2>1 DEF Progress
  <2> HIDE DEF x
  <2> QED
    BY <1>1, <1>3, <2>2 DEF Progresses
<1>4. ASSUME NEW s \in {"confirming", "over"},
             attempt' = [attempt EXCEPT ![i].step = s, ![i].fate = "pending"],
             x.step = "signing", UNCHANGED <<vars, readVars>>
      PROVE  Progresses(i)
  <2>1. attempt' = [attempt EXCEPT ![i] = MovedTo(@, s, "pending")]
    BY <1>4, AttemptParts DEF MovedTo
  <2>2. x.fate = "unsent"
    BY <1>1, <1>4
  <2>3. Progress(i, s, "pending")
    BY <1>4, <2>1, <2>2 DEF Progress, readVars
  <2> QED
    BY <1>2, <1>4, <2>3 DEF Progresses
<1>5. ASSUME NEW f \in {"executed", "failed", "expired"}, Fate(i, f),
             UNCHANGED readVars, f = "executed" => Execute(i),
             Execute(i) \/ UNCHANGED vars
      PROVE  Progresses(i)
  <2>1. attempt' = [attempt EXCEPT ![i] = MovedTo(@, x.step, f)]
    BY <1>2, <1>5, FatesAreMoves
  <2>2. x.fate = "pending"
    BY <1>5 DEF Fate
  <2>3. Progress(i, x.step, f)
    BY <1>1, <1>5, <2>1, <2>2 DEF Progress, readVars
  <2> HIDE DEF x
  <2> QED
    BY <1>1, <1>2, <1>5, <2>3 DEF Progresses
<1>6. CASE Build(i) \/ BuildFails(i) \/ NotSent(i)
  <2>1. x.fate = "unsent"
    BY <1>1, <1>6 DEF Build, BuildFails, NotSent, Moves
  <2> QED
    BY <1>2, <1>3, <1>6, <2>1 DEF Build, BuildFails, NotSent, readVars
<1>7. CASE Confirmed(i) \/ NotConfirmed(i) \/ GivesUp(i)
  <2>1. poolSeen' \subseteq poolSeen /\ UNCHANGED <<card, form, solSeen, rewardSeen, vars>>
    BY <1>7 DEF Confirmed, NotConfirmed, GivesUp, readVars
  <2>2. Moves(i, "confirming", "over")
    BY <1>7 DEF Confirmed, NotConfirmed, GivesUp
  <2> QED
    BY <1>2, <1>3, <2>1, <2>2
<1>8. CASE Send(i) \/ SentUnheard(i)
  BY <1>4, <1>8 DEF Send, SentUnheard
<1>9. CASE Execute(i) \/ FailOnChain(i) \/ Expire(i)
  <2>1. Execute(i) => Progresses(i)
    BY <1>5 DEF Execute
  <2>2. FailOnChain(i) => Progresses(i)
    BY <1>5 DEF FailOnChain
  <2>3. Expire(i) => Progresses(i)
    BY <1>5 DEF Expire
  <2> QED
    BY <1>9, <2>1, <2>2, <2>3
<1> QED
  BY <1>6, <1>7, <1>8, <1>9 DEF SendStep

\* A new attempt of a hook, about the lock l: a creation only where none was tried.
Clicked(h, l, x) ==
    /\ attempt' = Append(attempt, x)
    /\ x \in SoundAttempts /\ x.step = "building" /\ x.fate = "unsent"
    /\ x.lock = l /\ x.hook = h
    /\ x.op = "create" => Fresh(l)
    /\ x.op # "create" => card[l] # Unknown
    /\ x.poolKnown <=> h \in poolSeen
    /\ x.withPool <=> PassesPool(h, x.op)
    /\ UNCHANGED <<vars, readVars, status>>

LEMMA ClickMakes ==
    ASSUME NEW h \in Hooks, NEW op \in Operations, NEW l \in Locks, NEW amount \in Nat,
           NEW unlock \in Int, NEW custodial \in BOOLEAN, NEW treasury \in Treasuries,
           op \in {"create", "topUp"} => amount \in Amounts,
           op \in {"create", "extend"} => unlock \in UnlockTimes,
           h = Form => op = "create", op = "create" => Fresh(l),
           op # "create" => card[l] # Unknown,
           Click(h, op, l, amount, unlock, custodial, treasury)
    PROVE  \E x : Clicked(h, l, x)
<1> DEFINE known == h \in poolSeen
           pass  == PassesPool(h, op)
           x == [step |-> "building", fate |-> "unsent", hook |-> h, op |-> op,
                 lock |-> l, amount |-> amount, unlock |-> unlock,
                 custodial |-> custodial, treasury |-> treasury,
                 withPool |-> pass, poolKnown |-> known]
<1>1. known \in BOOLEAN /\ pass \in BOOLEAN
  BY DEF PassesPool
<1>2. /\ pass => known
      /\ op \in {"create", "topUp", "withdraw"} => (pass <=> known)
  BY DEF PassesPool
<1>3. /\ attempt' = Append(attempt, x)
      /\ UNCHANGED <<vars, readVars, status>>
  BY DEF Click
<1>4. "building" \in Steps /\ "unsent" \in Fates
  BY DEF Steps, Fates
<1>5. /\ x.step = "building" /\ x.fate = "unsent" /\ x.lock = l /\ x.hook = h /\ x.op = op
      /\ x.amount = amount /\ x.unlock = unlock
      /\ x.poolKnown = known /\ x.withPool = pass
  OBVIOUS
<1>6. x \in AttemptRecord
  <2> HIDE DEF known, pass
  <2> QED
    BY <1>1, <1>4 DEF AttemptRecord
<1> HIDE DEF x
<1>7. x \in SoundAttempts
  <2> HIDE DEF known, pass
  <2> QED
    BY <1>2, <1>5, <1>6 DEF SoundAttempts, ArgumentsGiven, SentBeforeFate, PoolPassedIfSeen
<1>8. Clicked(h, l, x)
  BY <1>3, <1>5, <1>7 DEF Clicked
<1> QED
  BY <1>8

LEMMA ClickStepMakes ==
    ASSUME ReadTypes, NEW l \in Locks, ClickStep(l)
    PROVE  \E h \in Hooks : \E x : Clicked(h, l, x)
<1>1. /\ l \in Hooks /\ Form \in Hooks /\ l # Form /\ 0 \in Nat /\ 0 \in Int
      /\ CardOperations \subseteq Operations
      /\ {"create", "topUp", "extend"} \subseteq Operations
  BY HookAssumption DEF Hooks, Operations
<1>2. card[l] # Unknown =>
         card[l].custodial \in BOOLEAN /\ card[l].treasury \in Treasuries
  BY DEF ReadTypes, CardRecord
<1>3. ASSUME NEW op \in CardOperations, Press(l, op, 0, 0)
      PROVE  \E h \in Hooks : \E x : Clicked(h, l, x)
  <2>1. op \notin {"create", "topUp", "extend"} /\ op \in Operations
    BY <1>1, <1>3 DEF CardOperations
  <2>2. \E x : Clicked(l, l, x)
    BY <1>1, <1>2, <1>3, <2>1, ClickMakes DEF Press
  <2> QED
    BY <1>1, <2>2
<1>4. ASSUME NEW amount \in Amounts, PressTopUp(l, amount)
      PROVE  \E h \in Hooks : \E x : Clicked(h, l, x)
  <2>1. amount \in Nat
    BY ArgumentAssumption
  <2>2. \E x : Clicked(l, l, x)
    BY <1>1, <1>2, <1>4, <2>1, ClickMakes DEF PressTopUp, Press
  <2> QED
    BY <1>1, <2>2
<1>5. ASSUME NEW unlock \in UnlockTimes, PressExtend(l, unlock)
      PROVE  \E h \in Hooks : \E x : Clicked(h, l, x)
  <2>1. unlock \in Int
    BY ArgumentAssumption
  <2>2. \E x : Clicked(l, l, x)
    BY <1>1, <1>2, <1>5, <2>1, ClickMakes DEF PressExtend, Press
  <2> QED
    BY <1>1, <2>2
<1>6. ASSUME NEW amount \in Amounts, NEW unlock \in UnlockTimes,
             NEW custodial \in BOOLEAN, Submit(l, amount, unlock, custodial)
      PROVE  \E h \in Hooks : \E x : Clicked(h, l, x)
  <2>1. amount \in Nat /\ unlock \in Int
    BY ArgumentAssumption
  <2>2. form.treasury \in Treasuries
    BY <1>6 DEF Submit, ReadTypes, FormRecord
  <2>3. \E x : Clicked(Form, l, x)
    BY <1>1, <1>6, <2>1, <2>2, ClickMakes DEF Submit
  <2> QED
    BY <1>1, <2>3
<1>7. CASE PressClaimSol(l) \/ PressClaimTokens(l) \/ PressWithdraw(l)
           \/ PressMigrate(l) \/ PressClose(l)
  <2>1. \E op \in CardOperations : Press(l, op, 0, 0)
    BY <1>7 DEF PressClaimSol, PressClaimTokens, PressWithdraw, PressMigrate, PressClose,
                CardOperations
  <2> QED
    BY <1>3, <2>1
<1> QED
  BY <1>4, <1>5, <1>6, <1>7 DEF ClickStep

LEMMA ClickAppends ==
    ASSUME attempt \in Seq(SoundAttempts), NEW h, NEW l, NEW x, Clicked(h, l, x)
    PROVE  /\ attempt' \in Seq(SoundAttempts)
           /\ DOMAIN attempt' = DOMAIN attempt \cup {Len(attempt) + 1}
           /\ \A i \in DOMAIN attempt : attempt'[i] = attempt[i]
           /\ attempt'[Len(attempt) + 1] = x
<1>1. Len(attempt) \in Nat /\ DOMAIN attempt = 1..Len(attempt)
  BY AttemptParts
<1>2. x \in SoundAttempts /\ attempt' = Append(attempt, x)
  BY DEF Clicked
<1>3. /\ attempt' \in Seq(SoundAttempts) /\ Len(attempt') = Len(attempt) + 1
      /\ \A i \in 1..Len(attempt) : attempt'[i] = attempt[i]
      /\ attempt'[Len(attempt) + 1] = x
  BY <1>2, AppendProperties
<1>4. DOMAIN attempt' = 1..(Len(attempt) + 1)
  BY <1>3, LenProperties
<1> QED
  BY <1>1, <1>3, <1>4

LEMMA ProgressKeeps ==
    ASSUME attempt \in Seq(SoundAttempts), NEW i \in DOMAIN attempt, NEW s \in Steps,
           NEW f \in Fates, Progress(i, s, f)
    PROVE  /\ attempt' \in Seq(SoundAttempts) /\ DOMAIN attempt' = DOMAIN attempt
           /\ \A j \in DOMAIN attempt : j # i => attempt'[j] = attempt[j]
           /\ attempt'[i] = MovedTo(attempt[i], s, f)
           /\ attempt[i] \in SoundAttempts
<1>1. Len(attempt) \in Nat /\ DOMAIN attempt = 1..Len(attempt) /\ attempt[i] \in SoundAttempts
  BY AttemptParts
<1> DEFINE y == MovedTo(attempt[i], s, f)
<1>2. y \in SoundAttempts
  BY <1>1, MovedSound DEF Progress
<1>3. attempt' = [attempt EXCEPT ![i] = y]
  BY DEF Progress
<1> HIDE DEF y
<1>4. /\ attempt' \in Seq(SoundAttempts)
      /\ \A j \in 1..Len(attempt) : attempt'[j] = IF j = i THEN y ELSE attempt[j]
  BY <1>1, <1>2, <1>3, ExceptSeq
<1>5. DOMAIN attempt' = DOMAIN attempt
  BY <1>3
<1> QED
  BY <1>1, <1>4, <1>5 DEF y

LEMMA LeaveKeeps ==
    ASSUME attempt \in Seq(SoundAttempts), NEW h \in Hooks, Leave(h)
    PROVE  /\ attempt' \in Seq(SoundAttempts) /\ DOMAIN attempt' = DOMAIN attempt
           /\ \A j \in DOMAIN attempt : attempt'[j] = LeftBy(attempt[j], h)
                                        /\ attempt[j] \in SoundAttempts
<1>1. /\ Len(attempt) \in Nat /\ DOMAIN attempt = 1..Len(attempt)
      /\ \A j \in DOMAIN attempt : attempt[j] \in SoundAttempts
  BY AttemptParts
<1>2. attempt' = [j \in DOMAIN attempt |-> LeftBy(attempt[j], h)]
  BY DEF Leave, LeftBy
<1>3. \A j \in DOMAIN attempt : LeftBy(attempt[j], h) \in SoundAttempts
  BY <1>1, LeftSound
<1>4. attempt' \in [1..Len(attempt) -> SoundAttempts]
  BY <1>1, <1>2, <1>3
<1>5. attempt' \in Seq(SoundAttempts)
  BY <1>1, <1>4, FunctionIsSeq
<1> QED
  BY <1>1, <1>2, <1>5

-----------------------------------------------------------------------------
\* The client only uses the program

LEMMA ExecuteIsLockStep ==
    ASSUME NEW i, attempt[i] \in SoundAttempts, Execute(i)
    PROVE  attempt[i].lock \in Locks /\ LockStep(attempt[i].lock)
<1> DEFINE x == attempt[i]
           l == x.lock
<1>1. /\ x \in AttemptRecord /\ x.lock \in Locks /\ x.withPool \in BOOLEAN
      /\ x.op \in {"create", "topUp"} => x.amount \in Amounts
      /\ x.op \in {"create", "extend"} => x.unlock \in UnlockTimes
  BY DEF SoundAttempts, AttemptRecord, ArgumentsGiven
<1>2. Instruction(x)
  BY DEF Execute
<1> SUFFICES l \in Locks /\ LockStep(l)
  OBVIOUS
<1> HIDE DEF x
<1>3. CASE TrustlessInstruction(x)
  BY <1>1, <1>3 DEF TrustlessInstruction, LockStep
<1>4. CASE CustodialInstruction(x)
  BY <1>1, <1>4 DEF CustodialInstruction, LockStep
<1>5. CASE x.op = "topUp" /\ TopUp(l, x.amount, x.withPool)
  BY <1>1, <1>5 DEF LockStep
<1>6. CASE x.op = "extend" /\ ExtendLock(l, x.unlock)
  BY <1>1, <1>6 DEF LockStep
<1> QED
  BY <1>1, <1>2, <1>3, <1>4, <1>5, <1>6 DEF Instruction

\* Reading without leaving changes what is shown, and nothing else.
Reads == UNCHANGED <<vars, attempt>> /\ ReadStep /\ \A h \in Hooks : ~Leave(h)

\* The steps of the system, as the proofs look at them.
LEMMA ClientCases ==
    ASSUME ClientInv, ClientNext
    PROVE  \/ Reads
           \/ \E h \in Hooks : Leave(h)
           \/ \E l \in Locks, h \in Hooks : \E x : Clicked(h, l, x)
           \/ \E i \in DOMAIN attempt : SendStep(i)
           \/ (ConfigStep \/ PoolStep \/ WorldStep) /\ UNCHANGED clientVars
<1>1. ReadStep => Reads \/ \E h \in Hooks : Leave(h)
  BY DEF ReadStep, Reads, LoadForm, Dismiss, LoadPool, Refresh, Load
<1>2. ASSUME NEW l \in Locks, ClickStep(l)
      PROVE  \E h \in Hooks : \E x : Clicked(h, l, x)
  BY <1>2, ClickStepMakes DEF ClientInv
<1> QED
  BY <1>1, <1>2 DEF ClientNext

LEMMA ClientStepIsStep ==
    ASSUME ClientInv, [ClientNext]_<<vars, clientVars>>
    PROVE  [Next]_vars
<1>1. CASE Reads \/ UNCHANGED <<vars, clientVars>>
  BY <1>1 DEF Reads
<1>2. CASE \E h \in Hooks : Leave(h)
  BY <1>2 DEF Leave
<1>3. CASE \E l \in Locks, h \in Hooks : \E x : Clicked(h, l, x)
  BY <1>3 DEF Clicked
<1>4. ASSUME NEW i \in DOMAIN attempt, SendStep(i) PROVE [Next]_vars
  <2>1. PICK s \in Steps, f \in Fates : Progress(i, s, f)
    BY <1>4, SendProgresses DEF ClientInv, Progresses
  <2>2. attempt[i] \in SoundAttempts
    BY AttemptParts DEF ClientInv
  <2>3. CASE Execute(i)
    BY <2>2, <2>3, ExecuteIsLockStep DEF Next
  <2>4. CASE UNCHANGED vars
    BY <2>4
  <2> QED
    BY <2>1, <2>3, <2>4 DEF Progress
<1>5. CASE ConfigStep \/ PoolStep \/ WorldStep
  BY <1>5 DEF Next
<1> QED
  BY <1>1, <1>2, <1>3, <1>4, <1>5, ClientCases

-----------------------------------------------------------------------------
\* Types

LEMMA SoundStep ==
    ASSUME ClientInv, [ClientNext]_<<vars, clientVars>>
    PROVE  attempt' \in Seq(SoundAttempts)
<1>1. attempt \in Seq(SoundAttempts)
  BY DEF ClientInv
<1>2. CASE \E h \in Hooks : Leave(h)
  BY <1>1, <1>2, LeaveKeeps
<1>3. CASE \E l \in Locks, h \in Hooks : \E x : Clicked(h, l, x)
  BY <1>1, <1>3, ClickAppends
<1>4. ASSUME NEW i \in DOMAIN attempt, SendStep(i) PROVE attempt' \in Seq(SoundAttempts)
  BY <1>1, <1>4, SendProgresses, ProgressKeeps DEF Progresses
<1>5. CASE attempt' = attempt
  BY <1>1, <1>5
<1> QED
  BY <1>2, <1>3, <1>4, <1>5, ClientCases DEF Reads, clientVars

LEMMA ShownTypes ==
    ASSUME ReadTypes, NEW i,
           \/ status' = status
           \/ \E s \in {"signing", "confirming", "done", "error"} : Shown(i, s)
    PROVE  status' \in [Hooks -> {"idle", "signing", "confirming", "done", "error"}]
  BY DEF ReadTypes, Shown

LEMMA SendShows ==
    ASSUME NEW i, SendStep(i)
    PROVE  \/ status' = status
           \/ \E s \in {"signing", "confirming", "done", "error"} : Shown(i, s)
  BY DEF SendStep, Build, BuildFails, Send, NotSent, SentUnheard, Confirmed, NotConfirmed,
         GivesUp, Execute, FailOnChain, Expire

LEMMA ReadTypesReads ==
    ASSUME ClientInv, Reads
    PROVE  ReadTypes'
<1>1. ReadTypes /\ TypeOK
  BY DEF ClientInv, TypeInv
<1>2. ASSUME NEW l \in Locks, Load(l) PROVE ReadTypes'
  <2>1. /\ lock[l].withdrawn \in BOOLEAN /\ lock[l].custodial \in BOOLEAN
        /\ lock[l].unlock_ts \in Int /\ config.treasury \in Treasuries
    BY <1>1 DEF TypeOK, LockRecord, ConfigRecord
  <2>2. [withdrawn |-> lock[l].withdrawn, custodial |-> lock[l].custodial,
         unlock_ts |-> lock[l].unlock_ts, treasury |-> config.treasury] \in CardRecord
    BY <2>1 DEF CardRecord
  <2> QED
    BY <1>1, <1>2, <2>2 DEF Load, ReadTypes
<1>3. CASE LoadForm
  <2>1. config.treasury \in Treasuries /\ config.paused \in BOOLEAN
    BY <1>1 DEF TypeOK, ConfigRecord
  <2>2. [treasury |-> config.treasury, paused |-> config.paused] \in FormRecord
    BY <2>1 DEF FormRecord
  <2> QED
    BY <1>1, <1>3, <2>2 DEF LoadForm, ReadTypes
<1>4. ASSUME NEW h \in Hooks, Dismiss(h) PROVE ReadTypes'
  BY <1>1, <1>4 DEF Dismiss, readVars, ReadTypes
<1>5. ASSUME NEW poolRead \in BOOLEAN, LoadPool(poolRead) PROVE ReadTypes'
  BY <1>1, <1>5 DEF LoadPool, Marked, ReadTypes, Hooks
<1>6. ASSUME NEW l \in Locks, NEW tokensRead \in BOOLEAN, NEW poolRead \in BOOLEAN,
             Refresh(l, tokensRead, poolRead)
      PROVE  ReadTypes'
  BY <1>1, <1>6 DEF Refresh, Marked, ReadTypes, Hooks
<1> QED
  BY <1>2, <1>3, <1>4, <1>5, <1>6 DEF Reads, ReadStep

LEMMA ReadTypesStep ==
    ASSUME ClientInv, [ClientNext]_<<vars, clientVars>>
    PROVE  ReadTypes'
<1>1. ReadTypes /\ attempt \in Seq(SoundAttempts)
  BY DEF ClientInv
<1>2. ASSUME NEW h \in Hooks, Leave(h) PROVE ReadTypes'
  BY <1>1, <1>2 DEF Leave, ReadTypes
<1>3. CASE \E l \in Locks, h \in Hooks : \E x : Clicked(h, l, x)
  BY <1>1, <1>3 DEF Clicked, readVars, ReadTypes
<1>4. ASSUME NEW i \in DOMAIN attempt, SendStep(i) PROVE ReadTypes'
  <2>1. UNCHANGED <<card, form, solSeen, rewardSeen>> /\ poolSeen' \subseteq poolSeen
    BY <1>1, <1>4, SendProgresses DEF Progresses, Progress
  <2>2. status' \in [Hooks -> {"idle", "signing", "confirming", "done", "error"}]
    BY <1>1, <1>4, SendShows, ShownTypes
  <2> QED
    BY <1>1, <2>1, <2>2 DEF ReadTypes
<1>5. CASE UNCHANGED clientVars
  BY <1>1, <1>5 DEF ReadTypes, clientVars, readVars
<1> QED
  BY <1>2, <1>3, <1>4, <1>5, ClientCases, ReadTypesReads

LEMMA ClientInvInit == ClientInit => ClientInv
<1> SUFFICES ASSUME ClientInit PROVE ClientInv
  OBVIOUS
<1>1. TypeInv
  BY TypeInit DEF ClientInit
<1>2. attempt \in Seq(SoundAttempts)
  BY EmptySeq DEF ClientInit
<1>3. ReadTypes
  BY DEF ClientInit, ReadTypes
<1> QED
  BY <1>1, <1>2, <1>3 DEF ClientInv

LEMMA ClientInvStep == ClientInv /\ [ClientNext]_<<vars, clientVars>> => ClientInv'
<1> SUFFICES ASSUME ClientInv, [ClientNext]_<<vars, clientVars>> PROVE ClientInv'
  OBVIOUS
<1>1. TypeInv'
  BY ClientStepIsStep, TypeStep DEF ClientInv
<1> QED
  BY <1>1, SoundStep, ReadTypesStep DEF ClientInv

LEMMA ClientInvAlways == ClientSpec => []ClientInv
  BY ClientInvInit, ClientInvStep, PTL DEF ClientSpec

\* What the web client makes the chain do, with whatever it holds of earlier reads,
\* is what the program allows: everything proved of the program holds with it.
THEOREM ClientUsesProgram == ClientSpec => Spec
<1>1. ClientInit => Init
  BY DEF ClientInit
<1>2. ClientInv /\ [ClientNext]_<<vars, clientVars>> => [Next]_vars
  BY ClientStepIsStep
<1> QED
  BY <1>1, <1>2, ClientInvAlways, PTL DEF ClientSpec, Spec

\* The attempts of all components stay well formed, whatever order the answers of
\* the network arrive in; one that was not sent is not executed.
THEOREM ClientTypes == ClientSpec => []ClientTypeOK
<1>1. ClientInv => ClientTypeOK
  <2> SUFFICES ASSUME ClientInv PROVE ClientTypeOK
    OBVIOUS
  <2>1. DOMAIN attempt = 1..Len(attempt)
        /\ \A i \in DOMAIN attempt : attempt[i] \in SoundAttempts
    BY AttemptParts DEF ClientInv
  <2> QED
    BY <2>1 DEF ClientInv, ReadTypes, ClientTypeOK, SoundAttempts, SentBeforeFate
<1> QED
  BY <1>1, ClientInvAlways, PTL

-----------------------------------------------------------------------------
\* What the hooks show

\* An executed attempt that explains a hook's "done".
Explains(i, h) ==
    i \in DOMAIN attempt /\ Executed(i) /\ attempt[i].hook = h
    /\ (h = Form => attempt[i].op = "create")

\* "done" is shown by the attempt that was executed, and by no other step.
LEMMA DoneShown ==
    ASSUME ReadTypes, NEW i, SendStep(i), NEW h \in Hooks, status'[h] = "done"
    PROVE  status[h] = "done" \/ (attempt[i].hook = h /\ Executed(i))
<1>1. CASE Confirmed(i)
  BY <1>1 DEF Confirmed, ConfirmsOk, Shown, Executed
<1>2. CASE Build(i) \/ Send(i) \/ NotSent(i) \/ SentUnheard(i) \/ NotConfirmed(i) \/ GivesUp(i)
  BY <1>2 DEF Build, Send, NotSent, SentUnheard, NotConfirmed, GivesUp, Shown
<1>3. CASE BuildFails(i) \/ Execute(i) \/ FailOnChain(i) \/ Expire(i)
  BY <1>3 DEF BuildFails, Execute, FailOnChain, Expire
<1> QED
  BY <1>1, <1>2, <1>3 DEF SendStep

LEMMA ExplainedSend ==
    ASSUME ClientInv, DoneMeansExecuted, NEW i \in DOMAIN attempt, SendStep(i),
           NEW h \in Hooks, status'[h] = "done"
    PROVE  \E j : Explains(j, h)'
<1>1. PICK s \in Steps, f \in Fates : Progress(i, s, f)
  BY SendProgresses DEF ClientInv, Progresses
<1>2. /\ DOMAIN attempt' = DOMAIN attempt
      /\ \A j \in DOMAIN attempt : j # i => attempt'[j] = attempt[j]
      /\ attempt'[i] = MovedTo(attempt[i], s, f) /\ attempt[i] \in SoundAttempts
  BY <1>1, ProgressKeeps DEF ClientInv
<1>3. /\ attempt'[i].hook = attempt[i].hook /\ attempt'[i].op = attempt[i].op
      /\ attempt'[i].fate = f
      /\ attempt[i].hook = Form => attempt[i].op = "create"
  BY <1>1, <1>2, MovedSound DEF Progress, SoundAttempts, ArgumentsGiven
<1>4. attempt[i].fate = "executed" => f = "executed"
  BY <1>1 DEF Progress
<1>5. ASSUME NEW j, Explains(j, h) PROVE Explains(j, h)'
  BY <1>2, <1>3, <1>4, <1>5 DEF Explains, Executed
<1>6. CASE status[h] = "done"
  <2>1. \E j : Explains(j, h)
    BY <1>6 DEF DoneMeansExecuted, Explains
  <2> QED
    BY <1>5, <2>1
<1>7. CASE attempt[i].hook = h /\ Executed(i)
  <2>1. Explains(i, h)
    BY <1>3, <1>7 DEF Explains
  <2> QED
    BY <1>5, <2>1
<1> QED
  BY <1>6, <1>7, DoneShown DEF ClientInv

LEMMA DoneStep ==
    ASSUME ClientInv, DoneMeansExecuted, [ClientNext]_<<vars, clientVars>>
    PROVE  DoneMeansExecuted'
<1> SUFFICES ASSUME NEW h \in Hooks, status'[h] = "done" PROVE \E j : Explains(j, h)'
  BY DEF DoneMeansExecuted, Explains
<1>1. attempt \in Seq(SoundAttempts) /\ ReadTypes
  BY DEF ClientInv
<1>2. status[h] = "done" => \E j : Explains(j, h)
  BY DEF DoneMeansExecuted, Explains
<1>3. CASE Reads \/ UNCHANGED clientVars
  <2>1. status[h] = "done" /\ attempt' = attempt
    BY <1>1, <1>3 DEF Reads, ReadStep, LoadForm, Dismiss, LoadPool, Refresh, Load,
                      clientVars, ReadTypes
  <2> QED
    BY <1>2, <2>1 DEF Explains, Executed
<1>4. ASSUME NEW g \in Hooks, Leave(g) PROVE \E j : Explains(j, h)'
  <2>1. status[h] = "done" /\ h # g
    BY <1>1, <1>4 DEF Leave, ReadTypes
  <2>2. PICK j : Explains(j, h)
    BY <1>2, <2>1
  <2>3. /\ j \in DOMAIN attempt' /\ attempt'[j] = LeftBy(attempt[j], g)
        /\ attempt[j] \in SoundAttempts
    BY <1>1, <1>4, <2>2, LeaveKeeps DEF Explains
  <2>4. Explains(j, h)'
    BY <2>1, <2>2, <2>3, LeftSound DEF Explains, Executed
  <2> QED
    BY <2>4
<1>5. ASSUME NEW l \in Locks, NEW g \in Hooks, NEW x, Clicked(g, l, x)
      PROVE  \E j : Explains(j, h)'
  <2>1. status[h] = "done"
    BY <1>5 DEF Clicked
  <2>2. PICK j : Explains(j, h)
    BY <1>2, <2>1
  <2>3. j \in DOMAIN attempt' /\ attempt'[j] = attempt[j]
    BY <1>1, <1>5, <2>2, ClickAppends DEF Explains
  <2> QED
    BY <2>2, <2>3 DEF Explains, Executed
<1>6. ASSUME NEW i \in DOMAIN attempt, SendStep(i) PROVE \E j : Explains(j, h)'
  BY <1>6, ExplainedSend
<1> QED
  BY <1>3, <1>4, <1>5, <1>6, ClientCases

\* useSendTx: no "done", and no "Lock created" of the form, without a transaction of
\* that hook which the chain has executed, through overlapping clicks, answers that
\* are lost, components that are left and loaded again.
THEOREM DoneIsTrue == ClientSpec => []DoneMeansExecuted
<1>1. ClientInit => DoneMeansExecuted
  BY DEF ClientInit, DoneMeansExecuted
<1>2. ClientInv /\ DoneMeansExecuted /\ [ClientNext]_<<vars, clientVars>>
         => DoneMeansExecuted'
  BY DoneStep
<1> QED
  BY <1>1, <1>2, ClientInvAlways, PTL DEF ClientSpec

-----------------------------------------------------------------------------
\* What the attempts say about each other

\* A step leaves what an attempt is about, and that it was executed.
Stays(i) ==
    /\ i \in DOMAIN attempt'
    /\ attempt'[i].op = attempt[i].op /\ attempt'[i].lock = attempt[i].lock
    /\ attempt'[i].withPool = attempt[i].withPool
    /\ attempt'[i].poolKnown = attempt[i].poolKnown
    /\ attempt[i].fate = "executed" => attempt'[i].fate = "executed"

\* The steps that add no attempt, and the ones that execute none.
SameAttempts == DOMAIN attempt' = DOMAIN attempt

Executes(i) == i \in DOMAIN attempt /\ Execute(i) /\ Executed(i)' /\ ~Executed(i)

LEMMA AttemptsStay ==
    ASSUME ClientInv, [ClientNext]_<<vars, clientVars>>
    PROVE  \A i \in DOMAIN attempt : Stays(i) /\ (Executed(i)' => Executed(i) \/ Executes(i))
<1>1. attempt \in Seq(SoundAttempts) /\ \A i \in DOMAIN attempt : attempt[i] \in SoundAttempts
  BY AttemptParts DEF ClientInv
<1> SUFFICES ASSUME NEW i \in DOMAIN attempt
             PROVE  Stays(i) /\ (Executed(i)' => Executed(i) \/ Executes(i))
  OBVIOUS
<1>2. CASE attempt' = attempt
  BY <1>2 DEF Stays, Executed
<1>3. ASSUME NEW h \in Hooks, Leave(h)
      PROVE  Stays(i) /\ (Executed(i)' => Executed(i) \/ Executes(i))
  <2>1. i \in DOMAIN attempt' /\ attempt'[i] = LeftBy(attempt[i], h)
    BY <1>1, <1>3, LeaveKeeps
  <2> QED
    BY <1>1, <2>1, LeftSound DEF Stays, Executed
<1>4. ASSUME NEW l \in Locks, NEW h \in Hooks, NEW x, Clicked(h, l, x)
      PROVE  Stays(i) /\ (Executed(i)' => Executed(i) \/ Executes(i))
  BY <1>1, <1>4, ClickAppends DEF Stays, Executed
<1>5. ASSUME NEW j \in DOMAIN attempt, SendStep(j)
      PROVE  Stays(i) /\ (Executed(i)' => Executed(i) \/ Executes(i))
  <2>1. PICK s \in Steps, f \in Fates : Progress(j, s, f)
    BY <1>1, <1>5, SendProgresses DEF Progresses
  <2>2. i \in DOMAIN attempt' /\ attempt'[j] = MovedTo(attempt[j], s, f)
        /\ (i # j => attempt'[i] = attempt[i])
    BY <1>1, <2>1, ProgressKeeps
  <2>3. CASE i # j
    BY <2>2, <2>3 DEF Stays, Executed
  <2>4. CASE i = j
    <3>1. /\ attempt'[i].op = attempt[i].op /\ attempt'[i].lock = attempt[i].lock
          /\ attempt'[i].withPool = attempt[i].withPool
          /\ attempt'[i].poolKnown = attempt[i].poolKnown /\ attempt'[i].fate = f
      BY <1>1, <2>1, <2>2, <2>4, MovedSound DEF Progress
    <3>2. /\ attempt[i].fate = "executed" => f = "executed"
          /\ f = "executed" /\ attempt[i].fate # "executed" => Execute(i)
      BY <2>1, <2>4 DEF Progress
    <3> QED
      BY <2>2, <3>1, <3>2 DEF Stays, Executed, Executes
  <2> QED
    BY <2>3, <2>4
<1> QED
  BY <1>2, <1>3, <1>4, <1>5, ClientCases DEF Reads, clientVars

\* A new attempt is the last one, and a creation has its address for itself.
LEMMA NewAttempt ==
    ASSUME ClientInv, [ClientNext]_<<vars, clientVars>>,
           NEW i \in DOMAIN attempt', i \notin DOMAIN attempt
    PROVE  /\ i = Len(attempt) + 1
           /\ attempt'[i].op = "create" =>
                 \A j \in DOMAIN attempt : attempt[j].lock # attempt'[i].lock
           /\ \E h \in Hooks, l \in Locks : \E x : Clicked(h, l, x) /\ attempt'[i] = x
<1>1. attempt \in Seq(SoundAttempts)
  BY DEF ClientInv
<1>2. ~UNCHANGED attempt
  OBVIOUS
<1>3. \A h \in Hooks : ~Leave(h)
  BY <1>1, LeaveKeeps
<1>4. \A j \in DOMAIN attempt : ~SendStep(j)
  BY <1>1, SendProgresses, ProgressKeeps DEF Progresses
<1>5. PICK l \in Locks, h \in Hooks : \E x : Clicked(h, l, x)
  BY <1>2, <1>3, <1>4, ClientCases DEF Reads, clientVars
<1>6. PICK x : Clicked(h, l, x)
  BY <1>5
<1>7. i = Len(attempt) + 1 /\ attempt'[i] = x
  BY <1>1, <1>6, ClickAppends
<1> QED
  BY <1>6, <1>7 DEF Clicked, Fresh

Created(l) ==
    \E i \in DOMAIN attempt :
        Executed(i) /\ attempt[i].op = "create" /\ attempt[i].lock = l

CreatedOnce ==
    \A i, j \in DOMAIN attempt :
        /\ attempt[i].op = "create" /\ attempt[j].op = "create"
        /\ attempt[i].lock = attempt[j].lock
        => i = j

\* Whatever is shown as a lock, or is one, was created by the one attempt that ever
\* tried to create something at its address.
CreationInv ==
    /\ CreatedOnce
    /\ \A l \in Locks : l \in live \/ card[l] # Unknown => Created(l)

LEMMA CreatedOnceStep ==
    ASSUME ClientInv, CreatedOnce, [ClientNext]_<<vars, clientVars>>
    PROVE  CreatedOnce'
<1> SUFFICES ASSUME NEW i \in DOMAIN attempt', NEW j \in DOMAIN attempt',
                    attempt'[i].op = "create", attempt'[j].op = "create",
                    attempt'[i].lock = attempt'[j].lock
             PROVE  i = j
  BY DEF CreatedOnce
<1>1. \A k \in DOMAIN attempt : attempt'[k].op = attempt[k].op
                                /\ attempt'[k].lock = attempt[k].lock
  BY AttemptsStay DEF Stays
<1>2. CASE i \in DOMAIN attempt /\ j \in DOMAIN attempt
  BY <1>1, <1>2 DEF CreatedOnce
<1>3. CASE i \notin DOMAIN attempt /\ j \notin DOMAIN attempt
  BY <1>3, NewAttempt
<1>4. CASE i \in DOMAIN attempt /\ j \notin DOMAIN attempt
  BY <1>1, <1>4, NewAttempt
<1>5. CASE i \notin DOMAIN attempt /\ j \in DOMAIN attempt
  BY <1>1, <1>5, NewAttempt
<1> QED
  BY <1>2, <1>3, <1>4, <1>5

LEMMA CreatedStays ==
    ASSUME ClientInv, [ClientNext]_<<vars, clientVars>>, NEW l \in Locks, Created(l)
    PROVE  Created(l)'
<1>1. PICK i \in DOMAIN attempt :
         Executed(i) /\ attempt[i].op = "create" /\ attempt[i].lock = l
  BY DEF Created
<1>2. i \in DOMAIN attempt' /\ Executed(i)' /\ attempt'[i].op = "create"
      /\ attempt'[i].lock = l
  BY <1>1, AttemptsStay DEF Stays, Executed
<1> QED
  BY <1>2 DEF Created

\* Only a creation makes an address live.
LEMMA ExecutedCreation ==
    ASSUME TypeInv, NEW i, attempt[i] \in SoundAttempts, Execute(i), NEW m \in live', m \notin live
    PROVE  attempt[i].op = "create" /\ attempt[i].lock = m
<1> DEFINE x == attempt[i]
<1>1. Instruction(x)
  BY DEF Execute
<1> SUFFICES x.op = "create" /\ x.lock = m
  OBVIOUS
<1> HIDE DEF x
<1>2. ASSUME NEW mode, CreateLockIn(x.lock, mode, x.amount, x.unlock, x.withPool)
      PROVE  x.lock = m
  BY <1>2 DEF CreateLockIn
<1>3. CASE TrustlessInstruction(x)
  BY <1>2, <1>3 DEF TrustlessInstruction, CreateLock, Withdraw, Release, ClaimSolRewards,
     ClaimSol, ClaimTokenRewards, ClaimTokens, MigrateLockToCustodial, CloseLock, CloseWithdrawn
<1>4. CASE CustodialInstruction(x)
  BY <1>2, <1>4 DEF CustodialInstruction, CreateLockCustodial, WithdrawCustodial, Release,
     ClaimSolRewardsCustodial, ClaimSol, ClaimTokenRewardsCustodial, ClaimTokens,
     CloseLockCustodial, CloseWithdrawn
<1>5. CASE TopUp(x.lock, x.amount, x.withPool) \/ ExtendLock(x.lock, x.unlock)
  BY <1>5 DEF TopUp, ExtendLock
<1> QED
  BY <1>1, <1>3, <1>4, <1>5 DEF Instruction

\* What makes an address live, and what makes a card show it.
LEMMA NewlyLive ==
    ASSUME ClientInv, [ClientNext]_<<vars, clientVars>>, NEW m \in live', m \notin live
    PROVE  /\ \E i : Executes(i) /\ attempt[i].op = "create" /\ attempt[i].lock = m
           /\ card' = card
<1>1. attempt \in Seq(SoundAttempts) /\ \A i \in DOMAIN attempt : attempt[i] \in SoundAttempts
  BY AttemptParts DEF ClientInv
<1>2. live' # live
  OBVIOUS
<1>3. ~UNCHANGED vars
  BY <1>2 DEF vars
<1>4. ~(ConfigStep \/ PoolStep \/ WorldStep)
  BY <1>2, ConfigStepLeaves, PoolStepLeaves, WorldStepLeaves
<1>5. PICK i \in DOMAIN attempt : SendStep(i)
  BY <1>3, <1>4, ClientCases DEF Reads, Leave, Clicked
<1>6. PICK s \in Steps, f \in Fates : Progress(i, s, f)
  BY <1>1, <1>5, SendProgresses DEF Progresses
<1>7. Execute(i) /\ card' = card
  BY <1>3, <1>6 DEF Progress
<1>8. attempt[i].op = "create" /\ attempt[i].lock = m
  BY <1>1, <1>7, ExecutedCreation DEF ClientInv
<1>9. attempt[i].fate = "pending" /\ attempt' = [attempt EXCEPT ![i].fate = "executed"]
  BY <1>7 DEF Execute, Fate
<1>10. Executes(i)
  BY <1>1, <1>5, <1>7, <1>9 DEF Executes, Executed, SoundAttempts, AttemptRecord
<1> QED
  BY <1>7, <1>8, <1>10

LEMMA CardLoaded ==
    ASSUME ClientInv, [ClientNext]_<<vars, clientVars>>, NEW l \in Locks,
           card'[l] # Unknown, card'[l] # card[l]
    PROVE  Load(l)
<1>1. /\ attempt \in Seq(SoundAttempts)
      /\ card \in [Locks -> CardRecord \cup {Unknown}]
  BY DEF ClientInv, ReadTypes
<1>2. card' # card
  OBVIOUS
<1>3. \A h \in Hooks : ~Leave(h)
  BY <1>1 DEF Leave
<1>4. \A i \in DOMAIN attempt : ~SendStep(i)
  BY <1>1, <1>2, SendProgresses DEF Progresses, Progress
<1>5. ReadStep
  BY <1>2, <1>3, <1>4, ClientCases DEF Reads, Clicked, clientVars, readVars
<1>6. PICK m \in Locks : Load(m)
  BY <1>2, <1>3, <1>5 DEF ReadStep, LoadForm, Dismiss, LoadPool, Refresh, readVars
<1> QED
  BY <1>1, <1>6 DEF Load

LEMMA CreationStep ==
    ASSUME ClientInv, CreationInv, [ClientNext]_<<vars, clientVars>>
    PROVE  CreationInv'
<1>1. CreatedOnce'
  BY CreatedOnceStep DEF CreationInv
<1>2. ASSUME NEW l \in Locks, l \in live' \/ card'[l] # Unknown PROVE Created(l)'
  <2>1. CASE l \in live \/ card[l] # Unknown
    BY <2>1, CreatedStays DEF CreationInv
  <2>2. CASE l \notin live /\ l \in live'
    <3>1. PICK i : Executes(i) /\ attempt[i].op = "create" /\ attempt[i].lock = l
      BY <2>2, NewlyLive
    <3>2. /\ i \in DOMAIN attempt' /\ Executed(i)'
          /\ attempt'[i].op = "create" /\ attempt'[i].lock = l
      BY <3>1, AttemptsStay DEF Executes, Stays
    <3> QED
      BY <3>2 DEF Created
  <2>3. CASE card[l] = Unknown /\ card'[l] # Unknown
    <3>1. l \in live
      BY <2>3, CardLoaded DEF Load
    <3> QED
      BY <3>1, CreatedStays DEF CreationInv
  <2> QED
    BY <1>2, <2>1, <2>2, <2>3
<1> QED
  BY <1>1, <1>2 DEF CreationInv

LEMMA CreationAlways == ClientSpec => []CreationInv
<1>1. ClientInit => CreationInv
  BY DEF ClientInit, Init, CreationInv, CreatedOnce
<1>2. ClientInv /\ CreationInv /\ [ClientNext]_<<vars, clientVars>> => CreationInv'
  BY CreationStep
<1> QED
  BY <1>1, <1>2, ClientInvAlways, PTL DEF ClientSpec

-----------------------------------------------------------------------------
\* Stale cards

\* A lock never becomes less extended, less withdrawn or less custodial.
Firm(l) ==
    /\ lock[l].unlock_ts <= lock'[l].unlock_ts
    /\ lock[l].withdrawn => lock'[l].withdrawn
    /\ lock[l].custodial => lock'[l].custodial

LEMMA FirmLockStep ==
    ASSUME TypeInv, NEW l \in Locks, LockStep(l), l \in live, l \in live'
    PROVE  Firm(l)
<1>1. /\ lock \in [Locks -> LockRecord] /\ lock[l] \in LockRecord
      /\ lock[l].unlock_ts \in Int
  BY DEF TypeInv, TypeOK, LockRecord
<1>2. ASSUME NEW mode \in Modes, NEW amount \in Amounts, NEW unlock \in UnlockTimes,
             NEW withPool \in BOOLEAN, CreateLockIn(l, mode, amount, unlock, withPool)
      PROVE  FALSE
  BY <1>2 DEF CreateLockIn
<1>3. ASSUME NEW amount \in Amounts, NEW withPool \in BOOLEAN, TopUp(l, amount, withPool)
      PROVE  Firm(l)
  BY <1>1, <1>3 DEF TopUp, ToppedUp, LockRecord, Firm
<1>4. ASSUME NEW unlock \in UnlockTimes, ExtendLock(l, unlock) PROVE Firm(l)
  <2>1. unlock \in Int /\ unlock > lock[l].unlock_ts
    BY <1>4, ArgumentAssumption DEF ExtendLock, MayExtendTo
  <2>2. /\ lock'[l].unlock_ts = unlock /\ lock'[l].withdrawn = lock[l].withdrawn
        /\ lock'[l].custodial = lock[l].custodial
    BY <1>1, <1>4 DEF ExtendLock, LockRecord
  <2> QED
    BY <1>1, <2>1, <2>2 DEF Firm
<1>5. ASSUME NEW withPool \in BOOLEAN, Release(l, withPool) PROVE Firm(l)
  BY <1>1, <1>5 DEF Release, LockRecord, Firm
<1>6. ASSUME NEW withPool \in BOOLEAN, ClaimSol(l, withPool) \/ ClaimTokens(l, withPool)
      PROVE  Firm(l)
  BY <1>1, <1>6 DEF ClaimSol, ClaimTokens, LockRecord, Firm
<1>7. CASE CloseWithdrawn(l)
  BY <1>7 DEF CloseWithdrawn
<1>8. CASE MigrateLockToCustodial(l)
  BY <1>1, <1>8 DEF MigrateLockToCustodial, Migrated, LockRecord, Firm
<1> QED
  BY <1>2, <1>3, <1>4, <1>5, <1>6, <1>7, <1>8, LockStepCases

LEMMA FirmStep ==
    ASSUME TypeInv, [Next]_vars, NEW m \in live, m \in live'
    PROVE  Firm(m)
<1>1. TypeOK /\ m \in Locks /\ lock[m].unlock_ts \in Int
  BY DEF TypeInv, TypeOK, LockRecord
<1>2. lock'[m] = lock[m] => Firm(m)
  BY <1>1 DEF Firm
<1>3. ASSUME NEW l \in Locks, LockStep(l) PROVE Firm(m)
  <2>1. CASE m = l
    BY <1>3, <2>1, FirmLockStep
  <2>2. CASE m # l
    BY <1>1, <1>2, <1>3, <2>2, OthersKeepRecord
  <2> QED
    BY <2>1, <2>2
<1>4. CASE ConfigStep \/ PoolStep \/ WorldStep \/ UNCHANGED vars
  <2>1. lock' = lock
    BY <1>4, ConfigStepLeaves, PoolStepLeaves, WorldStepLeaves DEF vars
  <2> QED
    BY <1>2, <2>1
<1> QED
  BY <1>3, <1>4 DEF Next

\* The card shows nothing that the lock has not reached.
Behind(l) ==
    card[l] # Unknown =>
        /\ card[l].unlock_ts <= lock[l].unlock_ts
        /\ card[l].withdrawn => lock[l].withdrawn
        /\ card[l].custodial => lock[l].custodial

LEMMA StaleStep ==
    ASSUME ClientInv, ClientInv', CreationInv, StaleCardIsSafe,
           [ClientNext]_<<vars, clientVars>>
    PROVE  StaleCardIsSafe'
<1> SUFFICES ASSUME NEW m \in live', card'[m] # Unknown PROVE Behind(m)'
  BY DEF StaleCardIsSafe, Behind
<1>1. /\ m \in Locks /\ TypeInv /\ [Next]_vars
      /\ lock[m].unlock_ts \in Int /\ lock'[m].unlock_ts \in Int
  BY ClientStepIsStep DEF ClientInv, TypeInv, TypeOK, LockRecord
<1>2. CASE card'[m] # card[m]
  <2>1. Load(m)
    BY <1>1, <1>2, CardLoaded
  <2>2. lock' = lock
    BY <2>1 DEF Load, vars
  <2>3. card \in [Locks -> CardRecord \cup {Unknown}]
    BY DEF ClientInv, ReadTypes
  <2>4. card'[m] = [withdrawn |-> lock[m].withdrawn, custodial |-> lock[m].custodial,
                    unlock_ts |-> lock[m].unlock_ts, treasury |-> config.treasury]
    BY <1>1, <2>1, <2>3 DEF Load
  <2> QED
    BY <1>1, <2>2, <2>4 DEF Behind
<1>3. CASE card'[m] = card[m] /\ m \in live
  <2>1. Firm(m)
    BY <1>1, <1>3, FirmStep
  <2>2. Behind(m) /\ card[m] # Unknown
    BY <1>3 DEF StaleCardIsSafe, Behind
  <2>3. card[m].unlock_ts \in Int
    BY <1>1, <2>2 DEF ClientInv, ReadTypes, CardRecord
  <2> QED
    BY <1>1, <1>3, <2>1, <2>2, <2>3 DEF Behind, Firm
<1>4. CASE card'[m] = card[m] /\ m \notin live
  <2>1. PICK i : Executes(i) /\ attempt[i].op = "create" /\ attempt[i].lock = m
    BY <1>4, NewlyLive
  <2>2. PICK j \in DOMAIN attempt :
           Executed(j) /\ attempt[j].op = "create" /\ attempt[j].lock = m
    BY <1>1, <1>4 DEF CreationInv, Created
  <2>3. i = j
    BY <2>1, <2>2 DEF Executes, CreationInv, CreatedOnce
  <2> QED
    BY <2>1, <2>2, <2>3 DEF Executes
<1> QED
  BY <1>2, <1>3, <1>4

\* LockCard: what it shows is never ahead of the lock.  That closed addresses are not
\* created again is what makes it true: a card that outlives its lock could
\* otherwise be taken for one of the new lock.
THEOREM StaleCardsAreSafe == ClientSpec => []StaleCardIsSafe
<1>1. ClientInit => StaleCardIsSafe
  BY DEF ClientInit, Init, StaleCardIsSafe
<1>2. ClientInv /\ ClientInv' /\ CreationInv /\ StaleCardIsSafe
         /\ [ClientNext]_<<vars, clientVars>> => StaleCardIsSafe'
  BY StaleStep
<1> QED
  BY <1>1, <1>2, ClientInvAlways, CreationAlways, PTL DEF ClientSpec

-----------------------------------------------------------------------------
\* What the attempts know of the pool

\* A pool that was seen exists, and for ever in the same currency; so a claim that
\* passes it or not, does so for a reason that does not go away.
PoolInv ==
    /\ poolSeen # {} => pool.exists
    /\ \A i \in DOMAIN attempt : attempt[i].poolKnown =>
          /\ pool.exists
          /\ attempt[i].op = "claimSol" => (attempt[i].withPool <=> pool.pays_sol)
          /\ attempt[i].op = "claimTokens" => (attempt[i].withPool <=> ~pool.pays_sol)

PoolStays == pool'.exists /\ (pool'.pays_sol <=> pool.pays_sol)

LEMMA PoolStaysLockStep ==
    ASSUME TypeInv, pool.exists, NEW l \in Locks, LockStep(l)
    PROVE  PoolStays
<1>1. pool \in PoolRecord
  BY DEF TypeInv, TypeOK
<1>2. ASSUME NEW n, pool' = [pool EXCEPT !.enrolled = n] PROVE PoolStays
  BY <1>1, <1>2 DEF PoolRecord, PoolStays
<1>3. ASSUME NEW n, pool' = [pool EXCEPT !.total_bonus_paid = n] PROVE PoolStays
  BY <1>1, <1>3 DEF PoolRecord, PoolStays
<1>4. ASSUME NEW mode \in Modes, NEW amount \in Amounts, NEW unlock \in UnlockTimes,
             NEW withPool \in BOOLEAN, CreateLockIn(l, mode, amount, unlock, withPool)
      PROVE  PoolStays
  BY <1>2, <1>4 DEF CreateLockIn
<1>5. ASSUME NEW amount \in Amounts, NEW withPool \in BOOLEAN, TopUp(l, amount, withPool)
      PROVE  PoolStays
  BY <1>2, <1>5 DEF TopUp
<1>6. ASSUME NEW withPool \in BOOLEAN, Release(l, withPool) PROVE PoolStays
  <2>1. pool' = pool \/ \E n : pool' = [pool EXCEPT !.enrolled = n]
    BY <1>6 DEF Release, ReleaseCapacity
  <2> QED
    BY <1>2, <2>1 DEF PoolStays
<1>7. ASSUME NEW withPool \in BOOLEAN, ClaimSol(l, withPool) \/ ClaimTokens(l, withPool)
      PROVE  PoolStays
  BY <1>3, <1>7 DEF ClaimSol, ClaimTokens
<1>8. ASSUME pool' = pool PROVE PoolStays
  BY <1>8 DEF PoolStays
<1> QED
  BY <1>4, <1>5, <1>6, <1>7, <1>8, LockStepCases
  DEF ExtendLock, CloseWithdrawn, MigrateLockToCustodial, poolVars

LEMMA PoolStaysStep ==
    ASSUME TypeInv, pool.exists, [Next]_vars
    PROVE  PoolStays
<1>1. pool \in PoolRecord
  BY DEF TypeInv, TypeOK
<1>2. ASSUME pool' = pool PROVE PoolStays
  BY <1>2 DEF PoolStays
<1>3. CASE PoolStep
  <2>1. ASSUME NEW authority \in Admins, NEW capacity \in Capacities,
               NEW duration \in MinDurations, NEW bps \in BonusRates,
               NEW active \in ActiveArgs,
               UpdateBoostPool(authority, capacity, duration, bps, active)
        PROVE  PoolStays
    BY <1>1, <2>1 DEF UpdateBoostPool, PoolRecord, PoolStays
  <2>2. ASSUME NEW funder \in Admins, NEW n \in FundSizes,
               \/ FundBoostPool(funder, n) \/ FundPoolTokens(funder, n)
               \/ WithdrawBoostPool(n) \/ WithdrawBoostPoolTokens(n)
        PROVE  PoolStays
    BY <1>2, <2>2 DEF FundBoostPool, FundPoolTokens, WithdrawBoostPool,
                      WithdrawBoostPoolTokens
  <2> QED
    BY <1>3, <2>1, <2>2, AddressAssumption DEF PoolStep, CreateBoostPool
<1>4. CASE ConfigStep \/ WorldStep \/ UNCHANGED vars
  BY <1>2, <1>4, ConfigStepLeaves, WorldStepLeaves DEF vars, poolVars
<1> QED
  BY <1>3, <1>4, PoolStaysLockStep DEF Next

\* A component that comes to see the pool has read that it exists.
LEMMA PoolSeenStep ==
    ASSUME ClientInv, [ClientNext]_<<vars, clientVars>>
    PROVE  poolSeen' \subseteq poolSeen \/ (pool.exists /\ UNCHANGED vars)
<1>1. CASE ReadStep
  BY <1>1 DEF ReadStep, LoadForm, Leave, Dismiss, LoadPool, Refresh, Load, Marked, readVars
<1>2. ASSUME NEW i \in DOMAIN attempt, SendStep(i) PROVE poolSeen' \subseteq poolSeen
  BY <1>2, SendProgresses DEF ClientInv, Progresses, Progress
<1>3. CASE UNCHANGED clientVars \/ \E l \in Locks, h \in Hooks : \E x : Clicked(h, l, x)
  BY <1>3 DEF Clicked, clientVars, readVars
<1> QED
  BY <1>1, <1>2, <1>3, ClientCases DEF Reads, Leave

LEMMA PoolInvStep ==
    ASSUME ClientInv, PoolInv, [ClientNext]_<<vars, clientVars>>
    PROVE  PoolInv'
<1>1. pool.exists => PoolStays
  BY ClientStepIsStep, PoolStaysStep DEF ClientInv
<1>2. poolSeen' # {} => pool'.exists
  <2>1. CASE poolSeen' \subseteq poolSeen
    BY <1>1, <2>1 DEF PoolInv, PoolStays
  <2>2. CASE pool.exists
    BY <1>1, <2>2 DEF PoolStays
  <2> QED
    BY <2>1, <2>2, PoolSeenStep
<1>3. ASSUME NEW i \in DOMAIN attempt', attempt'[i].poolKnown
      PROVE  /\ pool'.exists
             /\ attempt'[i].op = "claimSol" => (attempt'[i].withPool <=> pool'.pays_sol)
             /\ attempt'[i].op = "claimTokens"
                   => (attempt'[i].withPool <=> ~pool'.pays_sol)
  <2>1. CASE i \in DOMAIN attempt
    <3>1. /\ attempt'[i].op = attempt[i].op /\ attempt'[i].withPool = attempt[i].withPool
          /\ attempt'[i].poolKnown = attempt[i].poolKnown
      BY <2>1, AttemptsStay DEF Stays
    <3> QED
      BY <1>1, <1>3, <2>1, <3>1 DEF PoolInv, PoolStays
  <2>2. CASE i \notin DOMAIN attempt
    <3>1. PICK h \in Hooks, l \in Locks : \E x : Clicked(h, l, x) /\ attempt'[i] = x
      BY <2>2, NewAttempt
    <3>2. PICK x : Clicked(h, l, x) /\ attempt'[i] = x
      BY <3>1
    <3>3. h \in poolSeen /\ pool.exists
      BY <1>3, <3>2 DEF Clicked, PoolInv
    <3>4. /\ x.op = "claimSol" => (x.withPool <=> pool.pays_sol)
          /\ x.op = "claimTokens" => (x.withPool <=> ~pool.pays_sol)
      BY <3>2, <3>3 DEF Clicked, PassesPool
    <3> QED
      BY <1>1, <3>2, <3>3, <3>4 DEF PoolStays
  <2> QED
    BY <2>1, <2>2
<1> QED
  BY <1>2, <1>3 DEF PoolInv

LEMMA PoolInvAlways == ClientSpec => []PoolInv
<1>1. ClientInit => PoolInv
  BY DEF ClientInit, PoolInv
<1>2. ClientInv /\ PoolInv /\ [ClientNext]_<<vars, clientVars>> => PoolInv'
  BY PoolInvStep
<1> QED
  BY <1>1, <1>2, ClientInvAlways, PTL DEF ClientSpec

\* A pool of the other currency owes nothing.
LEMMA SolClaimPaid ==
    ASSUME TypeInv, NEW l \in Locks, NEW withPool \in BOOLEAN, ClaimSol(l, withPool),
           withPool <=> pool.pays_sol
    PROVE  lock'[l].bonus_paid - lock[l].bonus_paid
              = SolBonus(l, RewardPayout(ClaimableSol(VaultAuthority(l))))
<1> DEFINE payout == RewardPayout(ClaimableSol(VaultAuthority(l)))
           bonus  == IF withPool THEN SolBonus(l, payout) ELSE 0
<1>1. /\ TypeOK /\ lock \in [Locks -> LockRecord] /\ lock[l] \in LockRecord
      /\ lock[l].bonus_paid \in Nat
  BY LockFields DEF TypeInv
<1>2. payout \in Nat
  <2>1. ClaimableSol(VaultAuthority(l)) \in Nat
    BY <1>1, AuthorityType, ReserveType
  <2> QED
    BY <2>1, RewardSplit
<1>3. lock' = [lock EXCEPT ![l].sol_rewards_claimed = @ + payout, ![l].bonus_paid = @ + bonus]
  BY DEF ClaimSol
<1>4. SolBonus(l, payout) \in Nat
  BY <1>2, BonusType
<1>5. bonus = SolBonus(l, payout)
  BY DEF SolBonus
<1> HIDE DEF bonus, payout
<1>6. lock'[l].bonus_paid = lock[l].bonus_paid + bonus
  BY <1>1, <1>3 DEF LockRecord
<1>7. lock'[l].bonus_paid - lock[l].bonus_paid = SolBonus(l, payout)
  BY <1>1, <1>4, <1>5, <1>6
<1> QED
  BY <1>7 DEF payout

LEMMA TokenClaimPaid ==
    ASSUME TypeInv, NEW l \in Locks, NEW withPool \in BOOLEAN, ClaimTokens(l, withPool),
           withPool <=> ~pool.pays_sol
    PROVE  lock'[l].bonus_paid - lock[l].bonus_paid
              = TokenBonus(l, RewardPayout(reward[VaultAuthority(l)]))
<1> DEFINE payout == RewardPayout(reward[VaultAuthority(l)])
           bonus  == IF withPool THEN TokenBonus(l, payout) ELSE 0
<1>1. /\ TypeOK /\ lock \in [Locks -> LockRecord] /\ lock[l] \in LockRecord
      /\ lock[l].bonus_paid \in Nat
  BY LockFields DEF TypeInv
<1>2. lock' = [lock EXCEPT ![l].bonus_paid = @ + bonus]
  BY DEF ClaimTokens
<1>3. TokenBonus(l, payout) \in Nat
  BY TokenPayout, BonusType
<1>4. bonus = TokenBonus(l, payout)
  BY DEF TokenBonus, PaysTokens
<1> HIDE DEF bonus, payout
<1>5. lock'[l].bonus_paid = lock[l].bonus_paid + bonus
  BY <1>1, <1>2 DEF LockRecord
<1>6. lock'[l].bonus_paid - lock[l].bonus_paid = TokenBonus(l, payout)
  BY <1>1, <1>3, <1>4, <1>5
<1> QED
  BY <1>6 DEF payout

LEMMA KnownPoolStep ==
    ASSUME ClientInv, PoolInv, [ClientNext]_<<vars, clientVars>>,
           NEW i \in 1..MaxClicks, Claims(i), attempt[i].poolKnown
    PROVE  BonusPaid(i) = BonusOwed(i)
<1> DEFINE x == attempt[i]
           l == x.lock
           payout == RewardPayout(ClaimableSol(VaultAuthority(l)))
           tokens == RewardPayout(reward[VaultAuthority(l)])
<1>1. i \in DOMAIN attempt /\ Executes(i)
  BY AttemptsStay DEF Claims
<1>2. Instruction(x) /\ x \in SoundAttempts /\ TypeInv
  BY <1>1, AttemptParts DEF Executes, Execute, ClientInv
<1>3. /\ x.op = "claimSol" => (x.withPool <=> pool.pays_sol)
      /\ x.op = "claimTokens" => (x.withPool <=> ~pool.pays_sol)
      /\ x.op \in {"claimSol", "claimTokens"} /\ l \in Locks /\ x.withPool \in BOOLEAN
  BY <1>1, <1>2 DEF PoolInv, Claims, SoundAttempts, AttemptRecord
<1>4. /\ BonusPaid(i) = lock'[l].bonus_paid - lock[l].bonus_paid
      /\ x.op = "claimSol" => BonusOwed(i) = SolBonus(l, payout)
      /\ x.op # "claimSol" => BonusOwed(i) = TokenBonus(l, tokens)
  BY DEF BonusPaid, BonusOwed
<1>5. /\ x.op = "claimSol" => ClaimSol(l, x.withPool)
      /\ x.op = "claimTokens" => ClaimTokens(l, x.withPool)
  <2> HIDE DEF x
  <2> QED
    BY <1>2 DEF Instruction, TrustlessInstruction, CustodialInstruction, ClaimSolRewards,
       ClaimSolRewardsCustodial, ClaimTokenRewards, ClaimTokenRewardsCustodial
<1> HIDE DEF x
<1>6. CASE x.op = "claimSol"
  BY <1>2, <1>3, <1>4, <1>5, <1>6, SolClaimPaid
<1>7. CASE x.op = "claimTokens"
  BY <1>2, <1>3, <1>4, <1>5, <1>7, TokenClaimPaid
<1> QED
  BY <1>3, <1>6, <1>7

\* LockCard's choice of the boost pool: who clicked a claim on a card that had read
\* the pool gets all the pool owes when the claim is executed.
THEOREM KnownPoolAlwaysPays == ClientSpec => KnownPoolPays
<1> DEFINE InFull == \A i \in 1..MaxClicks : Claims(i) /\ attempt[i].poolKnown
                                             => BonusPaid(i) = BonusOwed(i)
<1>1. ClientInv /\ PoolInv /\ [ClientNext]_<<vars, clientVars>> => InFull
  BY KnownPoolStep
<1>2. ClientSpec => [][InFull]_<<vars, clientVars>>
  <2> HIDE DEF InFull
  <2> QED
    BY <1>1, ClientInvAlways, PoolInvAlways, PTL DEF ClientSpec
<1> QED
  BY <1>2 DEF KnownPoolPays

-----------------------------------------------------------------------------
\* Capacity

ReleasesKnewPool ==
    \A i \in DOMAIN attempt :
        Executed(i) /\ attempt[i].op = "withdraw" => attempt[i].poolKnown

Boosted == SumOver(live, BoostedOf)

LEMMA BoostedFrame ==
    ASSUME UNCHANGED <<live, lock>>
    PROVE  Boosted' = Boosted
<1>1. BoostedOf' = BoostedOf
  BY DEF BoostedOf
<1> QED
  BY <1>1 DEF Boosted

\* A release without the pool that is also one with it: the two differ in nothing.
ReleasesWithPool(l) == (\E withPool \in BOOLEAN : Release(l, withPool)) => Release(l, TRUE)

\* An instruction changes the pool's count by what it changes of its lock, if it
\* is not a withdrawal without the pool.
LEMMA CapacityLockStep ==
    ASSUME TypeInv, TypeInv', BoostInv, NEW l \in Locks, LockStep(l),
           pool.enrolled = Boosted, ReleasesWithPool(l)
    PROVE  pool'.enrolled = Boosted'
<1> DEFINE part == PartOf(l, live, BoostedOf)
<1>1. PICK rest \in Nat : /\ Boosted = rest + part
                         /\ Boosted' = rest + PartOf(l, live', BoostedOf')
  BY BoostedAround DEF Boosted
<1>2. part \in Nat /\ pool.enrolled \in Nat /\ pool.enrolled = rest + part
  BY <1>1, BoostedPart DEF TypeInv
<1>3. ASSUME NEW n \in Nat, Enrolls(l, n) PROVE pool'.enrolled = Boosted'
  BY <1>1, <1>2, <1>3 DEF Enrolls
<1>4. CASE Release(l, TRUE)
  <2>1. /\ PartOf(l, live', BoostedOf') = 0
        /\ pool'.enrolled = SaturatingSub(pool.enrolled, part)
    BY <1>4, Releases
  <2> HIDE DEF part
  <2>2. SaturatingSub(pool.enrolled, part) = rest
    BY <1>2 DEF SaturatingSub
  <2> QED
    BY <1>1, <2>1, <2>2
<1> QED
  BY <1>3, <1>4, BoostCases DEF ReleasesWithPool

LEMMA CapacityPoolStep ==
    ASSUME TypeInv, BoostInv, pool.enrolled = Boosted, PoolStep
    PROVE  pool'.enrolled = Boosted'
<1>1. Boosted' = Boosted /\ pool \in PoolRecord
  BY PoolStepLeaves, BoostedFrame DEF TypeInv, TypeOK
<1>2. pool'.enrolled = pool.enrolled
  <2>1. ASSUME NEW pays_sol \in PoolKinds, NEW capacity \in Capacities,
               NEW duration \in MinDurations, NEW bps \in BonusRates,
               CreateBoostPool(pays_sol, capacity, duration, bps)
        PROVE  pool'.enrolled = pool.enrolled
    BY <2>1 DEF CreateBoostPool, BoostInv
  <2>2. ASSUME NEW authority \in Admins, NEW capacity \in Capacities,
               NEW duration \in MinDurations, NEW bps \in BonusRates,
               NEW active \in ActiveArgs,
               UpdateBoostPool(authority, capacity, duration, bps, active)
        PROVE  pool'.enrolled = pool.enrolled
    BY <1>1, <2>2 DEF UpdateBoostPool, PoolRecord
  <2>3. ASSUME NEW funder \in Admins, NEW n \in FundSizes,
               \/ FundBoostPool(funder, n) \/ FundPoolTokens(funder, n)
               \/ WithdrawBoostPool(n) \/ WithdrawBoostPoolTokens(n)
        PROVE  pool'.enrolled = pool.enrolled
    BY <2>3 DEF FundBoostPool, FundPoolTokens, WithdrawBoostPool, WithdrawBoostPoolTokens
  <2> QED
    BY <2>1, <2>2, <2>3, AddressAssumption DEF PoolStep
<1> QED
  BY <1>1, <1>2

\* What an attempt other than a withdrawal executes is no release.
LEMMA OnlyWithdrawReleases ==
    ASSUME TypeInv, NEW x \in SoundAttempts, Instruction(x), x.op # "withdraw",
           NEW withPool \in BOOLEAN, Release(x.lock, withPool)
    PROVE  FALSE
<1> DEFINE l == x.lock
<1>1. l \in Locks /\ lock \in [Locks -> LockRecord] /\ lock[l] \in LockRecord
  BY DEF SoundAttempts, AttemptRecord, TypeInv, TypeOK
<1>2. live' = live /\ l \in live /\ ~lock[l].withdrawn
  BY DEF Release, Active
<1>3. lock'[l].withdrawn
  <2>1. lock' = [lock EXCEPT ![l].withdrawn = TRUE, ![l].amount = 0,
                             ![l].boosted_amount = 0]
    BY DEF Release
  <2> QED
    BY <1>1, <2>1 DEF LockRecord
<1> SUFFICES ASSUME Instruction(x), x.op # "withdraw", x.lock = l PROVE FALSE
  OBVIOUS
<1> HIDE DEF l
<1>4. ASSUME NEW mode, NEW amount, NEW unlock, NEW w, CreateLockIn(l, mode, amount, unlock, w)
      PROVE  FALSE
  BY <1>2, <1>4 DEF CreateLockIn
<1>5. ASSUME NEW amount, NEW w, TopUp(l, amount, w) PROVE FALSE
  BY <1>1, <1>2, <1>3, <1>5 DEF TopUp, ToppedUp, LockRecord
<1>6. ASSUME NEW unlock, ExtendLock(l, unlock) PROVE FALSE
  BY <1>1, <1>2, <1>3, <1>6 DEF ExtendLock, LockRecord
<1>7. ASSUME NEW w, ClaimSol(l, w) PROVE FALSE
  BY <1>1, <1>2, <1>3, <1>7 DEF ClaimSol, LockRecord
<1>8. ASSUME NEW w, ClaimTokens(l, w) PROVE FALSE
  BY <1>1, <1>2, <1>3, <1>8 DEF ClaimTokens, LockRecord
<1>9. ASSUME MigrateLockToCustodial(l) PROVE FALSE
  <2>1. PICK balance, payout : lock' = [lock EXCEPT ![l] = Migrated(@, balance, payout)]
    BY <1>9 DEF MigrateLockToCustodial
  <2> QED
    BY <1>1, <1>2, <1>3, <2>1 DEF Migrated, LockRecord
<1>10. ~CloseWithdrawn(l)
  BY <1>2 DEF CloseWithdrawn
<1>11. ~TrustlessInstruction(x)
  BY <1>4, <1>7, <1>8, <1>9, <1>10 DEF TrustlessInstruction, CreateLock, ClaimSolRewards,
     ClaimTokenRewards, CloseLock
<1>12. ~CustodialInstruction(x)
  BY <1>4, <1>7, <1>8, <1>10 DEF CustodialInstruction, CreateLockCustodial,
     ClaimSolRewardsCustodial, ClaimTokenRewardsCustodial, CloseLockCustodial
<1> QED
  BY <1>5, <1>6, <1>11, <1>12 DEF Instruction

\* A withdrawal that is executed without the pool is one that did not know it.
LEMMA ReleaseKnewPool ==
    ASSUME ClientInv, [ClientNext]_<<vars, clientVars>>, ReleasesKnewPool',
           NEW i, Executes(i)
    PROVE  ReleasesWithPool(attempt[i].lock)
<1> DEFINE x == attempt[i]
           l == x.lock
<1>1. i \in DOMAIN attempt /\ Stays(i) /\ Executed(i)' /\ x \in SoundAttempts
  BY AttemptsStay, AttemptParts DEF Executes, ClientInv
<1>2. x.op = "withdraw" => x.withPool
  BY <1>1 DEF Stays, ReleasesKnewPool, SoundAttempts, PoolPassedIfSeen
<1>3. Instruction(x) /\ TypeInv
  BY DEF Executes, Execute, ClientInv
<1> HIDE DEF x
<1>4. CASE x.op = "withdraw"
  <2>1. Release(l, x.withPool)
    BY <1>3, <1>4 DEF Instruction, TrustlessInstruction, CustodialInstruction, Withdraw,
       WithdrawCustodial
  <2>2. x.withPool = TRUE
    BY <1>1, <1>2, <1>4 DEF SoundAttempts, AttemptRecord
  <2> QED
    BY <2>1, <2>2 DEF ReleasesWithPool, x
<1>5. CASE x.op # "withdraw"
  <2>1. \A withPool \in BOOLEAN : ~Release(l, withPool)
    BY <1>1, <1>3, <1>5, OnlyWithdrawReleases
  <2> QED
    BY <2>1 DEF ReleasesWithPool, x
<1> QED
  BY <1>4, <1>5

LEMMA CapacityStep ==
    ASSUME ClientInv, ClientInv', BoostInv, CapacityAccounted,
           [ClientNext]_<<vars, clientVars>>
    PROVE  CapacityAccounted'
<1> SUFFICES ASSUME ReleasesKnewPool' PROVE pool'.enrolled = Boosted'
  BY DEF CapacityAccounted, ReleasesKnewPool, Boosted
<1>1. /\ TypeInv /\ TypeInv' /\ attempt \in Seq(SoundAttempts)
      /\ \A i \in DOMAIN attempt : Stays(i)
  BY AttemptsStay DEF ClientInv
<1>2. ReleasesKnewPool
  BY <1>1 DEF ReleasesKnewPool, Stays, Executed
<1>3. pool.enrolled = Boosted
  BY <1>2 DEF CapacityAccounted, ReleasesKnewPool, Boosted
<1>4. ASSUME UNCHANGED <<pool, live, lock>> PROVE pool'.enrolled = Boosted'
  BY <1>3, <1>4, BoostedFrame
<1>5. CASE UNCHANGED vars
  BY <1>4, <1>5 DEF vars, poolVars
<1>6. CASE \E h \in Hooks : Leave(h)
  BY <1>5, <1>6 DEF Leave
<1>7. ASSUME NEW i \in DOMAIN attempt, SendStep(i) PROVE pool'.enrolled = Boosted'
  <2>1. attempt[i] \in SoundAttempts
    BY <1>1, <1>7, AttemptParts
  <2>2. PICK s \in Steps, f \in Fates : Progress(i, s, f)
    BY <1>1, <1>7, SendProgresses DEF Progresses
  <2>3. CASE Execute(i)
    <3>1. Executes(i)
      <4>1. attempt[i].fate = "pending" /\ attempt'[i].fate = "executed"
        BY <1>1, <1>7, <2>1, <2>3, AttemptParts DEF Execute, Fate, AttemptRecord
      <4> QED
        BY <1>7, <2>3, <4>1 DEF Executes, Executed
    <3>2. ReleasesWithPool(attempt[i].lock)
      BY <3>1, ReleaseKnewPool
    <3>3. attempt[i].lock \in Locks /\ LockStep(attempt[i].lock)
      BY <2>1, <2>3, ExecuteIsLockStep
    <3> QED
      BY <1>1, <1>3, <3>2, <3>3, CapacityLockStep
  <2>4. CASE ~Execute(i)
    BY <1>5, <2>2, <2>4 DEF Progress
  <2> QED
    BY <2>3, <2>4
<1>8. CASE PoolStep
  BY <1>1, <1>3, <1>8, CapacityPoolStep
<1>9. CASE ConfigStep
  BY <1>4, <1>9, ConfigStepLeaves
<1>10. CASE WorldStep
  BY <1>4, <1>10, WorldStepLeaves
<1> QED
  BY <1>5, <1>6, <1>7, <1>8, <1>9, <1>10, ClientCases DEF Reads, Clicked

\* LockCard passes the pool with every withdrawal: as long as each of them was clicked
\* on a card that had read it, the pool counts exactly what the live locks enrolled.
THEOREM CapacityIsAccounted == ClientSpec => []CapacityAccounted
<1>1. ClientInit => CapacityAccounted
  BY SumEmpty DEF ClientInit, Init, CapacityAccounted
<1>2. ClientInv /\ ClientInv' /\ BoostInv /\ CapacityAccounted
      /\ [ClientNext]_<<vars, clientVars>> => CapacityAccounted'
  BY CapacityStep
<1> QED
  BY <1>1, <1>2, ClientInvAlways, ClientUsesProgram, BoostAlways, PTL DEF ClientSpec

=============================================================================
