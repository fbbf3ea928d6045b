----------------------------- MODULE LockClient -----------------------------
(***************************************************************************)
(* The web client of HolderLocker: the form that creates locks             *)
(* (CreateLockForm), the card of a lock (LockCard), the hook through which *)
(* each of them sends (useSendTx), the co-signing service (custody.ts) and *)
(* the network between them and the program.                               *)
(*                                                                         *)
(* A component acts on what it read earlier.  An attempt is one click: the *)
(* instruction is built from what the component holds then, and is signed, *)
(* sent, executed and confirmed later, in separate steps.  What the chain  *)
(* does with a transaction and what the component is told about it are two *)
(* things.  A component is busy only once its transaction is being signed, *)
(* so a second click while the first instruction is built is possible.     *)
(*                                                                         *)
(* The locks change only through this client here; everything else of      *)
(* HolderLocker (configuration, pool, clock, payments) happens as there.   *)
(* The wallet's own balance, as read by the form, may be any.              *)
(***************************************************************************)
EXTENDS HolderLocker, Sequences

CONSTANTS
    Form,        \* the hook of the form; a card's hook is named like its lock
    Gone,        \* the hook of a component that was left
    Unknown,     \* not read yet, or not shown
    MaxClicks    \* bound of the attempts

Hooks == Locks \cup {Form}

ASSUME HookAssumption == Form \notin Locks /\ Gone \notin Hooks

VARIABLES
    card,        \* what the card of a lock was given: its lock, the config's treasury
    form,        \* what the form read of the config
    poolSeen,    \* components whose boost is not null
    solSeen,     \* locks whose card shows SOL to claim
    rewardSeen,  \* locks whose card shows tokens to claim
    attempt,     \* the clicks so far
    status       \* TxState of each hook

readVars == <<card, form, poolSeen, solSeen, rewardSeen>>
clientVars == <<readVars, attempt, status>>

CardRecord == [withdrawn : BOOLEAN, custodial : BOOLEAN, unlock_ts : Int,
               treasury : Treasuries]

FormRecord == [treasury : Treasuries, paused : BOOLEAN]

CardOperations == {"claimSol", "claimTokens", "withdraw", "migrate", "close"}

Operations == CardOperations \cup {"create", "topUp", "extend"}

\* What the component is doing with an attempt, and what the chain did with it.
Steps == {"building", "signing", "confirming", "over"}
Fates == {"unsent", "pending", "executed", "failed", "expired"}

AttemptRecord == [step : Steps, fate : Fates, hook : Hooks \cup {Gone},
                  op : Operations, lock : Locks, amount : Nat, unlock : Int,
                  custodial : BOOLEAN, treasury : Treasuries, withPool : BOOLEAN,
                  poolKnown : BOOLEAN]

-----------------------------------------------------------------------------
\* What the components read

\* A page shows the card, or loads it again: after a transaction, or on demand.
Load(l) ==
    /\ l \in live
    /\ card' = [card EXCEPT ![l] = [withdrawn |-> lock[l].withdrawn,
                                    custodial |-> lock[l].custodial,
                                    unlock_ts |-> lock[l].unlock_ts,
                                    treasury  |-> config.treasury]]
    /\ UNCHANGED <<vars, form, poolSeen, solSeen, rewardSeen, attempt, status>>

LoadForm ==
    /\ form = Unknown /\ config.initialized
    /\ form' = [treasury |-> config.treasury, paused |-> config.paused]
    /\ UNCHANGED <<vars, card, poolSeen, solSeen, rewardSeen, attempt, status>>

\* A component goes away: the page is left, or a load finds the lock closed.  What
\* was clicked goes on, or does not, and has nobody to tell.
Leave(h) ==
    /\ h \in Locks => card[h] # Unknown
    /\ card' = IF h = Form THEN card ELSE [card EXCEPT ![h] = Unknown]
    /\ form' = IF h = Form THEN Unknown ELSE form
    /\ poolSeen' = poolSeen \ {h}
    /\ solSeen' = solSeen \ {h} /\ rewardSeen' = rewardSeen \ {h}
    /\ attempt' = [i \in DOMAIN attempt |->
                      [attempt[i] EXCEPT !.hook = IF @ = h THEN Gone ELSE @]]
    /\ status' = [status EXCEPT ![h] = "idle"]
    /\ UNCHANGED vars

Marked(marks, h, shown) == IF shown THEN marks \cup {h} ELSE marks \ {h}

\* The form reads the pool of the selected token; a failed read is no pool.
LoadPool(poolRead) ==
    /\ poolSeen' = Marked(poolSeen, Form, poolRead /\ pool.exists)
    /\ UNCHANGED <<vars, card, form, solSeen, rewardSeen, attempt, status>>

SeenAuthority(l) == <<l, IF card[l].custodial THEN "holder" ELSE "pda">>

\* The card reads, every 30 seconds, what lies on the authority it knows, and the
\* pool.  A failed read of tokens or pool shows none; without the lamports the
\* whole refresh is dropped.
Refresh(l, tokensRead, poolRead) ==
    /\ card[l] # Unknown
    /\ solSeen' = Marked(solSeen, l, ClaimableSol(SeenAuthority(l)) > 0)
    /\ rewardSeen' = Marked(rewardSeen, l, tokensRead /\ reward[SeenAuthority(l)] > 0)
    /\ poolSeen' = Marked(poolSeen, l, poolRead /\ pool.exists)
    /\ UNCHANGED <<vars, card, form, attempt, status>>

-----------------------------------------------------------------------------
\* Clicks

Busy(h) == status[h] \in {"signing", "confirming"}

\* Mutant: a withdrawal passes the pool only if it pays SOL, as a SOL claim does.
PoolThatPays(h, op) ==
    /\ h \in poolSeen
    /\ \/ op \in {"create", "topUp"}
       \/ op \in {"claimSol", "withdraw"} /\ pool.pays_sol
       \/ op = "claimTokens" /\ ~pool.pays_sol

\* Mutant: the pool is passed with claims of what it does not pay.
PoolOfOtherAsset(h, op) ==
    /\ h \in poolSeen
    /\ \/ op \in {"create", "topUp", "withdraw"}
       \/ op = "claimSol" /\ ~pool.pays_sol
       \/ op = "claimTokens" /\ pool.pays_sol

\* Is the boost pool passed?  With a claim only if it pays what is claimed.
PassesPool(h, op) ==
    /\ h \in poolSeen
    /\ \/ op \in {"create", "topUp", "withdraw"}
       \/ op = "claimSol" /\ pool.pays_sol
       \/ op = "claimTokens" /\ ~pool.pays_sol

Click(h, op, l, amount, unlock, custodial, treasury) ==
    /\ ~Busy(h) /\ Len(attempt) < MaxClicks
    /\ attempt' = Append(attempt,
           [step |-> "building", fate |-> "unsent", hook |-> h, op |-> op, lock |-> l,
            amount |-> amount, unlock |-> unlock, custodial |-> custodial,
            treasury |-> treasury, withPool |-> PassesPool(h, op),
            poolKnown |-> h \in poolSeen])
    /\ UNCHANGED <<vars, readVars, status>>

\* The id of a new lock is the time of the click: no address is used twice.
Fresh(l) == l \notin live /\ \A i \in DOMAIN attempt : attempt[i].lock # l

Submit(l, amount, unlock, custodial) ==
    /\ form # Unknown /\ ~form.paused
    /\ amount > 0 /\ unlock > now /\ Fresh(l)
    /\ Click(Form, "create", l, amount, unlock, custodial, form.treasury)

\* The card's press of a button; the treasury is that of the config it was given.
Press(l, op, amount, unlock) ==
    /\ card[l] # Unknown
    /\ Click(l, op, l, amount, unlock, card[l].custodial, card[l].treasury)

PressClaimSol(l) == l \in solSeen /\ Press(l, "claimSol", 0, 0)

PressClaimTokens(l) == l \in rewardSeen /\ Press(l, "claimTokens", 0, 0)

ShowsLocked(l) == card[l] # Unknown /\ ~card[l].withdrawn

\* The card has passed the unlock time it knows, by the clock of the browser.
ShowsUnlocked(l) == now >= card[l].unlock_ts

PressWithdraw(l) == ShowsLocked(l) /\ ShowsUnlocked(l) /\ Press(l, "withdraw", 0, 0)

PressMigrate(l) ==
    ShowsLocked(l) /\ ~card[l].custodial /\ Press(l, "migrate", 0, 0)

PressClose(l) ==
    card[l] # Unknown /\ card[l].withdrawn /\ Press(l, "close", 0, 0)

PressExtend(l, unlock) ==
    ShowsLocked(l) /\ unlock > card[l].unlock_ts /\ Press(l, "extend", 0, unlock)

PressTopUp(l, amount) ==
    ShowsLocked(l) /\ amount > 0 /\ Press(l, "topUp", amount, 0)

-----------------------------------------------------------------------------
\* useSendTx

\* setState of a component that was left changes nothing.
Shown(i, s) ==
    status' = [h \in Hooks |-> IF attempt[i].hook = h THEN s ELSE status[h]]

\* Mutant: an attempt can start again.
MovesFromAnywhere(i, from, step) == attempt' = [attempt EXCEPT ![i].step = step]

Moves(i, from, step) ==
    /\ attempt[i].step = from
    /\ attempt' = [attempt EXCEPT ![i].step = step]

\* The instruction is built; send starts.
Build(i) ==
    /\ Moves(i, "building", "signing") /\ Shown(i, "signing")
    /\ UNCHANGED <<vars, readVars>>

\* The builder throws (the holder cannot be fetched): nothing is shown.
BuildFails(i) ==
    Moves(i, "building", "over") /\ UNCHANGED <<vars, readVars, status>>

\* Does the transaction go through the co-signing service?
NeedsCoSign(x) == x.op = "migrate" \/ (x.custodial /\ x.op \notin {"topUp", "extend"})

\* coSign: only these instructions, with the lock and its holder as a signer.
CoSigned(x) == x.op \in {"create", "migrate", "withdraw", "claimSol", "claimTokens", "close"}

\* Signed, by the service if need be and by the wallet, and accepted by the network.
Send(i) ==
    /\ attempt[i].step = "signing"
    /\ NeedsCoSign(attempt[i]) => CoSigned(attempt[i])
    /\ attempt' = [attempt EXCEPT ![i].step = "confirming", ![i].fate = "pending"]
    /\ Shown(i, "confirming")
    /\ UNCHANGED <<vars, readVars>>

\* The service or the wallet refuses, or the simulation before sending fails.
NotSent(i) ==
    /\ Moves(i, "signing", "over") /\ Shown(i, "error")
    /\ UNCHANGED <<vars, readVars>>

\* The network has the transaction, but its answer is lost.
SentUnheard(i) ==
    /\ attempt[i].step = "signing"
    /\ NeedsCoSign(attempt[i]) => CoSigned(attempt[i])
    /\ attempt' = [attempt EXCEPT ![i].step = "over", ![i].fate = "pending"]
    /\ Shown(i, "error")
    /\ UNCHANGED <<vars, readVars>>

\* Mutant: the error of a failed transaction is not looked at.
ConfirmsLanded(fate) == fate \in {"executed", "failed"}

ConfirmsOk(fate) == fate = "executed"

\* The form then forgets the token, and with it the pool.
Confirmed(i) ==
    /\ ConfirmsOk(attempt[i].fate)
    /\ Moves(i, "confirming", "over") /\ Shown(i, "done")
    /\ poolSeen' = IF attempt[i].hook = Form THEN poolSeen \ {Form} ELSE poolSeen
    /\ UNCHANGED <<vars, card, form, solSeen, rewardSeen>>

\* Mutant: the confirmation waits for the signature only, not for the block height.
HasFailed(fate) == fate = "failed"

HasFailedOrExpired(fate) == fate \in {"failed", "expired"}

NotConfirmed(i) ==
    /\ HasFailedOrExpired(attempt[i].fate)
    /\ Moves(i, "confirming", "over") /\ Shown(i, "error")
    /\ UNCHANGED <<vars, readVars>>

\* The connection fails while waiting, whatever became of the transaction.
GivesUp(i) ==
    /\ Moves(i, "confirming", "over") /\ Shown(i, "error")
    /\ UNCHANGED <<vars, readVars>>

Dismiss(h) ==
    /\ status[h] \in {"done", "error"}
    /\ status' = [status EXCEPT ![h] = "idle"]
    /\ UNCHANGED <<vars, readVars, attempt>>

-----------------------------------------------------------------------------
\* The network executes a transaction at most once, or drops it.

TrustlessInstruction(x) ==
    \/ x.op = "create" /\ CreateLock(x.lock, x.amount, x.unlock, x.withPool)
    \/ x.op = "withdraw" /\ Withdraw(x.lock, x.withPool)
    \/ x.op = "claimSol" /\ ClaimSolRewards(x.lock, x.withPool)
    \/ x.op = "claimTokens" /\ ClaimTokenRewards(x.lock, x.withPool)
    \/ x.op = "migrate" /\ MigrateLockToCustodial(x.lock)
    \/ x.op = "close" /\ CloseLock(x.lock)

CustodialInstruction(x) ==
    \/ x.op = "create" /\ CreateLockCustodial(x.lock, x.amount, x.unlock, x.withPool)
    \/ x.op = "withdraw" /\ WithdrawCustodial(x.lock, x.withPool)
    \/ x.op = "claimSol" /\ ClaimSolRewardsCustodial(x.lock, x.withPool)
    \/ x.op = "claimTokens" /\ ClaimTokenRewardsCustodial(x.lock, x.withPool)
    \/ x.op = "close" /\ CloseLockCustodial(x.lock)

\* The accounts named when the instruction was built must be those of today.
Instruction(x) ==
    /\ x.op \in {"create", "claimSol", "claimTokens", "migrate", "close"} =>
          x.treasury = config.treasury
    /\ \/ ~x.custodial /\ TrustlessInstruction(x)
       \/ x.custodial /\ CustodialInstruction(x)
       \/ x.op = "topUp" /\ x.custodial = lock[x.lock].custodial
                         /\ TopUp(x.lock, x.amount, x.withPool)
       \/ x.op = "extend" /\ ExtendLock(x.lock, x.unlock)

Fate(i, fate) ==
    /\ attempt[i].fate = "pending"
    /\ attempt' = [attempt EXCEPT ![i].fate = fate]

Execute(i) == Fate(i, "executed") /\ Instruction(attempt[i]) /\ UNCHANGED <<readVars, status>>

FailOnChain(i) == Fate(i, "failed") /\ UNCHANGED <<vars, readVars, status>>

Expire(i) == Fate(i, "expired") /\ UNCHANGED <<vars, readVars, status>>

-----------------------------------------------------------------------------
ClientInit ==
    /\ Init
    /\ card = [l \in Locks |-> Unknown]
    /\ form = Unknown
    /\ poolSeen = {} /\ solSeen = {} /\ rewardSeen = {}
    /\ attempt = <<>>
    /\ status = [h \in Hooks |-> "idle"]

ReadStep ==
    \/ LoadForm
    \/ \E h \in Hooks : Leave(h) \/ Dismiss(h)
    \/ \E poolRead \in BOOLEAN :
          \/ LoadPool(poolRead)
          \/ \E l \in Locks, tokensRead \in BOOLEAN : Refresh(l, tokensRead, poolRead)
    \/ \E l \in Locks : Load(l)

ClickStep(l) ==
    \/ \E amount \in Amounts : PressTopUp(l, amount)
    \/ \E unlock \in UnlockTimes :
          \/ PressExtend(l, unlock)
          \/ \E amount \in Amounts, custodial \in BOOLEAN :
                Submit(l, amount, unlock, custodial)
    \/ PressClaimSol(l) \/ PressClaimTokens(l) \/ PressWithdraw(l)
    \/ PressMigrate(l) \/ PressClose(l)

SendStep(i) ==
    \/ Build(i) \/ BuildFails(i) \/ Send(i) \/ NotSent(i) \/ SentUnheard(i)
    \/ Confirmed(i) \/ NotConfirmed(i) \/ GivesUp(i)
    \/ Execute(i) \/ FailOnChain(i) \/ Expire(i)

ClientNext ==
    \/ ReadStep
    \/ \E l \in Locks : ClickStep(l)
    \/ \E i \in DOMAIN attempt : SendStep(i)
    \/ (ConfigStep \/ PoolStep \/ WorldStep) /\ UNCHANGED clientVars

ClientSpec == ClientInit /\ [][ClientNext]_<<vars, clientVars>>

\* Blocks are produced, so a transaction is executed or expires; and the hook hears
\* of it, because it asks for the signature and for the block height.
ClientFairness ==
    \A i \in 1..MaxClicks :
        /\ WF_<<vars, clientVars>>(i \in DOMAIN attempt /\ Expire(i))
        /\ WF_<<vars, clientVars>>(i \in DOMAIN attempt /\ (Confirmed(i) \/ NotConfirmed(i)))

LiveClientSpec == ClientSpec /\ ClientFairness
=============================================================================
