-------------------------- MODULE ClientProperties --------------------------
(***************************************************************************)
(* What LockClient should guarantee to those who use the site, although    *)
(* its components act on what they read earlier and the network loses,     *)
(* delays and drops transactions.                                          *)
(***************************************************************************)
EXTENDS LockClient, LockerProperties

\* What the components, the hooks and the attempts hold has its type, and an attempt
\* that never reached the network was not executed.
ClientTypeOK ==
    /\ card \in [Locks -> CardRecord \cup {Unknown}]
    /\ form \in FormRecord \cup {Unknown}
    /\ poolSeen \subseteq Hooks /\ solSeen \subseteq Locks /\ rewardSeen \subseteq Locks
    /\ status \in [Hooks -> {"idle", "signing", "confirming", "done", "error"}]
    /\ DOMAIN attempt = 1..Len(attempt)
    /\ \A i \in DOMAIN attempt :
          /\ attempt[i] \in AttemptRecord
          /\ attempt[i].fate # "unsent" => attempt[i].step \in {"confirming", "over"}

\* A stale card is wrong on the safe side only: what it shows as unlocked may have
\* been extended, but what it shows as locked, as trustless or as not withdrawn has
\* never moved the other way, so that no button the owner needs is missing from it
\* (LockCard keeps the lock it was given until it is loaded again).
StaleCardIsSafe ==
    \A l \in live : card[l] # Unknown =>
        /\ card[l].unlock_ts <= lock[l].unlock_ts
        /\ card[l].withdrawn => lock[l].withdrawn
        /\ card[l].custodial => lock[l].custodial

Executed(i) == attempt[i].fate = "executed"

\* "done" is shown only by a hook one of whose transactions the chain has executed,
\* and the form's "Lock created" only for a creation: never after a failure, an
\* expiry, or because of the second of two overlapping clicks.
DoneMeansExecuted ==
    \A h \in Hooks : status[h] = "done" =>
        \E i \in DOMAIN attempt :
            /\ Executed(i) /\ attempt[i].hook = h
            /\ h = Form => attempt[i].op = "create"

\* The pool counts exactly the boosted amounts of the live locks as long as every
\* withdrawal so far was clicked on a card that had read the pool, whichever asset
\* the pool pays in: only a failed or unfinished read of the pool leaks capacity.
CapacityAccounted ==
    (\A i \in DOMAIN attempt :
        Executed(i) /\ attempt[i].op = "withdraw" => attempt[i].poolKnown)
    => pool.enrolled = SumOver(live, BoostedOf)

\* The bonus that the pool owes, of those funds it has, for a claim of attempt i.
BonusOwed(i) ==
    LET l == attempt[i].lock
    IN  IF attempt[i].op = "claimSol"
        THEN SolBonus(l, RewardPayout(ClaimableSol(VaultAuthority(l))))
        ELSE TokenBonus(l, RewardPayout(reward[VaultAuthority(l)]))

Claims(i) ==
    /\ i \in DOMAIN attempt /\ attempt[i].op \in {"claimSol", "claimTokens"}
    /\ ~Executed(i) /\ Executed(i)'

BonusPaid(i) ==
    LET l == attempt[i].lock IN lock'[l].bonus_paid - lock[l].bonus_paid

\* A claim clicked on a card that had read the pool gets the whole bonus that the
\* pool owes when the claim is executed, however late that is and whatever the pool's
\* authority changed in between.
KnownPoolPays ==
    [][\A i \in 1..MaxClicks : Claims(i) /\ attempt[i].poolKnown
          => BonusPaid(i) = BonusOwed(i)]_<<vars, clientVars>>

\* A component that waits for a confirmation stops waiting, executed or not, so that
\* its buttons come back (useSendTx asks for the signature and the block height).
Settles == \A h \in Hooks : status[h] = "confirming" ~> status[h] # "confirming"
=============================================================================
