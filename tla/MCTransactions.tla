--------------------------- MODULE MCTransactions ---------------------------
(***************************************************************************)
(* Instances of TransactionProperties for TLC.  The locks, and the         *)
(* secrets, are interchangeable.                                           *)
(***************************************************************************)
EXTENDS TransactionProperties, TLC

\* Bounds: beside two locks there is no pool and no script, and beside a caller's
\* transaction no pool, and of the scripts the one that registers an authority.
Apart ==
    /\ (\A l \in Locks : At(l).stage # "free") =>
          /\ ledger.pool = "none" /\ tx["script"] = NoTx
          /\ secret # NoSecret
    /\ tx["browser"].handMade =>
          /\ ledger.pool = "none"
          /\ \A ix \in Instructions(tx["script"]) : ix.name = "setCustodyAuthority"

Interchangeable == Permutations(Locks) \cup Permutations(Secrets)
=============================================================================
