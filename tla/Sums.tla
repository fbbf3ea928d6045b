-------------------------------- MODULE Sums --------------------------------
(***************************************************************************)
(* The sum of a balance over a set of accounts.  LockerMathProofs shows    *)
(* that it is what one expects for every finite set.                       *)
(***************************************************************************)
EXTENDS FiniteSetsExt

SumOver(S, balance) == MapThenSumSet(LAMBDA x : balance[x], S)
=============================================================================
