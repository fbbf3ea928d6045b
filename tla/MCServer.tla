------------------------------ MODULE MCServer ------------------------------
(***************************************************************************)
(* Instances of Server for TLC.                                            *)
(***************************************************************************)
EXTENDS Server

CONSTANTS l1, l2, r1, r2

Slots == Permutations({r1, r2}) \cup Permutations({l1, l2})

\* Bound: beside one request for the locks, the chain changes MaxChanges times; beside
\* two, which meet in the cache only, it changes once.
Together == (\A r \in ApiReqs : apiReq[r].stage # "idle") => changes <= 1
=============================================================================
