------------------------------ MODULE MCLocker ------------------------------
(***************************************************************************)
(* Instances of LockerProperties for TLC.  The MC*.cfg files give the      *)
(* constants; basis points are scaled down to quarters, so that small      *)
(* rewards are split, and rounded, in every way.                           *)
(***************************************************************************)
EXTENDS LockerProperties, TLC

CONSTANTS l1, l2, alice, bob

ASSUME OwnersAreNoTreasuries ==
    Owners \cap Treasuries = {} /\ Admins \cap Treasuries = {} /\ Owners \cap Admins = {}

\* alice owns every lock, or alice owns l1 and bob the others.
OwnedByAlice == [l \in Locks |-> alice]
OwnedByBoth  == [l \in Locks |-> IF l = l1 THEN alice ELSE bob]

\* Owners are interchangeable together with their locks.
OwnersAlike ==
    {p \in Permutations(Locks \cup Owners) :
        \A l \in Locks : p[l] \in Locks /\ OwnerOf[p[l]] = p[OwnerOf[l]]}
=============================================================================
