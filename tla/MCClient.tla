------------------------------ MODULE MCClient ------------------------------
(***************************************************************************)
(* Instances of ClientProperties for TLC: one owner and her browser.       *)
(***************************************************************************)
EXTENDS ClientProperties

CONSTANTS l1, alice

OwnedByAlice == [l \in Locks |-> alice]
=============================================================================
