---------------------------- MODULE ServerClock ----------------------------
(***************************************************************************)
(* The clock of the web server's process, Date.now(), which its throttle   *)
(* and its caches compare with the times that they keep.                   *)
(***************************************************************************)
EXTENDS Naturals

CONSTANT MaxTime    \* bound: the clock stops here

VARIABLE now

Tick == now < MaxTime /\ now' = now + 1
=============================================================================
