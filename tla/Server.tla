------------------------------- MODULE Server -------------------------------
(***************************************************************************)
(* The web server: the throttle of the signing route, the cache of the     *)
(* token metadata and the cache of the locks API, in one process, which    *)
(* may be restarted.  They share nothing but the process and its clock, so *)
(* that a behaviour exercises one of the routes and leaves the others as   *)
(* they are.                                                               *)
(***************************************************************************)
EXTENDS SignThrottle, MetaCache, LocksApi

VARIABLE route

serverVars == <<now, route, signVars, metaVars, apiVars>>

ServerInit ==
    /\ now = 0
    /\ route \in {"sign", "token", "locks"}
    /\ SignInit /\ MetaInit /\ ApiInit

ServerNext ==
    \/ route = "sign"  /\ SignNext /\ UNCHANGED <<metaVars, apiVars, route>>
    \/ route = "token" /\ MetaNext /\ UNCHANGED <<signVars, apiVars, route>>
    \/ route = "locks" /\ ApiNext  /\ UNCHANGED <<signVars, metaVars, route>>

ServerSpec == ServerInit /\ [][ServerNext]_serverVars
=============================================================================
