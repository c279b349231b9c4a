-------------------------- MODULE MCPushIdRefresh --------------------------
(***************************************************************************)
(* Instances of PushIdRefresh for TLC: all requests are of one client.     *)
(***************************************************************************)
EXTENDS PushIdRefresh

CONSTANTS c1

MCClientOf == [q \in Reqs |-> c1]

=============================================================================
