------------------------- MODULE MCClientRegistry --------------------------
(***************************************************************************)
(* Instances of ClientRegistry for TLC: one client that connects to        *)
(* worker 1 and again to worker 2 under its first push id, and to worker 2 *)
(* under a refreshed one.                                                  *)
(***************************************************************************)
EXTENDS ClientRegistry

CONSTANTS c1, p1, p2, w1, w2, n1, n2, n3

MCClientOf == [p \in PushIds |-> c1]
MCPushIdOf == [n \in Conns |-> IF n = n3 THEN p2 ELSE p1]
MCWorkerOf == [n \in Conns |-> IF n = n1 THEN w1 ELSE w2]

=============================================================================
