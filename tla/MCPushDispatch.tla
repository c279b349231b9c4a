--------------------------- MODULE MCPushDispatch ---------------------------
(***************************************************************************)
(* Instances of PushDispatch for TLC: two clients' requests that reach     *)
(* different servers.                                                      *)
(***************************************************************************)
EXTENDS PushDispatch

CONSTANTS r1, r2, c1, c2, v1, v2, v3

MCPushTo == [r \in Requests |-> IF r = r2 THEN c2 ELSE c1]
MCEntry == [r \in Requests |-> IF r = r2 THEN v2 ELSE v1]

\* No server id contains another.
DistinctIds == {<<s, s>> : s \in Servers}

\* Say, 10.0.0.1:9090 (v1) and 110.0.0.1:9090 (v2).
OverlappingIds == DistinctIds \cup {<<v2, v1>>}

=============================================================================
