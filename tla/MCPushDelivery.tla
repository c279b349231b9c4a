-------------------------- MODULE MCPushDelivery ---------------------------
(***************************************************************************)
(* Instances of PushDelivery for TLC.  One client and three listen         *)
(* requests: two accepted by worker 1, so that a reconnection replaces a   *)
(* session, and one by worker 2.                                           *)
(***************************************************************************)
EXTENDS PushDelivery

CONSTANTS r1, r2, c1, w1, w2, s1, s2, s3, a1, a2, a3

\* Every request goes to the one client.
MCPushTo == [r \in Requests |-> c1]
MCClientOf == [s \in Sessions |-> c1]
MCWorkerOf == [s \in Sessions |-> IF s = s3 THEN w2 ELSE w1]

\* One ack per connection; the first two reach the same worker, where they are
\* looked up by client id and so count as a repeated ack.
MCAckVia == [a \in Acks |-> CASE a = a1 -> s1 [] a = a2 -> s2 [] a = a3 -> s3]

=============================================================================
