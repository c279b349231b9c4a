---------------------------- MODULE PushPromise -----------------------------
(***************************************************************************)
(* What the push API promises an application, without saying how: a        *)
(* request is answered once; a stored request is forgotten only when it    *)
(* was refused, when nobody asked to be told, or when an outcome was       *)
(* reported or every attempt to report one was made; at most one ack is    *)
(* reported, and nothing is reported of a request that was refused.        *)
(* PushDelivery implements this specification.                             *)
(***************************************************************************)
CONSTANTS
    Requests,     \* push requests
    Acks,         \* ack messages a client may send for a request
    Kinds,        \* what may be reported: an ack, a timeout, a failure
    WithCallback  \* the requests whose outcome is to be reported

VARIABLES
    stored,   \* request -> is it in the table?
    answer,   \* request -> "pending" | "ok" | "refused", as told to the caller
    told,     \* request -> outcomes that were reported
    spent     \* request -> has the last attempt to report an outcome been made?

vars == <<stored, answer, told, spent>>

Init ==
    /\ stored = [r \in Requests |-> FALSE]
    /\ answer = [r \in Requests |-> "pending"]
    /\ told = [r \in Requests |-> {}]
    /\ spent = [r \in Requests |-> FALSE]

\* The request is written to the table.
Store(r) ==
    /\ answer[r] = "pending" /\ ~stored[r]
    /\ stored' = [stored EXCEPT ![r] = TRUE]
    /\ UNCHANGED <<answer, told, spent>>

\* The caller gets its answer; only a stored request is accepted.
Answer(r) ==
    /\ answer[r] = "pending"
    /\ \/ stored[r] /\ answer' = [answer EXCEPT ![r] = "ok"]
       \/ answer' = [answer EXCEPT ![r] = "refused"]
    /\ UNCHANGED <<stored, told, spent>>

\* An outcome is reported to the application, an ack at most once.
Report(r, k) ==
    /\ answer[r] = "ok" /\ r \in WithCallback
    /\ k \in Acks => told[r] \cap Acks \subseteq {k}
    /\ told' = [told EXCEPT ![r] = @ \cup {k}]
    /\ UNCHANGED <<stored, answer, spent>>

\* The last attempt to report some outcome is made.
LastAttempt(r) ==
    /\ answer[r] = "ok" /\ r \in WithCallback
    /\ spent' = [spent EXCEPT ![r] = TRUE]
    /\ UNCHANGED <<stored, answer, told>>

\* The request is deleted from the table.
Forget(r) ==
    /\ \/ answer[r] = "refused"
       \/ answer[r] = "ok" /\ (r \in WithCallback => told[r] # {} \/ spent[r])
    /\ stored' = [stored EXCEPT ![r] = FALSE]
    /\ UNCHANGED <<answer, told, spent>>

Next ==
    \E r \in Requests :
        \/ Store(r) \/ Answer(r) \/ LastAttempt(r) \/ Forget(r)
        \/ \E k \in Kinds : Report(r, k)

Spec == Init /\ [][Next]_vars

=============================================================================
