---------------------------- MODULE PushIdRefresh ----------------------------
(***************************************************************************)
(* Push ids and their validity: register, refresh and listen requests      *)
(* (src/src/api/v2) against the refresh counts and the revoked ids that    *)
(* all workers and servers share in MySQL                                  *)
(* (src/src/persistence/mysqlblacklist.coffee).                            *)
(*                                                                         *)
(* A push id is a hash of the client id, a salt and the refresh count      *)
(* (src/src/model/clientpushid.coffee), so for one client it is            *)
(* represented by the count.  Every check and every update is a query of   *)
(* its own; handlers of one client run concurrently, in any worker.        *)
(***************************************************************************)
EXTENDS Naturals, FiniteSets

CONSTANTS
    Clients,
    Refreshes,   \* refresh requests
    Listens,     \* listen requests
    ClientOf,    \* request -> the client in its authorization header
    Faults       \* may queries fail, or a worker exit with its requests?

Reqs == Refreshes \cup Listens

ASSUME RefreshAssumption ==
    /\ IsFiniteSet(Refreshes)
    /\ Refreshes \cap Listens = {}
    /\ ClientOf \in [Reqs -> Clients]
    /\ Faults \in BOOLEAN

VARIABLES
    count,      \* client -> refresh_count row; 0 if there is none
    revClient,  \* revoked_client_id
    revPush,    \* revoked_push_id: pairs of client and count
    issued,     \* client -> the push ids (counts) it was given
    pc,         \* request -> the next step of its handler
    pid,        \* request -> the push id it presents
    floor,      \* request -> count[ClientOf] when it arrived (history)
    barred,     \* requests that arrived with a revoked client or push id (history)
    hurt        \* clients one of whose refreshes failed after its increment (history)

tables == <<count, revClient, revPush>>
hist == <<floor, barred, hurt>>
vars == <<tables, issued, pc, pid, hist>>

\* No more increments than refresh requests.
Counts == 0 .. Cardinality(Refreshes)

TypeOK ==
    /\ count \in [Clients -> Counts]
    /\ revClient \subseteq Clients
    /\ revPush \subseteq Clients \X Counts
    /\ issued \in [Clients -> SUBSET Counts]
    /\ pc \in [Reqs -> {"idle", "client", "pushid", "revoked", "find", "create",
                        "increment", "read", "done", "refused"}]
    /\ pid \in [Reqs -> Counts]
    /\ floor \in [Reqs -> Counts]
    /\ barred \subseteq Reqs
    /\ hurt \subseteq Clients

Init ==
    /\ count = [c \in Clients |-> 0]
    /\ revClient = {}
    /\ revPush = {}
    /\ issued = [c \in Clients |-> {}]
    /\ pc = [q \in Reqs |-> "idle"]
    /\ pid = [q \in Reqs |-> 0]
    /\ floor = [q \in Reqs |-> 0]
    /\ barred = {}
    /\ hurt = {}

Goto(q, l) == pc' = [pc EXCEPT ![q] = l]

-----------------------------------------------------------------------------
\* Register.handle: a fresh client id with the push id of count 0.
Register(c) ==
    /\ issued[c] = {}
    /\ issued' = [issued EXCEPT ![c] = {0}]
    /\ UNCHANGED <<tables, pc, pid, hist>>

\* revokeClientId of the storage; a second insert fails on the primary key.
SaveRevokedClientId(c) == revClient' = revClient \cup {c}

\* clientid is unique in revoked_push_id, so only one push id of a client can
\* ever be revoked.
FirstRevocation(c) == \A x \in revPush : x[1] # c

\* revokePushId of the storage; a second insert is an error.
SaveRevokedPushId(c, k) ==
    /\ FirstRevocation(c)
    /\ revPush' = revPush \cup {<<c, k>>}

\* Admin.revokeClientId.
RevokeClientId(c) ==
    /\ issued[c] # {}
    /\ SaveRevokedClientId(c)
    /\ UNCHANGED <<count, revPush, issued, pc, pid, hist>>

\* Admin.revokePushId.
RevokePushId(c, k) ==
    /\ k \in issued[c]
    /\ SaveRevokedPushId(c, k)
    /\ UNCHANGED <<count, revClient, issued, pc, pid, hist>>

\* A request arrives with one of the push ids the client was given.
Arrive(q, k) ==
    LET c == ClientOf[q] IN
    /\ pc[q] = "idle"
    /\ k \in issued[c]
    /\ Goto(q, "client")
    /\ pid' = [pid EXCEPT ![q] = k]
    /\ floor' = [floor EXCEPT ![q] = count[c]]
    /\ barred' = IF \/ c \in revClient
                    \/ q \in Listens /\ <<c, k>> \in revPush
                 THEN barred \cup {q} ELSE barred
    /\ UNCHANGED <<tables, issued, hurt>>

\* Validate.validateRevokedClientId.
ValidateRevokedClientId(q) ==
    /\ pc[q] = "client"
    /\ Goto(q, IF ClientOf[q] \in revClient THEN "refused" ELSE "pushid")
    /\ UNCHANGED <<tables, issued, pid, hist>>

\* Mutant: any push id the client ever had passes.
AnyIssuedId(q) == pid[q] <= count[ClientOf[q]]

\* Validate.validatePushId compares with the id generated from the count.
CurrentId(q) == pid[q] = count[ClientOf[q]]

\* Validate.validatePushId; a listen goes on to the revoked push ids, a refresh
\* to the increment.
ValidatePushId(q) ==
    /\ pc[q] = "pushid"
    /\ Goto(q, CASE ~CurrentId(q) -> "refused"
                 [] CurrentId(q) /\ q \in Listens -> "revoked"
                 [] CurrentId(q) /\ q \in Refreshes -> "find")
    /\ UNCHANGED <<tables, issued, pid, hist>>

\* Mutant: the table is not looked at.
NeverRevoked(q) == FALSE

\* getRevokedPushId finds a row.
PushIdRevoked(q) == <<ClientOf[q], pid[q]>> \in revPush

\* Validate.validateRevokedPushId, the last query of Listen.validate: from here
\* on the listen request is accepted (see ClientRegistry).
ValidateRevokedPushId(q) ==
    /\ pc[q] = "revoked"
    /\ Goto(q, IF PushIdRevoked(q) THEN "refused" ELSE "done")
    /\ UNCHANGED <<tables, issued, pid, hist>>

\* incrementRefreshCount: findOrCreate looks for the row.
FindCount(q) ==
    /\ pc[q] = "find"
    /\ Goto(q, IF count[ClientOf[q]] = 0 THEN "create" ELSE "increment")
    /\ UNCHANGED <<tables, issued, pid, hist>>

\* findOrCreate creates it with the default count 1; the insert fails if
\* another refresh was faster, and the request with it.
CreateCount(q) ==
    LET c == ClientOf[q] IN
    /\ pc[q] = "create"
    /\ \/ /\ count[c] = 0
          /\ count' = [count EXCEPT ![c] = 1]
          /\ Goto(q, "read")
       \/ /\ count[c] # 0
          /\ count' = count
          /\ Goto(q, "refused")
    /\ UNCHANGED <<revClient, revPush, issued, pid, hist>>

\* Mutant: the count found before is written back plus one.
StaleIncrement(q) == pid[q] + 1

\* client.increment is one UPDATE count = count + 1.
Incremented(q) == count[ClientOf[q]] + 1

IncrementCount(q) ==
    /\ pc[q] = "increment"
    /\ count' = [count EXCEPT ![ClientOf[q]] = Incremented(q)]
    /\ Goto(q, "read")
    /\ UNCHANGED <<revClient, revPush, issued, pid, hist>>

\* Mutant: the new id is made of the old one's count.
CountAfterOwn(q) == pid[q] + 1

\* getRefreshCount as generatePushId reads it.
CountRead(q) == count[ClientOf[q]]

\* Refresh.generatePushId and the reply.
GeneratePushId(q) ==
    /\ pc[q] = "read"
    /\ Goto(q, "done")
    /\ issued' = [issued EXCEPT ![ClientOf[q]] = @ \cup {CountRead(q)}]
    /\ UNCHANGED <<tables, pid, hist>>

\* A query fails (the request is answered 500), or the worker exits, or the
\* reply is lost: an increment that was made stays.
RequestFails(q) ==
    /\ Faults
    /\ pc[q] \notin {"idle", "done", "refused"}
    /\ Goto(q, "refused")
    /\ hurt' = IF pc[q] = "read" THEN hurt \cup {ClientOf[q]} ELSE hurt
    /\ UNCHANGED <<tables, issued, pid, floor, barred>>

ValidateStep(q) ==
    ValidateRevokedClientId(q) \/ ValidatePushId(q) \/ ValidateRevokedPushId(q)

RefreshStep(q) ==
    FindCount(q) \/ CreateCount(q) \/ IncrementCount(q) \/ GeneratePushId(q)

Next ==
    \/ \E c \in Clients : Register(c) \/ RevokeClientId(c)
    \/ \E c \in Clients, k \in Counts : RevokePushId(c, k)
    \/ \E q \in Reqs, k \in Counts : Arrive(q, k)
    \/ \E q \in Reqs : ValidateStep(q) \/ RequestFails(q)
    \/ \E q \in Refreshes : RefreshStep(q)

Spec == Init /\ [][Next]_vars

-----------------------------------------------------------------------------
(* Properties.                                                             *)

\* Refreshes that have incremented (or created) the client's count.
Counted(c) ==
    {q \in Refreshes : ClientOf[q] = c /\ pc[q] \in {"read", "done"}}

\* Concurrent refreshes lose no increment: the count of a client is the number
\* of its refreshes that got through incrementRefreshCount.
NoIncrementLost ==
    \A c \in Clients \ hurt : count[c] = Cardinality(Counted(c))

\* Once no refresh of a client is under way, the client has been given the
\* push id that validatePushId accepts, however its refreshes interleaved; it
\* can be locked out only by a refresh that failed after its increment.
ClientHoldsValidId ==
    \A c \in Clients \ hurt :
        /\ issued[c] # {}
        /\ \A q \in Refreshes : ClientOf[q] = c => pc[q] \in {"idle", "done", "refused"}
        => count[c] \in issued[c]

\* No request gets through with a push id that had been replaced before the
\* request arrived.
SupersededIdRefused ==
    \A q \in Reqs :
        pc[q] \in {"revoked", "find", "create", "increment", "read", "done"} =>
            pid[q] >= floor[q]

\* No listen request that arrives after its client id or push id was revoked
\* is accepted.
RevokedIsRefused ==
    \A q \in Listens : q \in barred => pc[q] # "done"

=============================================================================
