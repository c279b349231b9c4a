----------------------------- MODULE PushDispatch -----------------------------
(***************************************************************************)
(* A push request among several Elephant servers.                          *)
(*                                                                         *)
(* The load balancer hands the request to any server.  The master there    *)
(* looks the client up (src/src/api/app/v2/push.coffee) and, if the client *)
(* map names another server, forwards the request to that server's push    *)
(* API (src/src/push/dispatch.coffee), which looks the client up again:    *)
(* the client may have moved meanwhile.  A forwarded request carries a via *)
(* header and is not forwarded again.  The forwarding server waits for the *)
(* peer's answer, up to DISPATCH_TIMEOUT; the peer does not notice that    *)
(* nobody waits any more.  What a server does with a request for one of    *)
(* its own clients is the subject of PushDelivery; here it is one step.    *)
(***************************************************************************)
EXTENDS Naturals, FiniteSets

CONSTANTS
    Requests, Clients, Servers, NoServer,
    PushTo,      \* request -> client
    Entry,       \* request -> the server the application's request reaches
    ViaProxy,    \* requests that come with a via header of some proxy
    Contains,    \* pairs <<t, s>>: the string of server id t contains that of s
    Silent,      \* servers that may stop answering
    MaxMoves     \* bound: how often a client map entry changes

\* A request is handled at most once per visit; the third is never to happen.
Visits == 0 .. 2

ASSUME DispatchAssumption ==
    /\ PushTo \in [Requests -> Clients]
    /\ Entry \in [Requests -> Servers]
    /\ ViaProxy \subseteq Requests
    /\ Contains \subseteq Servers \X Servers
    /\ \A s \in Servers : <<s, s>> \in Contains
    /\ NoServer \notin Servers
    /\ Silent \subseteq Servers
    /\ MaxMoves \in Nat

VARIABLES
    home,    \* client -> server in its client map entry
    moves,   \* number of changes of the map so far
    at,      \* request -> (visit -> the server visited)
    pc,      \* request -> (visit -> progress of Push.handle there)
    found,   \* request -> (visit -> req.params.client.serverId)
    answer,  \* request -> (visit -> HTTP status sent back)
    sent     \* request -> visits that sent SERVER_PUSH to a worker

vars == <<home, moves, at, pc, found, answer, sent>>

Statuses == {"200", "refused", "404", "500", "502", "504"}

TypeOK ==
    /\ home \in [Clients -> Servers \cup {NoServer}]
    /\ moves \in 0 .. MaxMoves
    /\ at \in [Requests -> [Visits -> Servers \cup {NoServer}]]
    /\ pc \in [Requests -> [Visits -> {"none", "lookup", "dispatch", "local", "waiting", "done"}]]
    /\ found \in [Requests -> [Visits -> Servers \cup {NoServer}]]
    /\ answer \in [Requests -> [Visits -> Statuses \cup {"none"}]]
    /\ sent \in [Requests -> SUBSET Visits]

Init ==
    /\ home \in [Clients -> Servers \cup {NoServer}]
    /\ moves = 0
    /\ at = [r \in Requests |-> [v \in Visits |-> NoServer]]
    /\ pc = [r \in Requests |-> [v \in Visits |-> "none"]]
    /\ found = [r \in Requests |-> [v \in Visits |-> NoServer]]
    /\ answer = [r \in Requests |-> [v \in Visits |-> "none"]]
    /\ sent = [r \in Requests |-> {}]

-----------------------------------------------------------------------------
\* The client map changes: a client connects elsewhere or leaves.
Move(c, s) ==
    /\ moves < MaxMoves
    /\ s # home[c]
    /\ home' = [home EXCEPT ![c] = s]
    /\ moves' = moves + 1
    /\ UNCHANGED <<at, pc, found, answer, sent>>

\* The application's request reaches Push.handle of some server.
Arrive(r) ==
    /\ pc[r][0] = "none"
    /\ at' = [at EXCEPT ![r][0] = Entry[r]]
    /\ pc' = [pc EXCEPT ![r][0] = "lookup"]
    /\ UNCHANGED <<home, moves, found, answer, sent>>

\* handleLocalPushResult or handleDispatchResult: the reply of visit v.
Reply(r, v, status) ==
    /\ pc' = [pc EXCEPT ![r][v] = "done"]
    /\ answer' = [answer EXCEPT ![r][v] = status]

\* Push.getClientInfo.
GetClientInfo(r, v) ==
    LET s == home[PushTo[r]] IN
    /\ pc[r][v] = "lookup"
    /\ \/ /\ s # NoServer
          /\ pc' = [pc EXCEPT ![r][v] = "dispatch"]
          /\ found' = [found EXCEPT ![r][v] = s]
          /\ answer' = answer
       \/ s = NoServer /\ Reply(r, v, "404") /\ found' = found
       \/ Reply(r, v, "500") /\ found' = found
    /\ UNCHANGED <<home, moves, at, sent>>

\* The test of Push.dispatch at server s, for a client recorded at server t:
\* the string t contains the string s.
IsLocal(s, t) == <<t, s>> \in Contains

\* Mutant: a forwarded request is forwarded again.
NeverForwarded(r, v) == FALSE

\* Dispatcher.isForwarded: the request has a via header.
IsForwarded(r, v) == v > 0 \/ r \in ViaProxy

\* Push.dispatch, a client of this server.
DispatchLocally(r, v) ==
    /\ pc[r][v] = "dispatch"
    /\ IsLocal(at[r][v], found[r][v])
    /\ pc' = [pc EXCEPT ![r][v] = "local"]
    /\ UNCHANGED <<home, moves, at, found, answer, sent>>

\* Push.dispatch and forwardPush: the client is of another server, which gets
\* the request, or cannot be reached.
ForwardPush(r, v) ==
    /\ pc[r][v] = "dispatch"
    /\ ~IsLocal(at[r][v], found[r][v])
    /\ \/ IsForwarded(r, v) /\ Reply(r, v, "502") /\ at' = at
       \/ /\ ~IsForwarded(r, v)
          /\ v + 1 \in Visits
          /\ pc' = [pc EXCEPT ![r][v] = "waiting", ![r][v + 1] = "lookup"]
          /\ at' = [at EXCEPT ![r][v + 1] = found[r][v]]
          /\ answer' = answer
       \/ ~IsForwarded(r, v) /\ Reply(r, v, "502") /\ at' = at
    /\ UNCHANGED <<home, moves, found, sent>>

\* Push.localPush: the push goes to a worker, or is refused (see PushDelivery).
LocalPush(r, v) ==
    /\ pc[r][v] = "local"
    /\ \/ Reply(r, v, "200") /\ sent' = [sent EXCEPT ![r] = @ \cup {v}]
       \/ Reply(r, v, "refused") /\ sent' = sent
    /\ UNCHANGED <<home, moves, at, found>>

\* Mutant: the reply is 200 whatever the peer answered.
AlwaysOk(r, v) == "200"

\* The status handed on to the application is the peer's.
Upstream(r, v) == answer[r][v + 1]

\* The peer's answer comes in time and is handed on.
UpstreamAnswer(r, v) ==
    /\ pc[r][v] = "waiting"
    /\ answer[r][v + 1] # "none"
    /\ Reply(r, v, Upstream(r, v))
    /\ UNCHANGED <<home, moves, at, found, sent>>

\* Mutant: the forwarding server waits for ever.
NoTimeout(r, v) == FALSE

\* No answer within DISPATCH_TIMEOUT (504) or a broken connection (502),
\* however far the peer has got.
UpstreamFails(r, v) ==
    /\ pc[r][v] = "waiting"
    /\ \/ Reply(r, v, "504") \/ Reply(r, v, "502")
    /\ UNCHANGED <<home, moves, at, found, sent>>

-----------------------------------------------------------------------------
HandleStep(r, v) ==
    \/ GetClientInfo(r, v) \/ DispatchLocally(r, v) \/ ForwardPush(r, v)
    \/ LocalPush(r, v) \/ UpstreamAnswer(r, v) \/ UpstreamFails(r, v)

Next ==
    \/ \E c \in Clients, s \in Servers \cup {NoServer} : Move(c, s)
    \/ \E r \in Requests : Arrive(r)
    \/ \E r \in Requests, v \in Visits \ {2} : HandleStep(r, v)

Spec == Init /\ [][Next]_vars

\* On a server that stays up the event loop runs, MySQL answers, and the timeout
\* of a dispatched request fires.
Fairness ==
    \A r \in Requests, v \in Visits \ {2} :
        WF_vars(at[r][v] \notin Silent /\ HandleStep(r, v))

FairSpec == Spec /\ Fairness

-----------------------------------------------------------------------------
(* Properties.                                                             *)

\* Servers whose view of the client map differs do not pass a request on for
\* ever: it visits two servers at most.
AtMostOneHop == \A r \in Requests : pc[r][2] = "none"

\* Forwarding, timing out and moving clients never make one request of the
\* application into two pushes, and the application is never told that a
\* request was accepted that was not, or refused that was not; only 502 and
\* 504 leave it in doubt.
AnswerIsTrue ==
    \A r \in Requests :
        /\ Cardinality(sent[r]) <= 1
        /\ answer[r][0] = "200" => sent[r] # {}
        /\ answer[r][0] \in {"refused", "404", "500"} => sent[r] = {}

\* A server that stays up answers every push request, even if the peer it
\* forwarded the request to has fallen silent.
EveryRequestAnswered ==
    \A r \in Requests :
        pc[r][0] # "none" /\ Entry[r] \notin Silent ~> answer[r][0] # "none"

=============================================================================
