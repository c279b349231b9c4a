---------------------------- MODULE PushDelivery ----------------------------
(***************************************************************************)
(* The life of a push request inside one Elephant server.                  *)
(*                                                                         *)
(* The master's push API (src/src/api/app/v2/push.coffee) looks the client *)
(* up, stores a push request row in MySQL and sends SERVER_PUSH to the     *)
(* worker that holds the client's connection.  The worker (src/src/push/   *)
(* send.coffee) writes a SPDY push stream and then starts a push timer in  *)
(* the client's Session object.  From there three parties race for the     *)
(* request: the client's ack (src/src/api/v2/ack.coffee), the timer        *)
(* (src/src/push/timer.coffee) and the send-failure path; whoever gets     *)
(* there creates a PushCallback (src/src/push/callback.coffee), which      *)
(* tells the application the outcome and deletes the row.                  *)
(*                                                                         *)
(* Every function passed to async.waterfall starts in a setImmediate of    *)
(* its own and every database call answers in a later event, so one        *)
(* handler is several actions here; one action is one uninterrupted run of *)
(* JavaScript in one process, or one query executed by MySQL together with *)
(* the callback that uses its answer.                                      *)
(*                                                                         *)
(* The client map appears only as what the push API reads of it: its       *)
(* content changes by ADD_CLIENT and DEL_CLIENT of any session at any      *)
(* time.  The module ClientRegistry models how it is kept.                 *)
(***************************************************************************)
EXTENDS Naturals, FiniteSets

CONSTANTS
    Requests,        \* push requests (pushIndex and requestId are unique)
    Clients,         \* client ids
    Workers,         \* cluster worker ids; a reforked worker gets a new id
    Sessions,        \* Session objects, one per accepted listen request
    Acks,            \* ack messages a client may send for a request
    NoWorker, NoSession,
    InitialWorkers,  \* the ids forked by startServer
    Mortal,          \* the workers that may exit
    PushTo,          \* request -> the client its push id belongs to
    ClientOf,        \* session -> its client
    WorkerOf,        \* session -> the worker that accepted its socket
    AckVia,          \* ack -> the session over whose socket it is sent
    WithCallback,    \* the requests that came with a callback url
    Retries,         \* PUSH_CALLBACK_RETRIES
    DbMayFail,       \* may a database query return an error?
    BothStreamEvents \* may a push stream emit 'finish' and 'error'?

ASSUME ConstantsAssumption ==
    /\ InitialWorkers \subseteq Workers
    /\ Mortal \subseteq Workers
    /\ WithCallback \subseteq Requests
    /\ PushTo \in [Requests -> Clients]
    /\ ClientOf \in [Sessions -> Clients]
    /\ WorkerOf \in [Sessions -> Workers]
    /\ AckVia \in [Acks -> Sessions]
    /\ Retries \in Nat
    /\ DbMayFail \in BOOLEAN
    /\ BothStreamEvents \in BOOLEAN

\* The three initiators of a PushCallback must be told apart.
ASSUME NamesAssumption ==
    /\ NoWorker \notin Workers
    /\ NoSession \notin Sessions
    /\ Acks \cap {"timeout", "failure"} = {}

VARIABLES
    worker,      \* worker id -> "unforked" | "up" | "dead"
    sess,        \* session -> "new" | "open" | "closed" (its socket)
    sessionMap,  \* worker -> (client -> session): SessionManager.sessionMap
    clientmap,   \* client -> worker recorded in the client map
    api,         \* request -> progress of the push API handler
    target,      \* request -> req.params.client.workerId
    undo,        \* request -> deletions still to be made after a failed send
    row,         \* request -> is its push request row in the table?
    push,        \* request -> progress of SendPush.handle
    psess,       \* request -> the session the push was written to
    fail,        \* request -> progress of SendPush._handleFailure
    timer,       \* request -> state of its PushTimer
    ack,         \* request -> (ack -> progress of the ack handler)
    cb,          \* request -> (initiator -> progress of its PushCallback)
    att,         \* request -> (initiator -> POSTs issued by its PushCallback)
    told,        \* request -> initiators whose POST was finally answered
    stopped,     \* request -> did an ack cancel its timer before it fired? (history)
    fault        \* request -> did a query about it fail? (history)

connVars == <<worker, sess, sessionMap>>
apiVars == <<clientmap, api, target, undo>>
sendVars == <<push, psess, fail>>
cbVars == <<cb, att, told>>
histVars == <<stopped, fault>>
vars == <<connVars, apiVars, row, sendVars, timer, ack, cbVars, histVars>>

Kinds == Acks \cup {"timeout", "failure"}

\* An entry session.pushTimers[requestId] exists in exactly these states.
Registered(r) == timer[r] \in {"armed", "fired"}

CallbackActive == {"start", "posting", "backoff", "deleting"}

\* The process in which initiator k of request r runs.
ProcessOf(r, k) == IF k \in Acks THEN WorkerOf[AckVia[k]] ELSE target[r]

-----------------------------------------------------------------------------
ConnType ==
    /\ worker \in [Workers -> {"unforked", "up", "dead"}]
    /\ sess \in [Sessions -> {"new", "open", "closed"}]
    /\ sessionMap \in [Workers -> [Clients -> Sessions \cup {NoSession}]]

ApiType ==
    /\ clientmap \in [Clients -> Workers \cup {NoWorker}]
    /\ api \in [Requests -> {"idle", "located", "valid", "saved", "ok", "refused"}]
    /\ target \in [Requests -> Workers \cup {NoWorker}]
    /\ undo \in [Requests -> SUBSET {"map", "row"}]

RowType ==
    /\ row \in [Requests -> BOOLEAN]
    /\ fault \in [Requests -> BOOLEAN]

SendType ==
    /\ push \in [Requests -> {"none", "ipc", "stream", "finish", "started", "ended"}]
    /\ psess \in [Requests -> Sessions \cup {NoSession}]
    /\ fail \in [Requests -> {"none", "reading", "fetched", "over"}]

TimerType ==
    /\ timer \in [Requests -> {"none", "armed", "fired", "cancelled",
                               "overtaken", "reading", "fetched", "over"}]
    /\ stopped \in [Requests -> BOOLEAN]

AckType ==
    ack \in [Requests -> [Acks -> {"none", "received", "reading", "fetched",
                                  "ok", "notfound", "error", "lost"}]]

CallbackType ==
    /\ cb \in [Requests -> [Kinds -> {"none", "start", "posting", "backoff",
                                      "deleting", "done", "lost"}]]
    /\ att \in [Requests -> [Kinds -> 0 .. Retries + 1]]
    /\ told \in [Requests -> SUBSET Kinds]

\* Every variable has its type; of att, that no callback is posted more often
\* than the first attempt and PUSH_CALLBACK_RETRIES retries.
TypeOK ==
    /\ ConnType /\ ApiType /\ RowType /\ SendType
    /\ TimerType /\ AckType /\ CallbackType

Init ==
    /\ worker = [w \in Workers |-> IF w \in InitialWorkers THEN "up" ELSE "unforked"]
    /\ sess = [s \in Sessions |-> "new"]
    /\ sessionMap = [w \in Workers |-> [c \in Clients |-> NoSession]]
    /\ clientmap = [c \in Clients |-> NoWorker]
    /\ api = [r \in Requests |-> "idle"]
    /\ target = [r \in Requests |-> NoWorker]
    /\ undo = [r \in Requests |-> {}]
    /\ row = [r \in Requests |-> FALSE]
    /\ push = [r \in Requests |-> "none"]
    /\ psess = [r \in Requests |-> NoSession]
    /\ fail = [r \in Requests |-> "none"]
    /\ timer = [r \in Requests |-> "none"]
    /\ ack = [r \in Requests |-> [a \in Acks |-> "none"]]
    /\ cb = [r \in Requests |-> [k \in Kinds |-> "none"]]
    /\ att = [r \in Requests |-> [k \in Kinds |-> 0]]
    /\ told = [r \in Requests |-> {}]
    /\ stopped = [r \in Requests |-> FALSE]
    /\ fault = [r \in Requests |-> FALSE]

-----------------------------------------------------------------------------
(* Connections, workers and the client map.                                *)

\* An accepted listen request: the new Session replaces whatever the worker
\* had for the client.  (The steps of the handler are in ClientRegistry.)
Listen(s) ==
    /\ sess[s] = "new"
    /\ worker[WorkerOf[s]] = "up"
    /\ sess' = [sess EXCEPT ![s] = "open"]
    /\ sessionMap' = [sessionMap EXCEPT ![WorkerOf[s]][ClientOf[s]] = s]
    /\ UNCHANGED <<worker, apiVars, row, sendVars, timer, ack, cbVars, histVars>>

\* The 'close' handler of a socket: deleteSession(session.clientId) removes the
\* client's current session, which need not be the one whose socket closed.
SocketClose(s) ==
    /\ sess[s] = "open"
    /\ sess' = [sess EXCEPT ![s] = "closed"]
    /\ sessionMap' = [sessionMap EXCEPT ![WorkerOf[s]][ClientOf[s]] = NoSession]
    /\ UNCHANGED <<worker, apiVars, row, sendVars, timer, ack, cbVars, histVars>>

\* The master processes an ADD_CLIENT some session of the client gave rise to.
ProcessAddClient(s) ==
    /\ sess[s] # "new"
    /\ clientmap' = [clientmap EXCEPT ![ClientOf[s]] = WorkerOf[s]]
    /\ UNCHANGED <<connVars, api, target, undo, row, sendVars, timer, ack, cbVars, histVars>>

\* The master processes a DEL_CLIENT some closed session gave rise to.
ProcessDelClient(s) ==
    /\ sess[s] = "closed"
    /\ clientmap' = [clientmap EXCEPT ![ClientOf[s]] = NoWorker]
    /\ UNCHANGED <<connVars, api, target, undo, row, sendVars, timer, ack, cbVars, histVars>>

\* What the exit of worker w destroys of a handler's progress.
LoseUnless(w, where, state, finished, gone) ==
    IF where = w /\ state \notin finished THEN gone ELSE state

\* A worker exits: its sessions, timers and handlers are gone, messages under
\* way to it are lost, and the master forks a successor under a new id.  The
\* rows in MySQL and the entries of the client map stay.
WorkerExit(w) ==
    /\ w \in Mortal
    /\ worker[w] = "up"
    /\ \/ \E n \in Workers :
            /\ worker[n] = "unforked"
            /\ worker' = [worker EXCEPT ![w] = "dead", ![n] = "up"]
       \/ /\ \A n \in Workers : worker[n] # "unforked"
          /\ worker' = [worker EXCEPT ![w] = "dead"]
    /\ sess' = [s \in Sessions |->
                 IF WorkerOf[s] = w /\ sess[s] = "open" THEN "closed" ELSE sess[s]]
    /\ sessionMap' = [sessionMap EXCEPT ![w] = [c \in Clients |-> NoSession]]
    /\ push' = [r \in Requests |->
                 LoseUnless(w, target[r], push[r], {"none", "started"}, "ended")]
    /\ fail' = [r \in Requests |->
                 LoseUnless(w, target[r], fail[r], {"none"}, "over")]
    /\ timer' = [r \in Requests |->
                  LoseUnless(w, target[r], timer[r], {"none", "cancelled"}, "over")]
    /\ ack' = [r \in Requests |-> [a \in Acks |->
                LoseUnless(w, ProcessOf(r, a), ack[r][a],
                           {"none", "ok", "notfound", "error"}, "lost")]]
    /\ cb' = [r \in Requests |-> [k \in Kinds |->
               LoseUnless(w, ProcessOf(r, k), cb[r][k], {"none", "done"}, "lost")]]
    /\ UNCHANGED <<apiVars, row, psess, att, told, histVars>>

-----------------------------------------------------------------------------
(* The push API of the master.                                             *)

\* Push.getClientInfo: the client map's answer is kept in req.params.client.
GetClientInfo(r) ==
    LET w == clientmap[PushTo[r]] IN
    /\ api[r] = "idle"
    /\ api' = [api EXCEPT ![r] = IF w = NoWorker THEN "refused" ELSE "located"]
    /\ target' = [target EXCEPT ![r] = w]
    /\ UNCHANGED <<connVars, clientmap, undo, row, sendVars, timer, ack, cbVars, histVars>>

\* Push.validate: credentials, message, callback and revoked push ids.
Validate(r) ==
    /\ api[r] = "located"
    /\ \E verdict \in {"valid", "refused"} : api' = [api EXCEPT ![r] = verdict]
    /\ UNCHANGED <<connVars, clientmap, target, undo, row, sendVars, timer, ack, cbVars, histVars>>

\* addPushRequest of the storage: the row gets a fresh id, the pushIndex.
AddPushRequest(r) == row' = [row EXCEPT ![r] = TRUE]

\* deletePushRequestByIndex of the storage: the destroy takes effect, or fails
\* and is not repeated.  A row that is gone already is no error.
DeletePushRequestByIndex(r) ==
    \/ row' = [row EXCEPT ![r] = FALSE] /\ fault' = fault
    \/ DbMayFail /\ row' = row /\ fault' = [fault EXCEPT ![r] = TRUE]

\* Push.createPushRequest: the row is written, or the database failed and the
\* request leaves no trace.
CreatePushRequest(r) ==
    /\ api[r] = "valid"
    /\ \/ api' = [api EXCEPT ![r] = "saved"] /\ AddPushRequest(r)
       \/ /\ DbMayFail
          /\ api' = [api EXCEPT ![r] = "refused"]
          /\ row' = row
    /\ UNCHANGED <<connVars, clientmap, target, undo, sendVars, timer, ack, cbVars, histVars>>

\* Push.sendPushRequestToWorker: SERVER_PUSH goes to the worker recorded when
\* the client was looked up; if that id is not of cluster.workers, the client
\* map entry and the row are to be deleted and the application gets a 404.
SendPushRequestToWorker(r) ==
    /\ api[r] = "saved"
    /\ \/ /\ worker[target[r]] = "up"
          /\ api' = [api EXCEPT ![r] = "ok"]
          /\ push' = [push EXCEPT ![r] = "ipc"]
          /\ undo' = undo
       \/ /\ worker[target[r]] # "up"
          /\ api' = [api EXCEPT ![r] = "refused"]
          /\ undo' = [undo EXCEPT ![r] = {"map", "row"}]
          /\ push' = push
    /\ UNCHANGED <<connVars, clientmap, target, row, psess, fail, timer, ack, cbVars, histVars>>

\* Push.deleteFromClientMap: whatever the entry says by now.
DeleteFromClientMap(r) ==
    /\ "map" \in undo[r]
    /\ undo' = [undo EXCEPT ![r] = @ \ {"map"}]
    /\ \/ clientmap' = [clientmap EXCEPT ![PushTo[r]] = NoWorker]
       \/ DbMayFail /\ clientmap' = clientmap
    /\ UNCHANGED <<connVars, api, target, row, sendVars, timer, ack, cbVars, histVars>>

\* Push.deletePushRequest: a failure is logged.
DeletePushRequest(r) ==
    /\ "row" \in undo[r]
    /\ undo' = [undo EXCEPT ![r] = @ \ {"row"}]
    /\ DeletePushRequestByIndex(r)
    /\ UNCHANGED <<connVars, clientmap, api, target, sendVars, timer, ack, cbVars, stopped>>

-----------------------------------------------------------------------------
(* SendPush in the worker.                                                 *)

\* Mutant: the error is logged and that is all.
HandleFailureLogsOnly(r) == fail' = [fail EXCEPT ![r] = "over"]

\* The error branch of SendPush.handle: _handleFailure is queued.
HandleFailure(r) == fail' = [fail EXCEPT ![r] = "reading"]

\* Mutant: an error does not end the waterfall.
WaterfallGoesOn(r) == push' = push

\* An error ends the waterfall of SendPush.handle: no _startTimer.
WaterfallEnds(r) == push' = [push EXCEPT ![r] = "ended"]

\* SendPush._pushToClient: no session, a socket that cannot be written or a
\* refused push stream is a failure, otherwise the stream is written.
PushToClient(r) ==
    LET s == sessionMap[target[r]][PushTo[r]] IN
    /\ push[r] = "ipc"
    /\ \/ /\ WaterfallEnds(r)
          /\ HandleFailure(r)
          /\ psess' = psess
       \/ /\ s # NoSession
          /\ push' = [push EXCEPT ![r] = "stream"]
          /\ psess' = [psess EXCEPT ![r] = s]
          /\ fail' = fail
    /\ UNCHANGED <<connVars, apiVars, row, timer, ack, cbVars, histVars>>

\* 'finish' of the push stream: the waterfall goes on to _startTimer.
StreamFinish(r) ==
    /\ push[r] = "stream"
    /\ push' = [push EXCEPT ![r] = "finish"]
    /\ UNCHANGED <<connVars, apiVars, row, psess, fail, timer, ack, cbVars, histVars>>

\* 'error' of the push stream: the waterfall ends in _handleFailure.  Nothing
\* stops the other event from being handled as well if the stream emits both.
StreamError(r) ==
    /\ fail[r] = "none"
    /\ \/ push[r] = "stream" /\ WaterfallEnds(r)
       \/ /\ BothStreamEvents
          /\ push[r] \in {"stream", "finish", "started"}
          /\ target[r] # NoWorker /\ worker[target[r]] = "up"
          /\ push' = push
    /\ HandleFailure(r)
    /\ UNCHANGED <<connVars, apiVars, row, psess, timer, ack, cbVars, histVars>>

\* SendPush._startTimer, PushTimer.start and Session.addPushTimer.
StartTimer(r) ==
    /\ push[r] = "finish"
    /\ push' = [push EXCEPT ![r] = "started"]
    /\ timer' = [timer EXCEPT ![r] = "armed"]
    /\ UNCHANGED <<connVars, apiVars, row, psess, fail, ack, cbVars, histVars>>

\* getPushRequestByIndex as its three users see it: the row is handed on, or
\* the user gives up because it is not there or because the query failed.
ReadRow(r, handOn, giveUp) ==
    \/ row[r] /\ handOn /\ fault' = fault
    \/ ~row[r] /\ giveUp /\ fault' = fault
    \/ DbMayFail /\ giveUp /\ fault' = [fault EXCEPT ![r] = TRUE]

\* PushCallback.create and send: the process starts in a later event.
CreateCallback(r, k) == cb' = [cb EXCEPT ![r][k] = "start"]

\* SendPush._getPushRequest.
FailureGetPushRequest(r) ==
    LET To(st) == fail' = [fail EXCEPT ![r] = st] IN
    /\ fail[r] = "reading"
    /\ ReadRow(r, To("fetched"), To("over"))
    /\ UNCHANGED <<connVars, apiVars, row, push, psess, timer, ack, cbVars, stopped>>

\* SendPush._sendCallback.
FailureSendCallback(r) ==
    /\ fail[r] = "fetched"
    /\ fail' = [fail EXCEPT ![r] = "over"]
    /\ CreateCallback(r, "failure")
    /\ UNCHANGED <<connVars, apiVars, row, push, psess, timer, ack, att, told, histVars>>

-----------------------------------------------------------------------------
(* PushTimer.                                                              *)

\* The timeout is reached: onTimeout queues its waterfall; the entry in
\* session.pushTimers is still there.
OnTimeout(r) ==
    /\ timer[r] = "armed"
    /\ timer' = [timer EXCEPT ![r] = "fired"]
    /\ UNCHANGED <<connVars, apiVars, row, sendVars, ack, cbVars, histVars>>

\* PushTimer._removeTimer.  "overtaken" is a timer whose entry an ack removed
\* after it had fired.  Session.removePushTimer evaluates (not requestId) of
\* @pushTimers, which is never true, so it returns true in both cases and the
\* timeout is processed.
RemoveTimer(r) ==
    /\ timer[r] \in {"fired", "overtaken"}
    /\ timer' = [timer EXCEPT ![r] = "reading"]
    /\ UNCHANGED <<connVars, apiVars, row, sendVars, ack, cbVars, histVars>>

\* PushTimer._getPushRequest.
TimerGetPushRequest(r) ==
    LET To(st) == timer' = [timer EXCEPT ![r] = st] IN
    /\ timer[r] = "reading"
    /\ ReadRow(r, To("fetched"), To("over"))
    /\ UNCHANGED <<connVars, apiVars, row, sendVars, ack, cbVars, stopped>>

\* PushTimer._sendCallback.
TimerSendCallback(r) ==
    /\ timer[r] = "fetched"
    /\ timer' = [timer EXCEPT ![r] = "over"]
    /\ CreateCallback(r, "timeout")
    /\ UNCHANGED <<connVars, apiVars, row, sendVars, ack, att, told, histVars>>

-----------------------------------------------------------------------------
(* The ack API.                                                            *)

\* The client, having received the push, sends an ack over one of its open
\* connections; Ack.validate accepts it.
AckReceive(r, a) ==
    /\ ack[r][a] = "none"
    /\ psess[r] # NoSession
    /\ ClientOf[AckVia[a]] = PushTo[r]
    /\ sess[AckVia[a]] = "open"
    /\ ack' = [ack EXCEPT ![r][a] = "received"]
    /\ UNCHANGED <<connVars, apiVars, row, sendVars, timer, cbVars, histVars>>

\* The timer ack a finds: the entry is in the Session object the push was
\* written to, the lookup goes through the worker's current session.
FindsTimer(r, a) ==
    /\ Registered(r)
    /\ psess[r] # NoSession
    /\ sessionMap[WorkerOf[AckVia[a]]][PushTo[r]] = psess[r]

\* Mutant: the entry stays in session.pushTimers.
CancelledKeepsEntry(st) == st

\* Mutant: clearTimeout is forgotten.
CancelledKeepsTimeout(st) == "overtaken"

\* PushTimer.cancel and Session.removePushTimer: the entry is removed;
\* clearTimeout has no effect on a timer that has fired already.
Cancelled(st) == IF st = "armed" THEN "cancelled" ELSE "overtaken"

\* Ack.cancelPushTimer.
CancelPushTimer(r, a) ==
    /\ ack[r][a] = "received"
    /\ \/ /\ FindsTimer(r, a)
          /\ ack' = [ack EXCEPT ![r][a] = "reading"]
          /\ timer' = [timer EXCEPT ![r] = Cancelled(@)]
          /\ stopped' = [stopped EXCEPT ![r] = @ \/ timer[r] = "armed"]
       \/ /\ ~FindsTimer(r, a)
          /\ ack' = [ack EXCEPT ![r][a] = "notfound"]
          /\ UNCHANGED <<timer, stopped>>
    /\ UNCHANGED <<connVars, apiVars, row, sendVars, cbVars, fault>>

\* Ack.getPushRequest.
AckGetPushRequest(r, a) ==
    LET To(st) == ack' = [ack EXCEPT ![r][a] = st] IN
    /\ ack[r][a] = "reading"
    /\ ReadRow(r, To("fetched"), To("error"))
    /\ UNCHANGED <<connVars, apiVars, row, sendVars, timer, cbVars, stopped>>

\* Ack.sendCallback and the 200 reply to the client.
AckSendCallback(r, a) ==
    /\ ack[r][a] = "fetched"
    /\ ack' = [ack EXCEPT ![r][a] = "ok"]
    /\ CreateCallback(r, a)
    /\ UNCHANGED <<connVars, apiVars, row, sendVars, timer, att, told, histVars>>

-----------------------------------------------------------------------------
(* PushCallback: POST with retries, then delete the row.                   *)

\* PushCallback._send: one POST to the callback url.
CallbackPost(r, k) ==
    /\ cb' = [cb EXCEPT ![r][k] = "posting"]
    /\ att' = [att EXCEPT ![r][k] = @ + 1]

\* PushCallback._sendWithRetry, first attempt; without a url there is none.
CallbackStart(r, k) ==
    /\ cb[r][k] = "start"
    /\ \/ r \in WithCallback /\ CallbackPost(r, k)
       \/ /\ r \notin WithCallback
          /\ cb' = [cb EXCEPT ![r][k] = "deleting"]
          /\ att' = att
    /\ UNCHANGED <<connVars, apiVars, row, sendVars, timer, ack, told, histVars>>

\* Mutant: one retry too few.
RetryOneLess(r, k) == att[r][k] < Retries

\* operation.retry err: is another attempt left?
RetryLeft(r, k) == att[r][k] <= Retries

\* The POST is answered with a final status, or it failed or the receiver
\* signalled a temporary outage (502, 503, 504).
CallbackAnswer(r, k) ==
    /\ cb[r][k] = "posting"
    /\ \/ /\ cb' = [cb EXCEPT ![r][k] = "deleting"]
          /\ told' = [told EXCEPT ![r] = @ \cup {k}]
       \/ /\ cb' = [cb EXCEPT ![r][k] =
                     IF RetryLeft(r, k) THEN "backoff" ELSE "deleting"]
          /\ told' = told
    /\ UNCHANGED <<connVars, apiVars, row, sendVars, timer, ack, att, histVars>>

\* The retry timer of the operation runs the next attempt.
CallbackRetry(r, k) ==
    /\ cb[r][k] = "backoff"
    /\ CallbackPost(r, k)
    /\ UNCHANGED <<connVars, apiVars, row, sendVars, timer, ack, told, histVars>>

\* PushCallback._deletePushRequest; an error is logged and ends the process.
CallbackDelete(r, k) ==
    /\ cb[r][k] = "deleting"
    /\ cb' = [cb EXCEPT ![r][k] = "done"]
    /\ DeletePushRequestByIndex(r)
    /\ UNCHANGED <<connVars, apiVars, sendVars, timer, ack, att, told, stopped>>

-----------------------------------------------------------------------------
\* What the environment does: clients connect, disconnect and ack, workers
\* exit, client map messages are processed.
Environment ==
    \/ \E s \in Sessions : \/ Listen(s) \/ SocketClose(s)
                           \/ ProcessAddClient(s) \/ ProcessDelClient(s)
    \/ \E w \in Workers : WorkerExit(w)
    \/ \E r \in Requests : GetClientInfo(r)
    \/ \E r \in Requests, a \in Acks : AckReceive(r, a)

\* What the server does of a push request once it has been looked up.
RequestStep(r) ==
    \/ Validate(r) \/ CreatePushRequest(r) \/ SendPushRequestToWorker(r)
    \/ DeleteFromClientMap(r) \/ DeletePushRequest(r)
    \/ PushToClient(r) \/ StreamFinish(r) \/ StreamError(r) \/ StartTimer(r)
    \/ FailureGetPushRequest(r) \/ FailureSendCallback(r)
    \/ OnTimeout(r) \/ RemoveTimer(r) \/ TimerGetPushRequest(r) \/ TimerSendCallback(r)

AckStep(r, a) ==
    CancelPushTimer(r, a) \/ AckGetPushRequest(r, a) \/ AckSendCallback(r, a)

CallbackStep(r, k) ==
    \/ CallbackStart(r, k) \/ CallbackAnswer(r, k)
    \/ CallbackRetry(r, k) \/ CallbackDelete(r, k)

Next ==
    \/ Environment
    \/ \E r \in Requests : RequestStep(r)
    \/ \E r \in Requests, a \in Acks : AckStep(r, a)
    \/ \E r \in Requests, k \in Kinds : CallbackStep(r, k)

Spec == Init /\ [][Next]_vars

\* Event loops run what is queued, queries are answered, timers fire, and a push
\* stream reports its end.  A POST to the application need not be answered:
\* request.post is called without a timeout.
Fairness ==
    \A r \in Requests :
        /\ WF_vars(Validate(r)) /\ WF_vars(CreatePushRequest(r))
        /\ WF_vars(SendPushRequestToWorker(r))
        /\ WF_vars(DeletePushRequest(r)) /\ WF_vars(PushToClient(r))
        /\ WF_vars(StreamFinish(r)) /\ WF_vars(StartTimer(r))
        /\ WF_vars(FailureGetPushRequest(r)) /\ WF_vars(FailureSendCallback(r))
        /\ WF_vars(OnTimeout(r)) /\ WF_vars(RemoveTimer(r))
        /\ WF_vars(TimerGetPushRequest(r)) /\ WF_vars(TimerSendCallback(r))
        /\ \A a \in Acks : WF_vars(AckStep(r, a))
        /\ \A k \in Kinds :
             WF_vars(CallbackStart(r, k) \/ CallbackRetry(r, k) \/ CallbackDelete(r, k))

FairSpec == Spec /\ Fairness

-----------------------------------------------------------------------------
(* Properties.                                                             *)

AckOwns(r) == \E a \in Acks : ack[r][a] \in {"reading", "fetched"}
CallbackOwns(r) == \E k \in Kinds : cb[r][k] \in CallbackActive

\* Some party is still going to delete the row of r: the push API, SendPush,
\* its failure path, the timer, an ack or a callback.
Owned(r) ==
    \/ api[r] = "saved"
    \/ "row" \in undo[r]
    \/ push[r] \in {"ipc", "stream", "finish"}
    \/ fail[r] \in {"reading", "fetched"}
    \/ timer[r] \in {"armed", "fired", "overtaken", "reading", "fetched"}
    \/ AckOwns(r)
    \/ CallbackOwns(r)

\* The worker r was sent to exited.
WorkerLost(r) == target[r] # NoWorker /\ worker[target[r]] = "dead"

\* A push request row is never forgotten: as long as it is in the table, the
\* push API, SendPush, the timer, an ack or a callback is on its way to
\* delete it.  Only the exit of the worker or a failed query breaks the chain.
RowHasOwner ==
    \A r \in Requests : row[r] => Owned(r) \/ fault[r] \/ WorkerLost(r)

\* Of all acks a client sends for a request, over whatever connections and
\* however often, at most one gets past cancelPushTimer: the application is
\* told of one ack only.
SingleAck ==
    \A r \in Requests, a, b \in Acks :
        /\ ack[r][a] \in {"reading", "fetched", "ok", "error"}
        /\ ack[r][b] \in {"reading", "fetched", "ok", "error"}
        => a = b

\* If a push stream ends in one event only, a send failure is final: a request
\* reported as failed gets no timer, so neither an ack nor a timeout is
\* reported for it.
FailureIsFinal ==
    ~BothStreamEvents =>
        \A r \in Requests :
            fail[r] # "none" =>
                /\ timer[r] = "none" /\ cb[r]["timeout"] = "none"
                /\ \A a \in Acks : cb[r][a] = "none"

\* Some callback of r has used up its attempts.
GaveUp(r) == \E k \in Kinds : att[r][k] = Retries + 1

\* A request the application was promised a callback for is deleted only after
\* some outcome was delivered, or after every attempt to deliver one was used
\* up; the only other deletion is that of a request the push API refused.
ToldBeforeDeleted ==
    \A r \in Requests :
        api[r] = "ok" /\ ~row[r] /\ r \in WithCallback =>
            told[r] # {} \/ GaveUp(r)

\* An ack that finds the timer before it has fired settles the request: no
\* timeout is reported for it, now or later.  (An ack that comes between the
\* firing of the timer and _removeTimer does not: see TimeoutBacksOutAfterAck.)
AckInTimeSettles ==
    \A r \in Requests : stopped[r] => cb[r]["timeout"] = "none"

\* The ack that stops a timer runs in the worker that was sent SERVER_PUSH, even
\* if the client has reconnected to other workers meanwhile: timer, ack and
\* callback of a request share one process and its crash.
AckInSameProcess ==
    \A r \in Requests, a \in Acks :
        ack[r][a] \in {"reading", "fetched", "ok"} => WorkerOf[AckVia[a]] = target[r]

\* The answer of the push API to the application.
AnswerOf(r) == IF api[r] \in {"ok", "refused"} THEN api[r] ELSE "pending"

Promise == INSTANCE PushPromise
           WITH stored <- row,
                answer <- [r \in Requests |-> AnswerOf(r)],
                spent <- [r \in Requests |-> GaveUp(r)]

\* Push delivery keeps what the push API promises an application, through
\* reconnections, repeated acks, worker exits and failing queries: whatever the
\* order in which timer, acks, failure path and callbacks take their steps, the
\* application sees a behaviour of PushPromise.
KeepsPromise == Promise!Spec

\* Every stored push request is eventually deleted, unless its worker exited, a
\* query about it failed, or an application that accepted a callback never answers
\* it: PushCallback deletes the row only after its last POST has ended.
RequestsSettle ==
    \A r \in Requests :
        \/ row[r] ~> (~row[r] \/ fault[r] \/ WorkerLost(r))
        \/ \E k \in Kinds : <>[](cb[r][k] = "posting")

\* timer.coffee:93: "if timer already removed then push already acked so we do
\* not continue and back out of timeout handling".
TimeoutBacksOutAfterAck ==
    \A r \in Requests :
        (\E a \in Acks : ack[r][a] = "ok") => cb[r]["timeout"] = "none"

=============================================================================
