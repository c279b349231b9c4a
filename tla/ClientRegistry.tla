--------------------------- MODULE ClientRegistry ---------------------------
(***************************************************************************)
(* Who is connected where: the sessions of each worker (SessionManager,    *)
(* src/src/model/session.coffee) and the client map the master keeps in    *)
(* MySQL (src/src/persistence/mysqlclientmap.coffee).                      *)
(*                                                                         *)
(* A listen request (src/src/api/v2/listen.coffee) adds a session, tells   *)
(* the master ADD_CLIENT and only then, in a later event, registers the    *)
(* socket's close handler, which deletes the session and tells the master  *)
(* DEL_CLIENT.  Messages of one worker reach the master in order, but the  *)
(* master does not wait for one message's queries before it handles the    *)
(* next, and the queries run on a pool of connections, so they take effect *)
(* in any order.  ClientMap.add is two queries: find, then insert or       *)
(* update.  The push API reads the map and, much later, deletes entries    *)
(* that name a worker it cannot reach.                                     *)
(***************************************************************************)
EXTENDS Naturals, Sequences, FiniteSets

CONSTANTS
    Clients, PushIds, Workers,
    Conns,           \* accepted client connections that send a listen request
    NoConn, NoWorker,
    InitialWorkers,  \* the worker ids forked by startServer
    Mortal,          \* the workers that may exit
    ClientOf,        \* push id -> the client it was issued to
    PushIdOf,        \* connection -> the push id in its listen request
    WorkerOf,        \* connection -> the worker that accepted it
    DbMayFail        \* may a database query return an error?

ASSUME RegistryAssumption ==
    /\ InitialWorkers \subseteq Workers
    /\ Mortal \subseteq Workers
    /\ ClientOf \in [PushIds -> Clients]
    /\ PushIdOf \in [Conns -> PushIds]
    /\ WorkerOf \in [Conns -> Workers]
    /\ DbMayFail \in BOOLEAN
    /\ NoConn \notin Conns
    /\ NoWorker \notin Workers
    /\ IsFiniteSet(Clients)

VARIABLES
    worker,      \* worker id -> "unforked" | "up" | "dead"
    lst,         \* connection -> progress of its listen handler
    sock,        \* connection -> "none" | "open" | "closed"
    sessionMap,  \* worker -> (client -> connection of its session)
    numSessions, \* worker -> SessionManager.numSessions
    chan,        \* worker -> messages on their way to the master
    ops,         \* queries of the master under way
    cmap,        \* push id -> worker in its connected_push_id row, or NoWorker
    look,        \* push id -> what a push API handler read of the map
    lazy,        \* push ids whose entry a failed push is about to delete
    inTime,      \* connections whose add was done while they were open (history)
    faulty       \* push ids one of whose queries failed (history)

sessVars == <<lst, sock, sessionMap, numSessions>>
apiVars == <<look, lazy>>
histVars == <<inTime, faulty>>
vars == <<worker, sessVars, chan, ops, cmap, apiVars, histVars>>

ClientOfConn(n) == ClientOf[PushIdOf[n]]
Messages == [head : {"ADD_CLIENT", "DEL_CLIENT"}, conn : Conns]
Queries == [op : {"find", "insert", "update", "remove"}, conn : Conns]

TypeOK ==
    /\ worker \in [Workers -> {"unforked", "up", "dead"}]
    /\ lst \in [Conns -> {"none", "valid", "created", "notified", "listening", "left", "gone"}]
    /\ sock \in [Conns -> {"none", "open", "closed"}]
    /\ sessionMap \in [Workers -> [Clients -> Conns \cup {NoConn}]]
    /\ numSessions \in [Workers -> Nat]
    /\ chan \in [Workers -> Seq(Messages)]
    /\ ops \subseteq Queries
    /\ cmap \in [PushIds -> Workers \cup {NoWorker}]
    /\ look \in [PushIds -> Workers \cup {NoWorker}]
    /\ lazy \subseteq PushIds
    /\ inTime \subseteq Conns
    /\ faulty \subseteq PushIds

Init ==
    /\ worker = [w \in Workers |-> IF w \in InitialWorkers THEN "up" ELSE "unforked"]
    /\ lst = [n \in Conns |-> "none"]
    /\ sock = [n \in Conns |-> "none"]
    /\ sessionMap = [w \in Workers |-> [c \in Clients |-> NoConn]]
    /\ numSessions = [w \in Workers |-> 0]
    /\ chan = [w \in Workers |-> << >>]
    /\ ops = {}
    /\ cmap = [p \in PushIds |-> NoWorker]
    /\ look = [p \in PushIds |-> NoWorker]
    /\ lazy = {}
    /\ inTime = {}
    /\ faulty = {}

-----------------------------------------------------------------------------
(* The listen handler in the worker.                                       *)

Tell(w, head, n) == chan' = [chan EXCEPT ![w] = Append(@, [head |-> head, conn |-> n])]

\* A connection is accepted and Listen.validate and createClientInfo succeed.
Accept(n) ==
    /\ lst[n] = "none"
    /\ worker[WorkerOf[n]] = "up"
    /\ lst' = [lst EXCEPT ![n] = "valid"]
    /\ sock' = [sock EXCEPT ![n] = "open"]
    /\ UNCHANGED <<worker, sessionMap, numSessions, chan, ops, cmap, apiVars, histVars>>

\* Mutant: a replaced session is counted again.
CountedEveryTime(w, c) == 1

\* SessionManager.addSession counts a client it does not have yet.
Counted(w, c) == IF sessionMap[w][c] = NoConn THEN 1 ELSE 0

\* Listen.createSession: the session replaces the client's previous one.
CreateSession(n) ==
    LET w == WorkerOf[n]
        c == ClientOfConn(n) IN
    /\ lst[n] = "valid"
    /\ lst' = [lst EXCEPT ![n] = "created"]
    /\ numSessions' = [numSessions EXCEPT ![w] = @ + Counted(w, c)]
    /\ sessionMap' = [sessionMap EXCEPT ![w][c] = n]
    /\ UNCHANGED <<worker, sock, chan, ops, cmap, apiVars, histVars>>

\* Listen.notifyMasterAddClient.
NotifyMasterAddClient(n) ==
    /\ lst[n] = "created"
    /\ lst' = [lst EXCEPT ![n] = "notified"]
    /\ Tell(WorkerOf[n], "ADD_CLIENT", n)
    /\ UNCHANGED <<worker, sock, sessionMap, numSessions, ops, cmap, apiVars, histVars>>

\* Listen.setReqSocketCloseHandler: from here on a close is noticed.
SetReqSocketCloseHandler(n) ==
    /\ lst[n] = "notified"
    /\ lst' = [lst EXCEPT ![n] = "listening"]
    /\ UNCHANGED <<worker, sock, sessionMap, numSessions, chan, ops, cmap, apiVars, histVars>>

\* Mutant: the master is not told.
NoFarewell(n) == chan' = chan

\* Listen._notifyMasterDelClient.
NotifyMasterDelClient(n) == Tell(WorkerOf[n], "DEL_CLIENT", n)

\* SessionManager.deleteSession: the count goes down if there is a session.
Discounted(w, c) == IF sessionMap[w][c] = NoConn THEN 0 ELSE 1

\* The socket closes with its handler in place: deleteSession(clientId) takes
\* away the client's current session, whichever connection it belongs to.
CloseHandled(n) ==
    LET w == WorkerOf[n]
        c == ClientOfConn(n) IN
    /\ sock[n] = "open"
    /\ lst[n] = "listening"
    /\ sock' = [sock EXCEPT ![n] = "closed"]
    /\ numSessions' = [numSessions EXCEPT ![w] = @ - Discounted(w, c)]
    /\ sessionMap' = [sessionMap EXCEPT ![w][c] = NoConn]
    /\ lst' = [lst EXCEPT ![n] = "left"]
    /\ NotifyMasterDelClient(n)
    /\ UNCHANGED <<worker, ops, cmap, apiVars, histVars>>

\* The socket closes while the listen handler is still running: the event has
\* no listener and the handler goes on.
CloseMissed(n) ==
    /\ sock[n] = "open"
    /\ lst[n] \in {"valid", "created", "notified"}
    /\ sock' = [sock EXCEPT ![n] = "closed"]
    /\ UNCHANGED <<worker, lst, sessionMap, numSessions, chan, ops, cmap, apiVars, histVars>>

\* A worker exits: its sessions and handlers are gone, no DEL_CLIENT is sent,
\* messages not yet on the pipe are lost; the master forks a successor.
WorkerExit(w) ==
    /\ w \in Mortal
    /\ worker[w] = "up"
    /\ \/ \E m \in Workers :
            /\ worker[m] = "unforked"
            /\ worker' = [worker EXCEPT ![w] = "dead", ![m] = "up"]
       \/ /\ \A m \in Workers : worker[m] # "unforked"
          /\ worker' = [worker EXCEPT ![w] = "dead"]
    /\ lst' = [n \in Conns |->
                IF WorkerOf[n] = w /\ lst[n] # "none" THEN "gone" ELSE lst[n]]
    /\ sock' = [n \in Conns |->
                 IF WorkerOf[n] = w /\ sock[n] = "open" THEN "closed" ELSE sock[n]]
    /\ sessionMap' = [sessionMap EXCEPT ![w] = [c \in Clients |-> NoConn]]
    /\ numSessions' = [numSessions EXCEPT ![w] = 0]
    /\ \E k \in 0 .. Len(chan[w]) : chan' = [chan EXCEPT ![w] = SubSeq(@, 1, k)]
    /\ UNCHANGED <<ops, cmap, apiVars, histVars>>

-----------------------------------------------------------------------------
(* The master.                                                             *)

\* handleWorkerMessage: processAddClient issues the find of ClientMap.add,
\* processDelClient issues the destroy of ClientMap.remove.
HandleWorkerMessage(w) ==
    LET m == Head(chan[w]) IN
    /\ chan[w] # << >>
    /\ chan' = [chan EXCEPT ![w] = Tail(@)]
    /\ ops' = ops \cup {[op |-> IF m.head = "ADD_CLIENT" THEN "find" ELSE "remove",
                         conn |-> m.conn]}
    /\ UNCHANGED <<worker, sessVars, cmap, apiVars, histVars>>

\* MySqlClientMap.add, first query: insert or update depends on its answer.
Find(n) ==
    LET q == [op |-> "find", conn |-> n]
        found == cmap[PushIdOf[n]] # NoWorker IN
    /\ q \in ops
    /\ ops' = (ops \ {q}) \cup {[op |-> IF found THEN "update" ELSE "insert", conn |-> n]}
    /\ UNCHANGED <<worker, sessVars, chan, cmap, apiVars, histVars>>

\* The entry of connection n is written while the client is still there.
NoteInTime(n) ==
    inTime' = IF sock[n] = "open" THEN inTime \cup {n} ELSE inTime

\* pushid is the primary key and clientid is unique: an insert succeeds only
\* if the client has no row, under this push id or another.
Insertable(p) ==
    \A q \in PushIds : ClientOf[q] = ClientOf[p] => cmap[q] = NoWorker

\* MySqlClientMap.insert; a refused insert is logged by processAddClient.
Insert(n) ==
    LET q == [op |-> "insert", conn |-> n]
        p == PushIdOf[n] IN
    /\ q \in ops
    /\ ops' = ops \ {q}
    /\ \/ /\ Insertable(p)
          /\ cmap' = [cmap EXCEPT ![p] = WorkerOf[n]]
          /\ NoteInTime(n)
       \/ /\ ~Insertable(p)
          /\ UNCHANGED <<cmap, inTime>>
    /\ UNCHANGED <<worker, sessVars, chan, apiVars, faulty>>

\* MySqlClientMap.updateInstance: no effect, and no error, if the row is gone.
Update(n) ==
    LET q == [op |-> "update", conn |-> n]
        p == PushIdOf[n] IN
    /\ q \in ops
    /\ ops' = ops \ {q}
    /\ \/ /\ cmap[p] # NoWorker
          /\ cmap' = [cmap EXCEPT ![p] = WorkerOf[n]]
          /\ NoteInTime(n)
       \/ /\ cmap[p] = NoWorker
          /\ UNCHANGED <<cmap, inTime>>
    /\ UNCHANGED <<worker, sessVars, chan, apiVars, faulty>>

\* Mutant: all rows of the client are deleted.
RemoveByClient(n) ==
    LET q == [op |-> "remove", conn |-> n] IN
    /\ q \in ops
    /\ ops' = ops \ {q}
    /\ cmap' = [p \in PushIds |-> IF ClientOf[p] = ClientOfConn(n) THEN NoWorker ELSE cmap[p]]
    /\ UNCHANGED <<worker, sessVars, chan, apiVars, histVars>>

\* MySqlClientMap.remove: by push id, whoever wrote the row.
Remove(n) ==
    LET q == [op |-> "remove", conn |-> n] IN
    /\ q \in ops
    /\ ops' = ops \ {q}
    /\ cmap' = [cmap EXCEPT ![PushIdOf[n]] = NoWorker]
    /\ UNCHANGED <<worker, sessVars, chan, apiVars, histVars>>

\* A query fails: the error is logged, nothing is retried.
QueryFails(q) ==
    /\ DbMayFail
    /\ q \in ops
    /\ ops' = ops \ {q}
    /\ faulty' = faulty \cup {PushIdOf[q.conn]}
    /\ UNCHANGED <<worker, sessVars, chan, cmap, apiVars, inTime>>

-----------------------------------------------------------------------------
(* The push API's use of the map.                                          *)

\* Push.getClientInfo.
GetClientInfo(p) ==
    /\ look[p] = NoWorker
    /\ cmap[p] # NoWorker
    /\ look' = [look EXCEPT ![p] = cmap[p]]
    /\ UNCHANGED <<worker, sessVars, chan, ops, cmap, lazy, histVars>>

\* Mutant: an id that was ever forked passes.
EverForked(w) == worker[w] # "unforked"

\* PoolLayer.sendMsgToWorker: workerId of cluster.workers.
Reachable(w) == worker[w] = "up"

\* Push.localPush goes no further than the lookup: Push.validate refuses the request
\* or createPushRequest cannot save it.
GiveUp(p) ==
    /\ look[p] # NoWorker
    /\ look' = [look EXCEPT ![p] = NoWorker]
    /\ UNCHANGED <<worker, sessVars, chan, ops, cmap, lazy, histVars>>

\* Push.sendPushRequestToWorker: an unknown worker id makes the handler delete
\* the entry; a known one gets SERVER_PUSH, which changes nothing here.
SendToWorker(p) ==
    /\ look[p] # NoWorker
    /\ look' = [look EXCEPT ![p] = NoWorker]
    /\ lazy' = IF Reachable(look[p]) THEN lazy ELSE lazy \cup {p}
    /\ UNCHANGED <<worker, sessVars, chan, ops, cmap, histVars>>

\* Push.deleteFromClientMap: by push id, whatever the row says by now.
LazyRemove(p) ==
    /\ p \in lazy
    /\ lazy' = lazy \ {p}
    /\ cmap' = [cmap EXCEPT ![p] = NoWorker]
    /\ UNCHANGED <<worker, sessVars, chan, ops, look, histVars>>

\* The deletion fails: logged, and the entry stays.
LazyRemoveFails(p) ==
    /\ DbMayFail
    /\ p \in lazy
    /\ lazy' = lazy \ {p}
    /\ UNCHANGED <<worker, sessVars, chan, ops, cmap, look, histVars>>

-----------------------------------------------------------------------------
ListenStep(n) ==
    CreateSession(n) \/ NotifyMasterAddClient(n) \/ SetReqSocketCloseHandler(n)

QueryStep(n) == Find(n) \/ Insert(n) \/ Update(n) \/ Remove(n)

Next ==
    \/ \E n \in Conns :
         Accept(n) \/ ListenStep(n) \/ CloseHandled(n) \/ CloseMissed(n) \/ QueryStep(n)
    \/ \E w \in Workers : WorkerExit(w) \/ HandleWorkerMessage(w)
    \/ \E q \in ops : QueryFails(q)
    \/ \E p \in PushIds :
         \/ GetClientInfo(p) \/ GiveUp(p) \/ SendToWorker(p)
         \/ LazyRemove(p) \/ LazyRemoveFails(p)

Spec == Init /\ [][Next]_vars

\* MySQL answers a deletion, with an error or without; clients, workers and the
\* application need not do anything.
Fairness ==
    \A p \in PushIds : WF_vars(LazyRemove(p) \/ LazyRemoveFails(p))

FairSpec == Spec /\ Fairness

-----------------------------------------------------------------------------
(* Messages and queries under way.                                         *)

AddMsg(n) == [head |-> "ADD_CLIENT", conn |-> n]
DelMsg(n) == [head |-> "DEL_CLIENT", conn |-> n]
Op(o, n) == [op |-> o, conn |-> n]

\* Message m is on its way from worker w to the master.
Sent(w, m) == \E i \in 1 .. Len(chan[w]) : chan[w][i] = m

AddSent(n) == Sent(WorkerOf[n], AddMsg(n))
DelSent(n) == Sent(WorkerOf[n], DelMsg(n))

\* The entry of connection n is still to be written, or to be deleted.
AddPending(n) ==
    AddSent(n) \/ Op("find", n) \in ops \/ Op("insert", n) \in ops \/ Op("update", n) \in ops
DelPending(n) == DelSent(n) \/ Op("remove", n) \in ops

-----------------------------------------------------------------------------
(* Properties.                                                             *)

\* Nothing about connection n is on its way to the map or being decided.
Quiet(n) ==
    /\ lst[n] \in {"none", "listening", "left", "gone"}
    /\ \A i \in 1 .. Len(chan[WorkerOf[n]]) : chan[WorkerOf[n]][i].conn # n
    /\ \A q \in ops : q.conn # n

\* n is the only connection its client ever made.
Lone(n) ==
    \A m \in Conns \ {n} : ClientOfConn(m) = ClientOfConn(n) => lst[m] = "none"

\* Once everything about a client's only connection has settled, the client
\* can be reached exactly if it is connected: the map names its worker and the
\* worker has its session while the socket is open, and the entry is gone
\* after a close that was handled and came after the add was done.
LoneClientSettles ==
    \A n \in Conns :
        LET p == PushIdOf[n] IN
        Lone(n) /\ Quiet(n) /\ p \notin faulty =>
            /\ lst[n] = "listening" /\ sock[n] = "open" =>
                 /\ cmap[p] = WorkerOf[n]
                 /\ sessionMap[WorkerOf[n]][ClientOf[p]] = n
            /\ lst[n] = "left" /\ n \in inTime => cmap[p] = NoWorker

\* SessionManager.numSessions, which is only ever incremented and decremented,
\* is the number of sessions in sessionMap however connections of a client
\* replace and outlive each other.
SessionsCounted ==
    \A w \in Workers :
        numSessions[w] = Cardinality({c \in Clients : sessionMap[w][c] # NoConn})

\* A client never has two entries, so no application can reach it under a
\* push id that a refresh replaced while it is listed under the new one.
OneEntryPerClient ==
    \A p, q \in PushIds :
        ClientOf[p] = ClientOf[q] /\ cmap[p] # NoWorker /\ cmap[q] # NoWorker => p = q

\* A connection as ClientDirectory sees it.
Phase(n) == CASE lst[n] = "none" -> "new"
              [] lst[n] = "left" -> "left"
              [] lst[n] = "gone" -> "lost"
              [] OTHER           -> "here"

Phases == [n \in Conns |-> Phase(n)]
Due == {n \in Conns : lst[n] \in {"valid", "created"} \/ AddPending(n)}
Owed == {n \in Conns : DelPending(n)}
Exited == {w \in Workers : worker[w] = "dead"}

Directory == INSTANCE ClientDirectory
             WITH phase <- Phases, due <- Due, owed <- Owed, entry <- cmap,
                  exited <- Exited, asked <- look, doubted <- lazy

\* The sessions, the messages to the master and the queries in any order implement
\* ClientDirectory: a listen request writes the map once at most, a handled close
\* deletes from it once at most and only under its own push id, and a push deletes
\* only after it was told of a worker that has exited, if its own queries succeed.
KeepsDirectory == Directory!Spec

\* An entry that names a dead worker does not outlive the pushes that go on meeting
\* it: if pushes to a push id keep reaching PoolLayer.sendMsgToWorker, its entry keeps
\* being absent or naming a live worker, unless the deletions keep failing.  A push may
\* act on a lookup that is stale, and may delete an entry newer than the one it read.
DeadEntryIsDropped ==
    \A p \in PushIds :
        []<><<SendToWorker(p)>>_vars =>
            \/ []<>(cmap[p] = NoWorker \/ worker[cmap[p]] # "dead")
            \/ []<><<LazyRemoveFails(p)>>_vars

=============================================================================
