------------------------ MODULE ClientRegistryProofs ------------------------
(***************************************************************************)
(* For any number of clients, push ids, connections and workers, with      *)
(* queries that fail or take effect in any order and workers that exit:    *)
(* sessions are counted right, a client has one entry in the client map,   *)
(* and a client that only ever made one connection is listed under it.     *)
(***************************************************************************)
EXTENDS ClientRegistry, FiniteSetTheorems, SequenceTheorems, TLAPS

-----------------------------------------------------------------------------
(* Sessions and entries.                                                   *)

\* The clients with a session at worker w.
Present(w) == {c \in Clients : sessionMap[w][c] # NoConn}

\* Types, and the two invariants that need nothing else.
BaseInv == TypeOK /\ SessionsCounted /\ OneEntryPerClient

\* A session added at worker w, to no avail if the client had one.
LEMMA AddedSession ==
  ASSUME TypeOK, SessionsCounted, NEW w \in Workers, NEW c \in Clients, NEW n \in Conns,
         sessionMap' = [sessionMap EXCEPT ![w][c] = n],
         numSessions' = [numSessions EXCEPT ![w] = @ + Counted(w, c)]
  PROVE  SessionsCounted' /\ numSessions' \in [Workers -> Nat]
<1>1. ASSUME NEW v \in Workers
      PROVE  numSessions'[v] = Cardinality(Present(v)') /\ numSessions'[v] \in Nat
  <2>0. /\ numSessions[v] = Cardinality(Present(v)) /\ numSessions[v] \in Nat
        /\ IsFiniteSet(Present(v))
    <3>1. Present(v) \subseteq Clients
      BY DEF Present
    <3> QED
      BY <1>1, <3>1, RegistryAssumption, FS_Subset DEF SessionsCounted, Present, TypeOK
  <2>1. CASE v # w
    BY <1>1, <2>0, <2>1 DEF TypeOK, Present
  <2>2. CASE v = w /\ sessionMap[w][c] = NoConn
    <3>1. c \notin Present(v) /\ Present(v)' = Present(v) \cup {c}
      BY <2>2, RegistryAssumption DEF TypeOK, Present
    <3>2. Cardinality(Present(v)') = Cardinality(Present(v)) + 1
      BY <2>0, <3>1, FS_AddElement
    <3> QED
      BY <2>0, <2>2, <3>2 DEF TypeOK, Counted
  <2>3. CASE v = w /\ sessionMap[w][c] # NoConn
    <3>1. Present(v)' = Present(v)
      BY <2>3, RegistryAssumption DEF TypeOK, Present
    <3> QED
      BY <2>0, <2>3, <3>1 DEF TypeOK, Counted
  <2> QED
    BY <2>1, <2>2, <2>3
<1>2. numSessions' \in [Workers -> Nat]
  BY <1>1 DEF TypeOK
<1> QED
  BY <1>1, <1>2 DEF SessionsCounted, Present

\* A session deleted at worker w, if the client had one.
LEMMA DeletedSession ==
  ASSUME TypeOK, SessionsCounted, NEW w \in Workers, NEW c \in Clients,
         sessionMap' = [sessionMap EXCEPT ![w][c] = NoConn],
         numSessions' = [numSessions EXCEPT ![w] = @ - Discounted(w, c)]
  PROVE  SessionsCounted' /\ numSessions' \in [Workers -> Nat]
<1>1. ASSUME NEW v \in Workers
      PROVE  numSessions'[v] = Cardinality(Present(v)') /\ numSessions'[v] \in Nat
  <2>0. /\ numSessions[v] = Cardinality(Present(v)) /\ numSessions[v] \in Nat
        /\ IsFiniteSet(Present(v))
    <3>1. Present(v) \subseteq Clients
      BY DEF Present
    <3> QED
      BY <1>1, <3>1, RegistryAssumption, FS_Subset DEF SessionsCounted, Present, TypeOK
  <2>1. CASE v # w
    BY <1>1, <2>0, <2>1 DEF TypeOK, Present
  <2>2. CASE v = w /\ sessionMap[w][c] # NoConn
    <3>1. c \in Present(v) /\ Present(v)' = Present(v) \ {c}
      BY <2>2, RegistryAssumption DEF TypeOK, Present
    <3>2. /\ Cardinality(Present(v)') = Cardinality(Present(v)) - 1
          /\ IsFiniteSet(Present(v)')
      BY <2>0, <3>1, FS_RemoveElement
    <3>3. Cardinality(Present(v)') \in Nat
      BY <3>2, FS_CardinalityType
    <3>4. numSessions'[v] = numSessions[v] - 1
      BY <2>2 DEF TypeOK, Discounted
    <3> QED
      BY <2>0, <3>2, <3>3, <3>4
  <2>3. CASE v = w /\ sessionMap[w][c] = NoConn
    <3>1. Present(v)' = Present(v)
      BY <2>3, RegistryAssumption DEF TypeOK, Present
    <3>2. numSessions'[v] = numSessions[v]
      BY <2>0, <2>3 DEF TypeOK, Discounted
    <3> QED
      BY <2>0, <3>1, <3>2
  <2> QED
    BY <2>1, <2>2, <2>3
<1>2. numSessions' \in [Workers -> Nat]
  BY <1>1 DEF TypeOK
<1> QED
  BY <1>1, <1>2 DEF SessionsCounted, Present

\* Initially there are no sessions and no entries.
LEMMA BaseInit == Init => BaseInv
<1> SUFFICES ASSUME Init PROVE BaseInv
  OBVIOUS
<1>1. TypeOK
  BY RegistryAssumption DEF Init, TypeOK
<1>2. \A w \in Workers : {c \in Clients : sessionMap[w][c] # NoConn} = {}
  BY DEF Init
<1>3. SessionsCounted
  BY <1>2, FS_EmptySet DEF Init, SessionsCounted
<1>4. OneEntryPerClient
  BY DEF Init, OneEntryPerClient
<1> QED
  BY <1>1, <1>3, <1>4 DEF BaseInv

\* Every step preserves the types and the two invariants.
LEMMA BaseStep == BaseInv /\ [Next]_vars => BaseInv'
<1> SUFFICES ASSUME BaseInv, [Next]_vars PROVE BaseInv'
  OBVIOUS
<1> USE RegistryAssumption DEF BaseInv, sessVars, apiVars, histVars
<1>0. /\ \A n \in Conns : PushIdOf[n] \in PushIds /\ WorkerOf[n] \in Workers /\ ClientOfConn(n) \in Clients
      /\ \A h \in {"ADD_CLIENT", "DEL_CLIENT"}, n \in Conns : [head |-> h, conn |-> n] \in Messages
      /\ \A o \in {"find", "insert", "update", "remove"}, n \in Conns : [op |-> o, conn |-> n] \in Queries
  BY DEF ClientOfConn, Messages, Queries
<1>t. TypeOK
  OBVIOUS
<1>1. ASSUME NEW n \in Conns, Accept(n) PROVE BaseInv'
  BY <1>1 DEF Accept, TypeOK, SessionsCounted, OneEntryPerClient
<1>2. ASSUME NEW n \in Conns, CreateSession(n) PROVE BaseInv'
  <2>1. SessionsCounted' /\ numSessions' \in [Workers -> Nat]
    BY <1>0, <1>2, AddedSession DEF CreateSession
  <2>2. sessionMap' \in [Workers -> [Clients -> Conns \cup {NoConn}]]
    BY <1>0, <1>2 DEF CreateSession, TypeOK
  <2> QED
    BY <1>2, <2>1, <2>2 DEF CreateSession, TypeOK, OneEntryPerClient
<1>3. ASSUME NEW n \in Conns, NotifyMasterAddClient(n) PROVE BaseInv'
  <2>1. chan' \in [Workers -> Seq(Messages)]
    BY <1>0, <1>3 DEF NotifyMasterAddClient, Tell, TypeOK
  <2> QED
    BY <1>3, <2>1 DEF NotifyMasterAddClient, TypeOK, SessionsCounted, OneEntryPerClient
<1>4. ASSUME NEW n \in Conns, SetReqSocketCloseHandler(n) PROVE BaseInv'
  BY <1>4 DEF SetReqSocketCloseHandler, TypeOK, SessionsCounted, OneEntryPerClient
<1>5. ASSUME NEW n \in Conns, CloseHandled(n) PROVE BaseInv'
  <2>1. SessionsCounted' /\ numSessions' \in [Workers -> Nat]
    BY <1>0, <1>5, DeletedSession DEF CloseHandled
  <2>2. sessionMap' \in [Workers -> [Clients -> Conns \cup {NoConn}]]
    BY <1>0, <1>5 DEF CloseHandled, TypeOK
  <2>3. chan' \in [Workers -> Seq(Messages)]
    BY <1>0, <1>5 DEF CloseHandled, NotifyMasterDelClient, Tell, TypeOK
  <2> QED
    BY <1>5, <2>1, <2>2, <2>3 DEF CloseHandled, TypeOK, OneEntryPerClient
<1>6. ASSUME NEW n \in Conns, CloseMissed(n) PROVE BaseInv'
  BY <1>6 DEF CloseMissed, TypeOK, SessionsCounted, OneEntryPerClient
<1>7. ASSUME NEW w \in Workers, WorkerExit(w) PROVE BaseInv'
  <2>1. worker' \in [Workers -> {"unforked", "up", "dead"}]
    BY <1>7 DEF WorkerExit, TypeOK
  <2>2. lst' \in [Conns -> {"none", "valid", "created", "notified", "listening", "left", "gone"}]
    BY <1>7 DEF WorkerExit, TypeOK
  <2>3. sock' \in [Conns -> {"none", "open", "closed"}]
    BY <1>7 DEF WorkerExit, TypeOK
  <2>4. sessionMap' \in [Workers -> [Clients -> Conns \cup {NoConn}]] /\ numSessions' \in [Workers -> Nat]
    BY <1>7 DEF WorkerExit, TypeOK
  <2>5. chan' \in [Workers -> Seq(Messages)]
    <3>1. PICK k \in 0 .. Len(chan[w]) : chan' = [chan EXCEPT ![w] = SubSeq(@, 1, k)]
      BY <1>7 DEF WorkerExit
    <3>2. SubSeq(chan[w], 1, k) \in Seq(Messages)
      BY <3>1, SubSeqProperties DEF TypeOK
    <3> QED
      BY <3>1, <3>2 DEF TypeOK
  <2>6. SessionsCounted'
    <3>1. ASSUME NEW v \in Workers
          PROVE  numSessions'[v] = Cardinality({c \in Clients : sessionMap'[v][c] # NoConn})
      <4>1. CASE v = w
        <5>1. numSessions'[v] = 0 /\ {c \in Clients : sessionMap'[v][c] # NoConn} = {}
          BY <1>7, <4>1 DEF WorkerExit, TypeOK
        <5> QED
          BY <5>1, FS_EmptySet
      <4>2. CASE v # w
        BY <1>7, <4>2 DEF WorkerExit, TypeOK, SessionsCounted
      <4> QED
        BY <4>1, <4>2
    <3> QED
      BY <3>1 DEF SessionsCounted
  <2> QED
    BY <1>7, <2>1, <2>2, <2>3, <2>4, <2>5, <2>6 DEF WorkerExit, TypeOK, OneEntryPerClient
<1>8. ASSUME NEW w \in Workers, HandleWorkerMessage(w) PROVE BaseInv'
  <2>1. chan[w] \in Seq(Messages) /\ chan[w] # << >>
    BY <1>8 DEF HandleWorkerMessage, TypeOK
  <2>2. Head(chan[w]) \in Messages /\ Tail(chan[w]) \in Seq(Messages)
    BY <2>1
  <2>3. Head(chan[w]).conn \in Conns
    BY <2>2 DEF Messages
  <2>4. chan' \in [Workers -> Seq(Messages)]
    BY <1>8, <2>2 DEF HandleWorkerMessage, TypeOK
  <2>5. ops' \subseteq Queries
    BY <1>0, <1>8, <2>3 DEF HandleWorkerMessage, TypeOK
  <2> QED
    BY <1>8, <2>4, <2>5 DEF HandleWorkerMessage, TypeOK, SessionsCounted, OneEntryPerClient
<1>9. ASSUME NEW n \in Conns, Find(n) PROVE BaseInv'
  <2>1. ops' \subseteq Queries
    BY <1>0, <1>9 DEF Find, TypeOK
  <2> QED
    BY <1>9, <2>1 DEF Find, TypeOK, SessionsCounted, OneEntryPerClient
<1>10. ASSUME NEW n \in Conns, Insert(n) PROVE BaseInv'
  <2>1. TypeOK'
    BY <1>0, <1>10 DEF Insert, NoteInTime, TypeOK
  <2>2. OneEntryPerClient'
    <3>1. CASE Insertable(PushIdOf[n]) /\ cmap' = [cmap EXCEPT ![PushIdOf[n]] = WorkerOf[n]]
      <4>1. \A p \in PushIds : cmap'[p] = IF p = PushIdOf[n] THEN WorkerOf[n] ELSE cmap[p]
        BY <1>0, <3>1 DEF TypeOK
      <4> QED
        BY <1>0, <3>1, <4>1 DEF Insertable, OneEntryPerClient
    <3>2. CASE cmap' = cmap
      BY <3>2 DEF OneEntryPerClient
    <3> QED
      BY <1>10, <3>1, <3>2 DEF Insert
  <2> QED
    BY <1>10, <2>1, <2>2 DEF Insert, SessionsCounted
<1>11. ASSUME NEW n \in Conns, Update(n) PROVE BaseInv'
  <2>1. TypeOK'
    BY <1>0, <1>11 DEF Update, NoteInTime, TypeOK
  <2>2. \A p \in PushIds : cmap'[p] # NoWorker => cmap[p] # NoWorker
    BY <1>0, <1>11 DEF Update, TypeOK
  <2> QED
    BY <1>11, <2>1, <2>2 DEF Update, SessionsCounted, OneEntryPerClient
<1>12. ASSUME NEW n \in Conns, Remove(n) PROVE BaseInv'
  <2>1. TypeOK'
    BY <1>0, <1>12 DEF Remove, TypeOK
  <2>2. \A p \in PushIds : cmap'[p] # NoWorker => cmap[p] # NoWorker
    BY <1>0, <1>12 DEF Remove, TypeOK
  <2> QED
    BY <1>12, <2>1, <2>2 DEF Remove, SessionsCounted, OneEntryPerClient
<1>13. ASSUME NEW q \in ops, QueryFails(q) PROVE BaseInv'
  <2>1. q.conn \in Conns
    BY DEF TypeOK, Queries
  <2> QED
    BY <1>0, <1>13, <2>1 DEF QueryFails, TypeOK, SessionsCounted, OneEntryPerClient
<1>14. ASSUME NEW p \in PushIds, GetClientInfo(p) PROVE BaseInv'
  BY <1>14 DEF GetClientInfo, TypeOK, SessionsCounted, OneEntryPerClient
<1>15. ASSUME NEW p \in PushIds, SendToWorker(p) PROVE BaseInv'
  BY <1>15 DEF SendToWorker, TypeOK, SessionsCounted, OneEntryPerClient
<1>16. ASSUME NEW p \in PushIds, LazyRemove(p) PROVE BaseInv'
  <2>1. TypeOK'
    BY <1>16 DEF LazyRemove, TypeOK
  <2>2. \A q \in PushIds : cmap'[q] # NoWorker => cmap[q] # NoWorker
    BY <1>16 DEF LazyRemove, TypeOK
  <2> QED
    BY <1>16, <2>1, <2>2 DEF LazyRemove, SessionsCounted, OneEntryPerClient
<1>18. ASSUME NEW p \in PushIds, GiveUp(p) PROVE BaseInv'
  BY <1>18 DEF GiveUp, TypeOK, SessionsCounted, OneEntryPerClient
<1>19. ASSUME NEW p \in PushIds, LazyRemoveFails(p) PROVE BaseInv'
  BY <1>19 DEF LazyRemoveFails, TypeOK, SessionsCounted, OneEntryPerClient
<1>17. CASE UNCHANGED vars
  BY <1>17 DEF vars, TypeOK, SessionsCounted, OneEntryPerClient
<1> QED
  BY <1>1, <1>2, <1>3, <1>4, <1>5, <1>6, <1>7, <1>8, <1>9, <1>10, <1>11, <1>12, <1>13,
     <1>14, <1>15, <1>16, <1>17, <1>18, <1>19
  DEF Next, ListenStep, QueryStep

\* Types, session counts and entries, throughout.
THEOREM BaseInvariance == Spec => []BaseInv
  BY BaseInit, BaseStep, PTL DEF Spec

\* SessionManager.numSessions is the number of sessions (addSession,
\* deleteSession), whichever connections replace each other.
THEOREM SessionCountExact == Spec => []SessionsCounted
<1>1. BaseInv => SessionsCounted
  BY DEF BaseInv
<1> QED
  BY <1>1, BaseInvariance, PTL

\* The client map never lists a client twice (the unique keys of
\* connected_push_id), in whichever order its queries take effect.
THEOREM ListedOnce == Spec => []OneEntryPerClient
<1>1. BaseInv => OneEntryPerClient
  BY DEF BaseInv
<1> QED
  BY <1>1, BaseInvariance, PTL

-----------------------------------------------------------------------------
(* Messages and queries under way.                                         *)

\* A worker speaks of its own connections and says everything once.
ChannelOf(w, s) ==
    \A i \in 1 .. Len(s) :
        /\ WorkerOf[s[i].conn] = w
        /\ \A j \in 1 .. Len(s) : s[i] = s[j] => i = j

ChanInv == \A w \in Workers : ChannelOf(w, chan[w])

\* The farewell of a connection is at one place at a time.
OneDel == \A n \in Conns : DelSent(n) => Op("remove", n) \notin ops

\* The add of a connection is at one place at a time, and over once it is noted.
OneAdd ==
    \A n \in Conns :
        /\ AddSent(n) => /\ Op("find", n) \notin ops
                         /\ Op("insert", n) \notin ops
                         /\ Op("update", n) \notin ops
        /\ Op("find", n) \in ops => Op("insert", n) \notin ops /\ Op("update", n) \notin ops
        /\ Op("insert", n) \in ops => Op("update", n) \notin ops
        /\ n \in inTime => ~AddPending(n)

\* What is under way for a connection fits the progress of its handler.
HandlerOrder ==
    \A n \in Conns :
        /\ AddPending(n) \/ n \in inTime => lst[n] \in {"notified", "listening", "left", "gone"}
        /\ DelPending(n) => lst[n] \in {"left", "gone"}
        /\ lst[n] = "left" => sock[n] # "open"

\* Handlers run in workers that are up; what was ever connected to, listed or
\* looked up was up once.
WorkersKnown ==
    /\ \A n \in Conns : lst[n] \notin {"none", "gone"} => worker[WorkerOf[n]] = "up"
    /\ \A n \in Conns : lst[n] # "none" => worker[WorkerOf[n]] # "unforked"
    /\ \A p \in PushIds : cmap[p] # NoWorker => worker[cmap[p]] # "unforked"
    /\ \A p \in PushIds : look[p] # NoWorker => worker[look[p]] # "unforked"

FlowInv == ChanInv /\ OneAdd /\ OneDel /\ HandlerOrder /\ WorkersKnown

-----------------------------------------------------------------------------
(* A client with one connection.                                           *)

\* Nothing is listed of the client of a lone connection until its add is done,
\* and then nothing but the connection's worker.
LoneEntry(n) ==
    /\ AddPending(n) \/ lst[n] \in {"none", "valid", "created"} =>
           \A q \in PushIds : ClientOf[q] = ClientOfConn(n) => cmap[q] = NoWorker
    /\ Op("update", n) \notin ops
    /\ cmap[PushIdOf[n]] \in {NoWorker, WorkerOf[n]}

\* The push API deletes the entry only if the worker is gone.
LoneLookup(n) ==
    /\ look[PushIdOf[n]] \in {NoWorker, WorkerOf[n]}
    /\ PushIdOf[n] \in lazy => worker[WorkerOf[n]] = "dead"

\* The session is there from createSession until the close.
LoneSession(n) ==
    lst[n] \in {"created", "notified", "listening"} =>
        sessionMap[WorkerOf[n]][ClientOfConn(n)] = n

\* While the handler is there the entry is or will be, unless a query failed;
\* after the close that follows the add it is not, or will not be.
LoneProgress(n) ==
    PushIdOf[n] \notin faulty =>
        /\ lst[n] \in {"notified", "listening"} => AddPending(n) \/ cmap[PushIdOf[n]] = WorkerOf[n]
        /\ lst[n] = "left" /\ n \in inTime => DelPending(n) \/ cmap[PushIdOf[n]] = NoWorker

LoneOf(n) == LoneEntry(n) /\ LoneLookup(n) /\ LoneSession(n) /\ LoneProgress(n)

LoneInv == \A n \in Conns : Lone(n) => LoneOf(n)

-----------------------------------------------------------------------------
(* The channels.                                                           *)

\* Messages, queries and what is sent are told apart by kind and connection.
LEMMA Distinct ==
  ASSUME NEW n \in Conns, NEW k \in Conns
  PROVE  /\ AddMsg(n) # DelMsg(k)
         /\ AddMsg(n) = AddMsg(k) => n = k
         /\ DelMsg(n) = DelMsg(k) => n = k
         /\ \A o, u \in {"find", "insert", "update", "remove"} : Op(o, n) = Op(u, k) => o = u /\ n = k
         /\ \A o : Op(o, n).conn = n /\ Op(o, n).op = o
  BY DEF AddMsg, DelMsg, Op

\* A message told is the last one of its channel (process.send).
LEMMA TellSent ==
  ASSUME TypeOK, NEW v \in Workers, NEW x \in Messages, chan' = [chan EXCEPT ![v] = Append(@, x)],
         NEW w \in Workers, NEW m
  PROVE  Sent(w, m)' <=> Sent(w, m) \/ (w = v /\ m = x)
<1>1. chan[w] \in Seq(Messages) /\ chan[v] \in Seq(Messages)
  BY DEF TypeOK
<1>2. CASE w # v
  <2>1. chan'[w] = chan[w]
    BY <1>2 DEF TypeOK
  <2> QED
    BY <1>2, <2>1 DEF Sent
<1>3. CASE w = v
  <2>1. chan'[w] = Append(chan[w], x)
    BY <1>3 DEF TypeOK
  <2>2. /\ Len(chan'[w]) = Len(chan[w]) + 1 /\ Len(chan[w]) \in Nat
        /\ \A i \in 1 .. Len(chan[w]) : chan'[w][i] = chan[w][i]
        /\ chan'[w][Len(chan[w]) + 1] = x
    BY <1>1, <2>1
  <2>3. Sent(w, m)' => Sent(w, m) \/ m = x
    BY <2>2 DEF Sent
  <2>4. Sent(w, m) => Sent(w, m)'
    BY <2>2 DEF Sent
  <2>5. m = x => Sent(w, m)'
    BY <2>2 DEF Sent
  <2> QED
    BY <1>3, <2>3, <2>4, <2>5
<1> QED
  BY <1>2, <1>3

\* A connection that was not announced may be, and may say farewell once.
LEMMA TellChan ==
  ASSUME TypeOK, ChanInv, NEW n \in Conns, NEW x \in {AddMsg(n), DelMsg(n)},
         chan' = [chan EXCEPT ![WorkerOf[n]] = Append(@, x)], ~Sent(WorkerOf[n], x)
  PROVE  ChanInv'
<1> DEFINE v == WorkerOf[n]
           s == chan[v]
           t == Append(s, x)
<1>0. v \in Workers /\ x \in Messages /\ x.conn = n
  BY RegistryAssumption DEF AddMsg, DelMsg, Messages
<1>1. s \in Seq(Messages) /\ ChannelOf(v, s)
  BY <1>0 DEF TypeOK, ChanInv
<1>2. /\ Len(t) = Len(s) + 1 /\ Len(s) \in Nat
      /\ \A i \in 1 .. Len(s) : t[i] = s[i]
      /\ t[Len(s) + 1] = x
  BY <1>0, <1>1
<1>3. \A i \in 1 .. Len(s) : s[i] # x
  BY DEF Sent
<1> HIDE DEF s, t
<1>4. ChannelOf(v, t)
  <2>1. ASSUME NEW i \in 1 .. Len(t)
        PROVE  /\ WorkerOf[t[i].conn] = v
               /\ \A j \in 1 .. Len(t) : t[i] = t[j] => i = j
    <3>1. CASE i \in 1 .. Len(s)
      BY <1>0, <1>1, <1>2, <1>3, <3>1 DEF ChannelOf
    <3>2. CASE i = Len(s) + 1
      BY <1>0, <1>1, <1>2, <1>3, <3>2 DEF ChannelOf
    <3> QED
      BY <1>2, <2>1, <3>1, <3>2
  <2> QED
    BY <2>1 DEF ChannelOf
<1>5. ASSUME NEW w \in Workers PROVE ChannelOf(w, chan'[w])
  <2>1. chan'[w] = IF w = v THEN t ELSE chan[w]
    BY DEF TypeOK, s, t
  <2> QED
    BY <1>4, <2>1 DEF ChanInv
<1> QED
  BY <1>5 DEF ChanInv

\* The master takes the first message of a channel (handleWorkerMessage).
LEMMA TakeSent ==
  ASSUME TypeOK, NEW v \in Workers, chan[v] # << >>, chan' = [chan EXCEPT ![v] = Tail(@)],
         NEW w \in Workers, NEW m
  PROVE  /\ Sent(w, m)' => Sent(w, m)
         /\ Sent(w, m) => Sent(w, m)' \/ (w = v /\ m = Head(chan[v]))
<1>1. chan[w] \in Seq(Messages) /\ chan[v] \in Seq(Messages)
  BY DEF TypeOK
<1>2. CASE w # v
  <2>1. chan'[w] = chan[w]
    BY <1>2 DEF TypeOK
  <2> QED
    BY <2>1 DEF Sent
<1>3. CASE w = v
  <2>1. chan'[w] = Tail(chan[w])
    BY <1>3 DEF TypeOK
  <2>2. /\ Len(chan'[w]) = Len(chan[w]) - 1 /\ Len(chan[w]) \in Nat /\ Len(chan[w]) # 0
        /\ \A i \in 1 .. Len(chan'[w]) : chan'[w][i] = chan[w][i + 1]
        /\ Head(chan[w]) = chan[w][1]
    <3>1. /\ Len(Tail(chan[w])) = Len(chan[w]) - 1
          /\ \A i \in 1 .. Len(Tail(chan[w])) : Tail(chan[w])[i] = chan[w][i + 1]
      BY <1>1, <1>3, HeadTailProperties
    <3>2. Len(chan[w]) \in Nat \ {0}
      BY <1>1, <1>3, EmptySeq
    <3>3. Head(chan[w]) = chan[w][1]
      BY <1>1
    <3> QED
      BY <2>1, <3>1, <3>2, <3>3
  <2>3. Sent(w, m)' => Sent(w, m)
    BY <2>2 DEF Sent
  <2>4. ASSUME Sent(w, m) PROVE Sent(w, m)' \/ m = Head(chan[w])
    <3>1. PICK i \in 1 .. Len(chan[w]) : chan[w][i] = m
      BY <2>4 DEF Sent
    <3>2. CASE i = 1
      BY <2>2, <3>1, <3>2
    <3>3. CASE i # 1
      <4>1. i - 1 \in 1 .. Len(chan'[w]) /\ chan'[w][i - 1] = m
        BY <2>2, <3>1, <3>3
      <4> QED
        BY <4>1 DEF Sent
    <3> QED
      BY <3>2, <3>3
  <2> QED
    BY <1>3, <2>3, <2>4
<1> QED
  BY <1>2, <1>3

\* ... after which it is not sent any more.
LEMMA TakeChan ==
  ASSUME TypeOK, ChanInv, NEW v \in Workers, chan[v] # << >>, chan' = [chan EXCEPT ![v] = Tail(@)],
         NEW x, x = Head(chan[v])
  PROVE  /\ ChanInv'
         /\ Sent(v, x) /\ WorkerOf[x.conn] = v
         /\ ~Sent(v, x)'
<1> DEFINE s == chan[v]
           t == Tail(s)
<1>1. s \in Seq(Messages) /\ s # << >> /\ ChannelOf(v, s)
  BY DEF TypeOK, ChanInv
<1>2. /\ Len(t) = Len(s) - 1 /\ Len(s) \in Nat /\ Len(s) # 0
      /\ \A i \in 1 .. Len(t) : t[i] = s[i + 1]
      /\ x = s[1]
  <2>1. /\ Len(t) = Len(s) - 1
        /\ \A i \in 1 .. Len(t) : t[i] = s[i + 1]
    BY <1>1, HeadTailProperties
  <2>2. Len(s) \in Nat \ {0}
    BY <1>1, EmptySeq
  <2>3. x = s[1]
    BY <1>1
  <2> QED
    BY <2>1, <2>2, <2>3
<1>3. chan'[v] = t
  BY DEF TypeOK
<1>4. \A w \in Workers : chan'[w] = IF w = v THEN t ELSE chan[w]
  BY DEF TypeOK
<1>5. Sent(v, x)
  BY <1>2 DEF Sent
<1>6. (\A i \in 1 .. Len(t) : t[i] # x) => ~Sent(v, x)'
  BY <1>3 DEF Sent
<1> HIDE DEF s, t
<1>7. /\ 1 \in 1 .. Len(s)
      /\ \A i \in 1 .. Len(t) : i + 1 \in 1 .. Len(s) /\ i + 1 # 1
  BY <1>2
<1>8. ChannelOf(v, t)
  <2>1. ASSUME NEW i \in 1 .. Len(t) PROVE WorkerOf[t[i].conn] = v
    BY <1>1, <1>2, <1>7, <2>1 DEF ChannelOf
  <2>2. ASSUME NEW i \in 1 .. Len(t), NEW j \in 1 .. Len(t), t[i] = t[j]
        PROVE  i = j
    <3>1. i + 1 = j + 1
      BY <1>1, <1>2, <1>7, <2>2 DEF ChannelOf
    <3> QED
      BY <3>1
  <2> QED
    BY <2>1, <2>2 DEF ChannelOf
<1>9. WorkerOf[x.conn] = v /\ \A i \in 1 .. Len(t) : t[i] # x
  BY <1>1, <1>2, <1>7 DEF ChannelOf
<1>10. ASSUME NEW w \in Workers PROVE ChannelOf(w, chan'[w])
  BY <1>4, <1>8 DEF ChanInv
<1> QED
  BY <1>5, <1>6, <1>9, <1>10 DEF ChanInv

\* A worker that exits loses the end of its channel.
LEMMA CutChan ==
  ASSUME TypeOK, ChanInv, NEW v \in Workers, NEW k \in 0 .. Len(chan[v]),
         chan' = [chan EXCEPT ![v] = SubSeq(@, 1, k)]
  PROVE  /\ ChanInv'
         /\ \A w \in Workers : \A m : Sent(w, m)' => Sent(w, m)
         /\ \A w \in Workers : w # v => chan'[w] = chan[w]
<1> DEFINE s == chan[v]
           t == SubSeq(s, 1, k)
<1>1. s \in Seq(Messages) /\ ChannelOf(v, s)
  BY DEF TypeOK, ChanInv
<1>2. Len(s) \in Nat /\ k \in Nat /\ k <= Len(s)
  BY <1>1, LenProperties
<1>3. \A i \in 1 .. k : s[i] \in Messages
  BY <1>1, <1>2, ElementOfSeq
<1>4. /\ Len(t) = k
      /\ \A i \in 1 .. Len(t) : t[i] = s[i]
  BY <1>1, <1>2
<1>5. \A w \in Workers : chan'[w] = IF w = v THEN t ELSE chan[w]
  BY DEF TypeOK
<1> HIDE DEF t
<1>6. ChannelOf(v, t)
  BY <1>1, <1>2, <1>4 DEF ChannelOf
<1>7. ASSUME NEW w \in Workers, NEW m, Sent(w, m)' PROVE Sent(w, m)
  <2>1. CASE w = v
    BY <1>2, <1>4, <1>5, <1>7, <2>1 DEF Sent
  <2>2. CASE w # v
    BY <1>5, <1>7, <2>2 DEF Sent
  <2> QED
    BY <2>1, <2>2
<1>8. ASSUME NEW w \in Workers PROVE ChannelOf(w, chan'[w])
  BY <1>5, <1>6 DEF ChanInv
<1> QED
  BY <1>5, <1>7, <1>8 DEF ChanInv

-----------------------------------------------------------------------------
(* What the steps do to what is under way.                                 *)

\* Nothing changes if no channel does.
LEMMA SentSame ==
  ASSUME UNCHANGED chan
  PROVE  /\ \A k \in Conns : (AddSent(k)' <=> AddSent(k)) /\ (DelSent(k)' <=> DelSent(k))
         /\ ChanInv => ChanInv'
  BY DEF AddSent, DelSent, Sent, ChanInv

\* Telling the master adds one message.
LEMMA SentTold ==
  ASSUME TypeOK, NEW n \in Conns, NEW x \in {AddMsg(n), DelMsg(n)},
         chan' = [chan EXCEPT ![WorkerOf[n]] = Append(@, x)]
  PROVE  \A k \in Conns :
            /\ AddSent(k)' <=> AddSent(k) \/ (k = n /\ x = AddMsg(n))
            /\ DelSent(k)' <=> DelSent(k) \/ (k = n /\ x = DelMsg(n))
<1> SUFFICES ASSUME NEW k \in Conns
             PROVE  /\ AddSent(k)' <=> AddSent(k) \/ (k = n /\ x = AddMsg(n))
                    /\ DelSent(k)' <=> DelSent(k) \/ (k = n /\ x = DelMsg(n))
  OBVIOUS
<1>1. WorkerOf[n] \in Workers /\ WorkerOf[k] \in Workers /\ x \in Messages
  BY RegistryAssumption DEF AddMsg, DelMsg, Messages
<1>2. /\ Sent(WorkerOf[k], AddMsg(k))' <=>
             Sent(WorkerOf[k], AddMsg(k)) \/ (WorkerOf[k] = WorkerOf[n] /\ AddMsg(k) = x)
      /\ Sent(WorkerOf[k], DelMsg(k))' <=>
             Sent(WorkerOf[k], DelMsg(k)) \/ (WorkerOf[k] = WorkerOf[n] /\ DelMsg(k) = x)
  BY <1>1, TellSent
<1> QED
  BY <1>2, Distinct DEF AddSent, DelSent

\* A message handled by the master becomes a query.
LEMMA SentTaken ==
  ASSUME TypeOK, ChanInv, NEW v \in Workers, HandleWorkerMessage(v)
  PROVE  \E n \in Conns :
            \/ /\ AddSent(n) /\ ops' = ops \cup {Op("find", n)}
               /\ \A k \in Conns : /\ AddSent(k)' <=> AddSent(k) /\ k # n
                                   /\ DelSent(k)' <=> DelSent(k)
            \/ /\ DelSent(n) /\ ops' = ops \cup {Op("remove", n)}
               /\ \A k \in Conns : /\ AddSent(k)' <=> AddSent(k)
                                   /\ DelSent(k)' <=> DelSent(k) /\ k # n
<1>0. chan[v] \in Seq(Messages) /\ chan[v] # << >> /\ chan' = [chan EXCEPT ![v] = Tail(@)]
  BY DEF HandleWorkerMessage, TypeOK
<1> DEFINE x == Head(chan[v])
           n == x.conn
<1>1. x \in Messages
  BY <1>0, HeadTailProperties
<1>2. n \in Conns /\ (x = AddMsg(n) \/ x = DelMsg(n))
  BY <1>1 DEF Messages, AddMsg, DelMsg
<1>3. PICK y : y = x
  OBVIOUS
<1>4. Sent(v, y) /\ WorkerOf[y.conn] = v /\ ~Sent(v, y)'
  BY <1>0, <1>3, TakeChan
<1>5. \A k \in Conns :
         /\ Sent(WorkerOf[k], AddMsg(k))' => Sent(WorkerOf[k], AddMsg(k))
         /\ Sent(WorkerOf[k], AddMsg(k)) =>
                Sent(WorkerOf[k], AddMsg(k))' \/ (WorkerOf[k] = v /\ AddMsg(k) = x)
         /\ Sent(WorkerOf[k], DelMsg(k))' => Sent(WorkerOf[k], DelMsg(k))
         /\ Sent(WorkerOf[k], DelMsg(k)) =>
                Sent(WorkerOf[k], DelMsg(k))' \/ (WorkerOf[k] = v /\ DelMsg(k) = x)
  <2>1. \A k \in Conns : WorkerOf[k] \in Workers
    BY RegistryAssumption
  <2> QED
    BY <1>0, <2>1, TakeSent
<1>6. PICK c \in Conns : c = n
  BY <1>2
<1>7. CASE x = AddMsg(n)
  <2>1. y = AddMsg(c) /\ WorkerOf[c] = v
    BY <1>3, <1>4, <1>6, <1>7 DEF AddMsg
  <2>2. AddSent(c) /\ ~AddSent(c)'
    BY <1>4, <2>1 DEF AddSent
  <2>3. ops' = ops \cup {Op("find", c)}
    BY <1>6, <1>7 DEF HandleWorkerMessage, AddMsg, Op
  <2>4. \A k \in Conns : /\ AddSent(k)' <=> AddSent(k) /\ k # c
                         /\ DelSent(k)' <=> DelSent(k)
    BY <1>5, <1>3, <2>1, <2>2, Distinct DEF AddSent, DelSent
  <2> QED
    BY <2>2, <2>3, <2>4
<1>8. CASE x = DelMsg(n)
  <2>1. y = DelMsg(c) /\ WorkerOf[c] = v
    BY <1>3, <1>4, <1>6, <1>8 DEF DelMsg
  <2>2. DelSent(c) /\ ~DelSent(c)'
    BY <1>4, <2>1 DEF DelSent
  <2>3. ops' = ops \cup {Op("remove", c)}
    BY <1>6, <1>8 DEF HandleWorkerMessage, DelMsg, Op
  <2>4. \A k \in Conns : /\ AddSent(k)' <=> AddSent(k)
                         /\ DelSent(k)' <=> DelSent(k) /\ k # c
    BY <1>5, <1>3, <2>1, <2>2, Distinct DEF AddSent, DelSent
  <2> QED
    BY <2>2, <2>3, <2>4
<1> QED
  BY <1>2, <1>7, <1>8

\* A worker that exits sends nothing new, and the others are not concerned.
LEMMA SentCut ==
  ASSUME TypeOK, ChanInv, NEW v \in Workers, WorkerExit(v)
  PROVE  /\ ChanInv'
         /\ \A k \in Conns : (AddSent(k)' => AddSent(k)) /\ (DelSent(k)' => DelSent(k))
         /\ \A k \in Conns : WorkerOf[k] # v => (AddSent(k)' <=> AddSent(k)) /\ (DelSent(k)' <=> DelSent(k))
<1>1. PICK j \in 0 .. Len(chan[v]) : chan' = [chan EXCEPT ![v] = SubSeq(@, 1, j)]
  BY DEF WorkerExit
<1>2. /\ ChanInv'
      /\ \A w \in Workers : \A m : Sent(w, m)' => Sent(w, m)
      /\ \A w \in Workers : w # v => chan'[w] = chan[w]
  BY <1>1, CutChan
<1>3. \A k \in Conns : WorkerOf[k] \in Workers
  BY RegistryAssumption
<1>4. \A k \in Conns : (AddSent(k)' => AddSent(k)) /\ (DelSent(k)' => DelSent(k))
  BY <1>2, <1>3 DEF AddSent, DelSent
<1>5. \A k \in Conns : WorkerOf[k] # v => (AddSent(k)' <=> AddSent(k)) /\ (DelSent(k)' <=> DelSent(k))
  BY <1>2, <1>3 DEF AddSent, DelSent, Sent
<1> QED
  BY <1>2, <1>4, <1>5

-----------------------------------------------------------------------------
\* Initially nothing is under way.
LEMMA FlowInit == Init => FlowInv
<1> SUFFICES ASSUME Init PROVE FlowInv
  OBVIOUS
<1> USE RegistryAssumption
<1>1. \A w \in Workers : Len(chan[w]) = 0
  BY DEF Init
<1>2. ChanInv
  BY <1>1 DEF ChanInv, ChannelOf
<1>3. \A n \in Conns : ~AddSent(n) /\ ~DelSent(n)
  BY <1>1 DEF AddSent, DelSent, Sent
<1>4. \A n \in Conns : ~AddPending(n) /\ ~DelPending(n)
  BY <1>3 DEF Init, AddPending, DelPending
<1> QED
  BY <1>2, <1>3, <1>4 DEF Init, FlowInv, OneAdd, OneDel, HandlerOrder, WorkersKnown

\* A step of the listen handler of connection n that sends nothing.
LEMMA FlowHandler ==
  ASSUME BaseInv, FlowInv, NEW n \in Conns, NEW l, NEW s,
         lst' = [lst EXCEPT ![n] = l], sock' = [sock EXCEPT ![n] = s],
         UNCHANGED <<worker, chan, ops, cmap, look, inTime>>,
         \/ lst[n] = "none" /\ worker[WorkerOf[n]] = "up" /\ l = "valid"
         \/ lst[n] = "valid" /\ l = "created"
         \/ lst[n] = "notified" /\ l = "listening"
         \/ lst[n] \in {"valid", "created", "notified"} /\ l = lst[n]
  PROVE  FlowInv'
<1>1. \A k \in Conns : (AddSent(k)' <=> AddSent(k)) /\ (DelSent(k)' <=> DelSent(k))
  BY SentSame
<1>2. \A k \in Conns : (AddPending(k)' <=> AddPending(k)) /\ (DelPending(k)' <=> DelPending(k))
  BY <1>1 DEF AddPending, DelPending
<1>3. \A k \in Conns : /\ lst'[k] = IF k = n THEN l ELSE lst[k]
                       /\ sock'[k] = IF k = n THEN s ELSE sock[k]
  BY DEF BaseInv, TypeOK
<1>4. ChanInv'
  BY SentSame DEF FlowInv
<1>5. OneAdd' /\ OneDel'
  BY <1>1, <1>2 DEF FlowInv, OneAdd, OneDel
<1>6. HandlerOrder'
  BY <1>2, <1>3 DEF FlowInv, HandlerOrder
<1>7. WorkersKnown'
  BY <1>3 DEF FlowInv, WorkersKnown
<1> QED
  BY <1>4, <1>5, <1>6, <1>7 DEF FlowInv

\* A step of the push API.
LEMMA FlowApi ==
  ASSUME BaseInv, FlowInv, UNCHANGED <<worker, lst, sock, chan, ops, inTime>>,
         \A p \in PushIds : cmap'[p] \in {NoWorker, cmap[p]},
         \A p \in PushIds : look'[p] \in {NoWorker, look[p], cmap[p]}
  PROVE  FlowInv'
<1>1. \A k \in Conns : (AddSent(k)' <=> AddSent(k)) /\ (DelSent(k)' <=> DelSent(k))
  BY SentSame
<1>2. \A k \in Conns : (AddPending(k)' <=> AddPending(k)) /\ (DelPending(k)' <=> DelPending(k))
  BY <1>1 DEF AddPending, DelPending
<1>4. ChanInv'
  BY SentSame DEF FlowInv
<1>5. OneAdd' /\ OneDel'
  BY <1>1, <1>2 DEF FlowInv, OneAdd, OneDel
<1>6. HandlerOrder'
  BY <1>2 DEF FlowInv, HandlerOrder
<1>7. WorkersKnown'
  BY DEF FlowInv, WorkersKnown
<1> QED
  BY <1>4, <1>5, <1>6, <1>7 DEF FlowInv

\* A query of connection n is over: it writes the row, deletes it or fails.
LEMMA FlowQuery ==
  ASSUME BaseInv, FlowInv, NEW n \in Conns, NEW o \in {"find", "insert", "update", "remove"},
         Op(o, n) \in ops, ops' = ops \ {Op(o, n)}, UNCHANGED <<worker, lst, sock, chan, look>>,
         inTime' = inTime \/ (o \in {"insert", "update"} /\ inTime' = inTime \cup {n}),
         \A p \in PushIds : cmap'[p] \in {NoWorker, cmap[p]} \/ (cmap'[p] = WorkerOf[n])
  PROVE  FlowInv'
<1>1. \A k \in Conns : (AddSent(k)' <=> AddSent(k)) /\ (DelSent(k)' <=> DelSent(k))
  BY SentSame
<1>2. \A k \in Conns : (AddPending(k)' => AddPending(k)) /\ (DelPending(k)' => DelPending(k))
  BY <1>1 DEF AddPending, DelPending
<1>3. o # "remove" => ~AddPending(n)' /\ AddPending(n)
  BY <1>1 DEF FlowInv, OneAdd, AddPending
<1>4. ChanInv'
  BY SentSame DEF FlowInv
<1>5. OneAdd' /\ OneDel'
  BY <1>1, <1>2, <1>3 DEF FlowInv, OneAdd, OneDel
<1>6. HandlerOrder'
  BY <1>2, <1>3 DEF FlowInv, HandlerOrder
<1>7. WorkersKnown'
  <2>1. lst[n] # "none"
    BY DEF FlowInv, HandlerOrder, AddPending, DelPending
  <2> QED
    BY <2>1 DEF FlowInv, WorkersKnown
<1> QED
  BY <1>4, <1>5, <1>6, <1>7 DEF FlowInv

\* Every step keeps messages, queries, handlers and workers in order.
LEMMA FlowStep == BaseInv /\ FlowInv /\ [Next]_vars => FlowInv'
<1> SUFFICES ASSUME BaseInv, FlowInv, [Next]_vars PROVE FlowInv'
  OBVIOUS
<1> USE DEF sessVars, apiVars, histVars
<1>0. /\ \A n \in Conns : PushIdOf[n] \in PushIds /\ WorkerOf[n] \in Workers
      /\ TypeOK /\ ChanInv
  BY RegistryAssumption DEF BaseInv, FlowInv
<1>1. ASSUME NEW n \in Conns, Accept(n) PROVE FlowInv'
  BY <1>1, FlowHandler DEF Accept
<1>2. ASSUME NEW n \in Conns, CreateSession(n) PROVE FlowInv'
  <2>1. sock' = [sock EXCEPT ![n] = sock[n]]
    BY <1>0, <1>2 DEF CreateSession, TypeOK
  <2> QED
    BY <1>2, <2>1, FlowHandler DEF CreateSession
<1>3. ASSUME NEW n \in Conns, NotifyMasterAddClient(n) PROVE FlowInv'
  <2>0. chan' = [chan EXCEPT ![WorkerOf[n]] = Append(@, AddMsg(n))]
    BY <1>3 DEF NotifyMasterAddClient, Tell, AddMsg
  <2>1. \A k \in Conns : (AddSent(k)' <=> AddSent(k) \/ k = n) /\ (DelSent(k)' <=> DelSent(k))
    BY <1>0, <2>0, SentTold, Distinct
  <2>2. \A k \in Conns : (AddPending(k)' <=> AddPending(k) \/ k = n) /\ (DelPending(k)' <=> DelPending(k))
    BY <1>3, <2>1 DEF AddPending, DelPending, NotifyMasterAddClient
  <2>3. \A k \in Conns : lst'[k] = IF k = n THEN "notified" ELSE lst[k]
    BY <1>0, <1>3 DEF NotifyMasterAddClient, TypeOK
  <2>4. lst[n] = "created" /\ ~AddPending(n) /\ n \notin inTime /\ ~DelPending(n)
    BY <1>3 DEF NotifyMasterAddClient, FlowInv, HandlerOrder
  <2>5. ChanInv'
    BY <1>0, <2>0, <2>4, TellChan DEF AddPending, AddSent
  <2>6. UNCHANGED <<worker, sock, ops, cmap, look, inTime>>
    BY <1>3 DEF NotifyMasterAddClient
  <2>7. OneAdd' /\ OneDel'
    BY <2>1, <2>2, <2>4, <2>6 DEF FlowInv, OneAdd, OneDel, AddPending
  <2>8. HandlerOrder'
    BY <2>2, <2>3, <2>4, <2>6 DEF FlowInv, HandlerOrder
  <2>9. WorkersKnown'
    BY <2>3, <2>4, <2>6 DEF FlowInv, WorkersKnown
  <2> QED
    BY <2>5, <2>7, <2>8, <2>9 DEF FlowInv
<1>4. ASSUME NEW n \in Conns, SetReqSocketCloseHandler(n) PROVE FlowInv'
  <2>1. sock' = [sock EXCEPT ![n] = sock[n]]
    BY <1>0, <1>4 DEF SetReqSocketCloseHandler, TypeOK
  <2> QED
    BY <1>4, <2>1, FlowHandler DEF SetReqSocketCloseHandler
<1>5. ASSUME NEW n \in Conns, CloseHandled(n) PROVE FlowInv'
  <2>0. chan' = [chan EXCEPT ![WorkerOf[n]] = Append(@, DelMsg(n))]
    BY <1>5 DEF CloseHandled, NotifyMasterDelClient, Tell, DelMsg
  <2>1. \A k \in Conns : (AddSent(k)' <=> AddSent(k)) /\ (DelSent(k)' <=> DelSent(k) \/ k = n)
    BY <1>0, <2>0, SentTold, Distinct
  <2>2. \A k \in Conns : (AddPending(k)' <=> AddPending(k)) /\ (DelPending(k)' <=> DelPending(k) \/ k = n)
    BY <1>5, <2>1 DEF AddPending, DelPending, CloseHandled
  <2>3. \A k \in Conns : /\ lst'[k] = IF k = n THEN "left" ELSE lst[k]
                         /\ sock'[k] = IF k = n THEN "closed" ELSE sock[k]
    BY <1>0, <1>5 DEF CloseHandled, TypeOK
  <2>4. lst[n] = "listening"
    BY <1>5 DEF CloseHandled
  <2>5. ChanInv'
    <3>1. ~Sent(WorkerOf[n], DelMsg(n))
      BY <2>4 DEF FlowInv, HandlerOrder, DelPending, DelSent
    <3> QED
      BY <1>0, <2>0, <3>1, TellChan
  <2>6. UNCHANGED <<worker, ops, cmap, look, inTime>>
    BY <1>5 DEF CloseHandled
  <2>7. OneAdd' /\ OneDel'
    BY <2>1, <2>2, <2>4, <2>6 DEF FlowInv, OneAdd, OneDel, HandlerOrder, DelPending
  <2>8. HandlerOrder'
    BY <2>2, <2>3, <2>4, <2>6 DEF FlowInv, HandlerOrder
  <2>9. WorkersKnown'
    BY <2>3, <2>4, <2>6 DEF FlowInv, WorkersKnown
  <2> QED
    BY <2>5, <2>7, <2>8, <2>9 DEF FlowInv
<1>6. ASSUME NEW n \in Conns, CloseMissed(n) PROVE FlowInv'
  <2>1. lst' = [lst EXCEPT ![n] = lst[n]]
    BY <1>0, <1>6 DEF CloseMissed, TypeOK
  <2> QED
    BY <1>6, <2>1, FlowHandler DEF CloseMissed
<1>7. ASSUME NEW v \in Workers, WorkerExit(v) PROVE FlowInv'
  <2>1. /\ ChanInv'
        /\ \A k \in Conns : (AddSent(k)' => AddSent(k)) /\ (DelSent(k)' => DelSent(k))
    BY <1>0, <1>7, SentCut
  <2>2. UNCHANGED <<ops, cmap, look, inTime>>
    BY <1>7 DEF WorkerExit
  <2>3. \A k \in Conns : (AddPending(k)' => AddPending(k)) /\ (DelPending(k)' => DelPending(k))
    BY <2>1, <2>2 DEF AddPending, DelPending
  <2>4. \A k \in Conns :
           /\ lst'[k] = IF WorkerOf[k] = v /\ lst[k] # "none" THEN "gone" ELSE lst[k]
           /\ sock'[k] = IF WorkerOf[k] = v /\ sock[k] = "open" THEN "closed" ELSE sock[k]
    BY <1>7 DEF WorkerExit
  <2>5. worker[v] = "up" /\ worker'[v] = "dead"
    BY <1>0, <1>7 DEF WorkerExit, TypeOK
  <2>6. \A w \in Workers \ {v} : worker'[w] = worker[w] \/ (worker[w] = "unforked" /\ worker'[w] = "up")
    BY <1>0, <1>7 DEF WorkerExit, TypeOK
  <2>7. OneAdd' /\ OneDel'
    BY <2>1, <2>2, <2>3 DEF FlowInv, OneAdd, OneDel
  <2>8. HandlerOrder'
    BY <2>2, <2>3, <2>4 DEF FlowInv, HandlerOrder
  <2>9. WorkersKnown'
    <3>1. \A n \in Conns : lst'[n] \notin {"none", "gone"} => worker'[WorkerOf[n]] = "up"
      BY <1>0, <2>4, <2>6 DEF FlowInv, WorkersKnown
    <3>2. \A w \in Workers : worker[w] # "unforked" => worker'[w] # "unforked"
      BY <2>5, <2>6
    <3>3. \A n \in Conns : lst'[n] # "none" => worker'[WorkerOf[n]] # "unforked"
      BY <1>0, <2>4, <3>2 DEF FlowInv, WorkersKnown
    <3>4. \A p \in PushIds : cmap[p] # NoWorker => worker'[cmap[p]] # "unforked"
      BY <1>0, <3>2 DEF FlowInv, WorkersKnown, TypeOK
    <3>5. \A p \in PushIds : look[p] # NoWorker => worker'[look[p]] # "unforked"
      BY <1>0, <3>2 DEF FlowInv, WorkersKnown, TypeOK
    <3> QED
      BY <2>2, <3>1, <3>3, <3>4, <3>5 DEF WorkersKnown
  <2> QED
    BY <2>1, <2>7, <2>8, <2>9 DEF FlowInv
<1>8. ASSUME NEW v \in Workers, HandleWorkerMessage(v) PROVE FlowInv'
  <2>1. UNCHANGED <<worker, lst, sock, cmap, look, inTime>>
    BY <1>8 DEF HandleWorkerMessage
  <2>2. ChanInv'
    <3>1. chan[v] # << >> /\ chan' = [chan EXCEPT ![v] = Tail(@)]
      BY <1>8 DEF HandleWorkerMessage
    <3>2. PICK x : x = Head(chan[v])
      OBVIOUS
    <3> QED
      BY <1>0, <3>1, <3>2, TakeChan
  <2>3. PICK n \in Conns :
            \/ /\ AddSent(n) /\ ops' = ops \cup {Op("find", n)}
               /\ \A k \in Conns : /\ AddSent(k)' <=> AddSent(k) /\ k # n
                                   /\ DelSent(k)' <=> DelSent(k)
            \/ /\ DelSent(n) /\ ops' = ops \cup {Op("remove", n)}
               /\ \A k \in Conns : /\ AddSent(k)' <=> AddSent(k)
                                   /\ DelSent(k)' <=> DelSent(k) /\ k # n
    BY <1>0, <1>8, SentTaken
  <2>4. \A k \in Conns : (AddPending(k)' => AddPending(k)) /\ (DelPending(k)' => DelPending(k))
    BY <2>3, Distinct DEF AddPending, DelPending
  <2>5. OneAdd' /\ OneDel'
    BY <2>1, <2>3, <2>4, Distinct DEF FlowInv, OneAdd, OneDel
  <2>6. HandlerOrder'
    BY <2>1, <2>4 DEF FlowInv, HandlerOrder
  <2>7. WorkersKnown'
    BY <2>1 DEF FlowInv, WorkersKnown
  <2> QED
    BY <2>2, <2>5, <2>6, <2>7 DEF FlowInv
<1>9. ASSUME NEW n \in Conns, Find(n) PROVE FlowInv'
  <2>1. PICK o \in {"insert", "update"} : ops' = (ops \ {Op("find", n)}) \cup {Op(o, n)}
    BY <1>9 DEF Find, Op
  <2>2. Op("find", n) \in ops /\ UNCHANGED <<worker, lst, sock, chan, cmap, look, inTime>>
    BY <1>9 DEF Find, Op
  <2>3. \A k \in Conns : (AddSent(k)' <=> AddSent(k)) /\ (DelSent(k)' <=> DelSent(k))
    BY <2>2, SentSame
  <2>4. \A k \in Conns : (AddPending(k)' => AddPending(k)) /\ (DelPending(k)' => DelPending(k))
    BY <2>1, <2>2, <2>3, Distinct DEF AddPending, DelPending
  <2>5. ChanInv'
    BY <1>0, <2>2, SentSame
  <2>6. OneAdd' /\ OneDel'
    BY <2>1, <2>2, <2>3, <2>4, Distinct DEF FlowInv, OneAdd, OneDel
  <2>7. HandlerOrder'
    BY <2>2, <2>4 DEF FlowInv, HandlerOrder
  <2>8. WorkersKnown'
    BY <2>2 DEF FlowInv, WorkersKnown
  <2> QED
    BY <2>5, <2>6, <2>7, <2>8 DEF FlowInv
<1>10. ASSUME NEW n \in Conns, Insert(n) PROVE FlowInv'
  <2>1. Op("insert", n) \in ops /\ ops' = ops \ {Op("insert", n)}
    BY <1>10 DEF Insert, Op
  <2>2. inTime' = inTime \/ inTime' = inTime \cup {n}
    BY <1>10 DEF Insert, NoteInTime
  <2>3. \A p \in PushIds : cmap'[p] = cmap[p] \/ cmap'[p] = WorkerOf[n]
    BY <1>0, <1>10 DEF Insert, TypeOK
  <2> QED
    BY <1>10, <2>1, <2>2, <2>3, FlowQuery DEF Insert
<1>11. ASSUME NEW n \in Conns, Update(n) PROVE FlowInv'
  <2>1. Op("update", n) \in ops /\ ops' = ops \ {Op("update", n)}
    BY <1>11 DEF Update, Op
  <2>2. inTime' = inTime \/ inTime' = inTime \cup {n}
    BY <1>11 DEF Update, NoteInTime
  <2>3. \A p \in PushIds : cmap'[p] = cmap[p] \/ cmap'[p] = WorkerOf[n]
    BY <1>0, <1>11 DEF Update, TypeOK
  <2> QED
    BY <1>11, <2>1, <2>2, <2>3, FlowQuery DEF Update
<1>12. ASSUME NEW n \in Conns, Remove(n) PROVE FlowInv'
  <2>1. Op("remove", n) \in ops /\ ops' = ops \ {Op("remove", n)}
    BY <1>12 DEF Remove, Op
  <2>2. \A p \in PushIds : cmap'[p] = cmap[p] \/ cmap'[p] = NoWorker
    BY <1>0, <1>12 DEF Remove, TypeOK
  <2> QED
    BY <1>12, <2>1, <2>2, FlowQuery DEF Remove
<1>13. ASSUME NEW q \in ops, QueryFails(q) PROVE FlowInv'
  <2>1. PICK o \in {"find", "insert", "update", "remove"}, n \in Conns : q = Op(o, n)
    BY <1>0 DEF TypeOK, Queries, Op
  <2> QED
    BY <1>13, <2>1, FlowQuery DEF QueryFails
<1>14. ASSUME NEW p \in PushIds, GetClientInfo(p) PROVE FlowInv'
  <2>1. \A r \in PushIds : look'[r] \in {NoWorker, look[r], cmap[r]}
    BY <1>0, <1>14 DEF GetClientInfo, TypeOK
  <2> QED
    BY <1>14, <2>1, FlowApi DEF GetClientInfo
<1>15. ASSUME NEW p \in PushIds, SendToWorker(p) PROVE FlowInv'
  <2>1. \A r \in PushIds : look'[r] \in {NoWorker, look[r], cmap[r]}
    BY <1>0, <1>15 DEF SendToWorker, TypeOK
  <2> QED
    BY <1>15, <2>1, FlowApi DEF SendToWorker
<1>16. ASSUME NEW p \in PushIds, LazyRemove(p) PROVE FlowInv'
  <2>1. \A r \in PushIds : cmap'[r] \in {NoWorker, cmap[r]}
    BY <1>0, <1>16 DEF LazyRemove, TypeOK
  <2> QED
    BY <1>16, <2>1, FlowApi DEF LazyRemove
<1>18. ASSUME NEW p \in PushIds, GiveUp(p) PROVE FlowInv'
  <2>1. \A r \in PushIds : look'[r] \in {NoWorker, look[r], cmap[r]}
    BY <1>0, <1>18 DEF GiveUp, TypeOK
  <2> QED
    BY <1>18, <2>1, FlowApi DEF GiveUp
<1>19. ASSUME NEW p \in PushIds, LazyRemoveFails(p) PROVE FlowInv'
  BY <1>19, FlowApi DEF LazyRemoveFails
<1>17. CASE UNCHANGED vars
  BY <1>17, FlowApi DEF vars
<1> QED
  BY <1>1, <1>2, <1>3, <1>4, <1>5, <1>6, <1>7, <1>8, <1>9, <1>10, <1>11, <1>12, <1>13,
     <1>14, <1>15, <1>16, <1>17, <1>18, <1>19
  DEF Next, ListenStep, QueryStep

-----------------------------------------------------------------------------
\* A connection that is the only one of its client was so before: handlers do
\* not start anew.
LEMMA LoneBefore ==
  ASSUME NEW n \in Conns, Lone(n)', \A k \in Conns : lst[k] # "none" => lst'[k] # "none"
  PROVE  Lone(n)
  BY DEF Lone

\* The other connections of its client have nothing under way.
LEMMA LoneAlone ==
  ASSUME FlowInv, NEW n \in Conns, Lone(n), NEW k \in Conns, k # n, ClientOfConn(k) = ClientOfConn(n)
  PROVE  lst[k] = "none" /\ ~AddPending(k) /\ ~DelPending(k)
  BY DEF Lone, FlowInv, HandlerOrder

\* Initially nothing is listed.
LEMMA LoneInit == Init => LoneInv
<1> SUFFICES ASSUME Init, NEW n \in Conns PROVE LoneOf(n)
  BY DEF LoneInv
<1>1. PushIdOf[n] \in PushIds
  BY RegistryAssumption
<1> QED
  BY <1>1 DEF Init, LoneOf, LoneEntry, LoneLookup, LoneSession, LoneProgress

\* A step that leaves the entries, the push API and what is under way for n alone.
LEMMA LoneQuiet ==
  ASSUME BaseInv, FlowInv, NEW n \in Conns, LoneOf(n),
         UNCHANGED <<worker, ops, cmap, look, lazy, inTime, faulty>>,
         AddSent(n)' <=> AddSent(n), DelSent(n)' <=> DelSent(n), lst'[n] = lst[n],
         sessionMap'[WorkerOf[n]][ClientOfConn(n)] = sessionMap[WorkerOf[n]][ClientOfConn(n)]
  PROVE  LoneOf(n)'
<1>1. (AddPending(n)' <=> AddPending(n)) /\ (DelPending(n)' <=> DelPending(n))
  BY DEF AddPending, DelPending
<1> QED
  BY <1>1 DEF LoneOf, LoneEntry, LoneLookup, LoneSession, LoneProgress

\* Every step keeps lone clients listed right.
LEMMA LoneStep == BaseInv /\ FlowInv /\ FlowInv' /\ LoneInv /\ [Next]_vars => LoneInv'
<1> SUFFICES ASSUME BaseInv, FlowInv, FlowInv', LoneInv, [Next]_vars, NEW n \in Conns, Lone(n)'
             PROVE  LoneOf(n)'
  BY DEF LoneInv
<1> USE DEF sessVars, apiVars, histVars
<1> DEFINE w == WorkerOf[n]
           p == PushIdOf[n]
           c == ClientOfConn(n)
<1>0. /\ \A k \in Conns : PushIdOf[k] \in PushIds /\ WorkerOf[k] \in Workers /\ ClientOfConn(k) \in Clients
      /\ \A k \in Conns : ClientOf[PushIdOf[k]] = ClientOfConn(k)
      /\ TypeOK /\ ChanInv /\ NoWorker \notin Workers
      /\ w \in Workers /\ p \in PushIds /\ c \in Clients
  BY RegistryAssumption DEF BaseInv, FlowInv, ClientOfConn
<1>h. \A k \in Conns : lst[k] # "none" => lst'[k] # "none"
  <2>0. lst \in [Conns -> {"none", "valid", "created", "notified", "listening", "left", "gone"}]
    BY <1>0 DEF TypeOK
  <2>1. ASSUME NEW m \in Conns, Accept(m) \/ ListenStep(m) \/ CloseHandled(m) \/ CloseMissed(m)
        PROVE  \A k \in Conns : lst[k] # "none" => lst'[k] # "none"
    BY ONLY <2>0, <2>1 DEF ListenStep, Accept, CreateSession, NotifyMasterAddClient,
                           SetReqSocketCloseHandler, CloseHandled, CloseMissed
  <2>2. ASSUME NEW v \in Workers, WorkerExit(v)
        PROVE  \A k \in Conns : lst[k] # "none" => lst'[k] # "none"
    BY ONLY <2>0, <2>2 DEF WorkerExit
  <2>3. \/ \E m \in Conns : Accept(m) \/ ListenStep(m) \/ CloseHandled(m) \/ CloseMissed(m)
        \/ \E v \in Workers : WorkerExit(v)
        \/ lst' = lst
    BY DEF Next, QueryStep, vars, HandleWorkerMessage, Find, Insert, Update, Remove, QueryFails,
           GetClientInfo, GiveUp, SendToWorker, LazyRemove, LazyRemoveFails
  <2> QED
    BY <2>1, <2>2, <2>3
<1>l. Lone(n) /\ LoneOf(n)
  BY <1>h, LoneBefore DEF LoneInv
<1>a. \A k \in Conns : k # n /\ ClientOfConn(k) = c =>
          lst[k] = "none" /\ lst'[k] = "none" /\ ~AddPending(k) /\ ~DelPending(k)
  BY <1>l, LoneAlone DEF Lone
<1> HIDE DEF w, p, c
<1>1. ASSUME NEW k \in Conns, Accept(k) PROVE LoneOf(n)'
  <2>1. /\ (AddSent(n)' <=> AddSent(n)) /\ (DelSent(n)' <=> DelSent(n))
        /\ UNCHANGED <<worker, sessionMap, ops, cmap, look, lazy, inTime, faulty>>
    BY <1>1, SentSame DEF Accept
  <2>2. CASE k # n
    BY <1>0, <1>1, <1>l, <2>1, <2>2, LoneQuiet DEF Accept, TypeOK
  <2>3. CASE k = n
    <3>1. lst[n] = "none" /\ lst'[n] = "valid"
      BY <1>0, <1>1, <2>3 DEF Accept, TypeOK
    <3>2. (AddPending(n)' <=> AddPending(n)) /\ (DelPending(n)' <=> DelPending(n))
      BY <2>1 DEF AddPending, DelPending
    <3> QED
      BY <1>l, <2>1, <3>1, <3>2 DEF LoneOf, LoneEntry, LoneLookup, LoneSession, LoneProgress
  <2> QED
    BY <2>2, <2>3
<1>2. ASSUME NEW k \in Conns, CreateSession(k) PROVE LoneOf(n)'
  <2>1. /\ (AddSent(n)' <=> AddSent(n)) /\ (DelSent(n)' <=> DelSent(n))
        /\ UNCHANGED <<worker, ops, cmap, look, lazy, inTime, faulty>>
    BY <1>2, SentSame DEF CreateSession
  <2>2. CASE k # n
    <3>1. ClientOfConn(k) # c
      BY <1>2, <1>a, <2>2 DEF CreateSession
    <3>2. sessionMap'[w][c] = sessionMap[w][c]
      BY <1>0, <1>2, <3>1 DEF CreateSession, TypeOK
    <3> QED
      BY <1>0, <1>2, <1>l, <2>1, <2>2, <3>2, LoneQuiet DEF CreateSession, TypeOK, w, c
  <2>3. CASE k = n
    <3>1. lst[n] = "valid" /\ lst'[n] = "created"
      BY <1>0, <1>2, <2>3 DEF CreateSession, TypeOK
    <3>2. (AddPending(n)' <=> AddPending(n)) /\ (DelPending(n)' <=> DelPending(n))
      BY <2>1 DEF AddPending, DelPending
    <3>3. sessionMap'[WorkerOf[n]][ClientOfConn(n)] = n
      BY <1>0, <1>2, <2>3 DEF CreateSession, TypeOK
    <3> QED
      BY <1>l, <2>1, <3>1, <3>2, <3>3 DEF LoneOf, LoneEntry, LoneLookup, LoneSession, LoneProgress
  <2> QED
    BY <2>2, <2>3
<1>3. ASSUME NEW k \in Conns, NotifyMasterAddClient(k) PROVE LoneOf(n)'
  <2>0. chan' = [chan EXCEPT ![WorkerOf[k]] = Append(@, AddMsg(k))]
    BY <1>3 DEF NotifyMasterAddClient, Tell, AddMsg
  <2>1. /\ AddSent(n)' <=> AddSent(n) \/ k = n
        /\ DelSent(n)' <=> DelSent(n)
    BY <1>0, <2>0, SentTold, Distinct
  <2>2. UNCHANGED <<worker, sessionMap, ops, cmap, look, lazy, inTime, faulty>>
    BY <1>3 DEF NotifyMasterAddClient
  <2>3. CASE k # n
    BY <1>0, <1>3, <1>l, <2>1, <2>2, <2>3, LoneQuiet DEF NotifyMasterAddClient, TypeOK
  <2>4. CASE k = n
    <3>1. lst[n] = "created" /\ lst'[n] = "notified"
      BY <1>0, <1>3, <2>4 DEF NotifyMasterAddClient, TypeOK
    <3>2. AddPending(n)'
      BY <2>1, <2>4 DEF AddPending
    <3> QED
      BY <1>l, <2>2, <3>1, <3>2 DEF LoneOf, LoneEntry, LoneLookup, LoneSession, LoneProgress
  <2> QED
    BY <2>3, <2>4
<1>4. ASSUME NEW k \in Conns, SetReqSocketCloseHandler(k) PROVE LoneOf(n)'
  <2>1. /\ (AddSent(n)' <=> AddSent(n)) /\ (DelSent(n)' <=> DelSent(n))
        /\ UNCHANGED <<worker, sessionMap, ops, cmap, look, lazy, inTime, faulty>>
    BY <1>4, SentSame DEF SetReqSocketCloseHandler
  <2>2. CASE k # n
    BY <1>0, <1>4, <1>l, <2>1, <2>2, LoneQuiet DEF SetReqSocketCloseHandler, TypeOK
  <2>3. CASE k = n
    <3>1. lst[n] = "notified" /\ lst'[n] = "listening"
      BY <1>0, <1>4, <2>3 DEF SetReqSocketCloseHandler, TypeOK
    <3>2. (AddPending(n)' <=> AddPending(n)) /\ (DelPending(n)' <=> DelPending(n))
      BY <2>1 DEF AddPending, DelPending
    <3> QED
      BY <1>l, <2>1, <3>1, <3>2 DEF LoneOf, LoneEntry, LoneLookup, LoneSession, LoneProgress
  <2> QED
    BY <2>2, <2>3
<1>5. ASSUME NEW k \in Conns, CloseHandled(k) PROVE LoneOf(n)'
  <2>0. chan' = [chan EXCEPT ![WorkerOf[k]] = Append(@, DelMsg(k))]
    BY <1>5 DEF CloseHandled, NotifyMasterDelClient, Tell, DelMsg
  <2>1. /\ AddSent(n)' <=> AddSent(n)
        /\ DelSent(n)' <=> DelSent(n) \/ k = n
    <3>1. AddMsg(k) # DelMsg(k)
      BY Distinct
    <3>2. /\ AddSent(n)' <=> AddSent(n) \/ (n = k /\ DelMsg(k) = AddMsg(k))
          /\ DelSent(n)' <=> DelSent(n) \/ (n = k /\ DelMsg(k) = DelMsg(k))
      BY <1>0, <2>0, SentTold
    <3> QED
      BY <3>1, <3>2
  <2>2. UNCHANGED <<worker, ops, cmap, look, lazy, inTime, faulty>>
    BY <1>5 DEF CloseHandled
  <2>3. CASE k # n
    <3>1. ClientOfConn(k) # c
      BY <1>5, <1>a, <2>3 DEF CloseHandled
    <3>2. sessionMap'[w][c] = sessionMap[w][c]
      BY <1>0, <1>5, <3>1 DEF CloseHandled, TypeOK
    <3> QED
      BY <1>0, <1>5, <1>l, <2>1, <2>2, <2>3, <3>2, LoneQuiet DEF CloseHandled, TypeOK, w, c
  <2>4. CASE k = n
    <3>1. lst[n] = "listening" /\ lst'[n] = "left"
      BY <1>0, <1>5, <2>4 DEF CloseHandled, TypeOK
    <3>2. (AddPending(n)' <=> AddPending(n)) /\ DelPending(n)'
      BY <2>1, <2>2, <2>4 DEF AddPending, DelPending
    <3> QED
      BY <1>l, <2>2, <3>1, <3>2 DEF LoneOf, LoneEntry, LoneLookup, LoneSession, LoneProgress
  <2> QED
    BY <2>3, <2>4
<1>6. ASSUME NEW k \in Conns, CloseMissed(k) PROVE LoneOf(n)'
  BY <1>6, <1>l, SentSame, LoneQuiet DEF CloseMissed
<1>7. ASSUME NEW v \in Workers, WorkerExit(v) PROVE LoneOf(n)'
  <2>1. UNCHANGED <<ops, cmap, look, lazy, inTime, faulty>>
    BY <1>7 DEF WorkerExit
  <2>2. worker'[v] = "dead" /\ \A u \in Workers : worker[u] = "dead" => worker'[u] = "dead"
    BY <1>0, <1>7 DEF WorkerExit, TypeOK
  <2>3. (AddSent(n)' => AddSent(n)) /\ (DelSent(n)' => DelSent(n))
    BY <1>0, <1>7, SentCut
  <2>4. AddPending(n)' => AddPending(n)
    BY <2>1, <2>3 DEF AddPending
  <2>5. LoneLookup(n)'
    BY <1>0, <1>l, <2>1, <2>2 DEF LoneOf, LoneLookup, w
  <2>6. CASE v = w /\ lst[n] # "none"
    <3>1. lst'[n] = "gone"
      BY <1>7, <2>6 DEF WorkerExit, w
    <3> QED
      BY <1>l, <2>1, <2>4, <2>5, <3>1 DEF LoneOf, LoneEntry, LoneSession, LoneProgress
  <2>7. CASE lst[n] = "none"
    <3>1. lst'[n] = "none"
      BY <1>7, <2>7 DEF WorkerExit
    <3> QED
      BY <1>l, <2>1, <2>4, <2>5, <2>7, <3>1 DEF LoneOf, LoneEntry, LoneSession, LoneProgress
  <2>8. CASE v # w
    <3>1. lst'[n] = lst[n] /\ sessionMap'[w] = sessionMap[w]
      BY <1>0, <1>7, <2>8 DEF WorkerExit, TypeOK, w
    <3>2. (AddSent(n)' <=> AddSent(n)) /\ (DelSent(n)' <=> DelSent(n))
      BY <1>0, <1>7, <2>8, SentCut DEF w
    <3>3. (AddPending(n)' <=> AddPending(n)) /\ (DelPending(n)' <=> DelPending(n))
      BY <2>1, <3>2 DEF AddPending, DelPending
    <3> QED
      BY <1>l, <2>1, <2>5, <3>1, <3>3 DEF LoneOf, LoneEntry, LoneSession, LoneProgress, w
  <2> QED
    BY <2>6, <2>7, <2>8
<1>8. ASSUME NEW v \in Workers, HandleWorkerMessage(v) PROVE LoneOf(n)'
  <2>1. UNCHANGED <<worker, lst, sock, sessionMap, cmap, look, lazy, inTime, faulty>>
    BY <1>8 DEF HandleWorkerMessage
  <2>2. PICK m \in Conns :
            \/ /\ AddSent(m) /\ ops' = ops \cup {Op("find", m)}
               /\ \A k \in Conns : /\ AddSent(k)' <=> AddSent(k) /\ k # m
                                   /\ DelSent(k)' <=> DelSent(k)
            \/ /\ DelSent(m) /\ ops' = ops \cup {Op("remove", m)}
               /\ \A k \in Conns : /\ AddSent(k)' <=> AddSent(k)
                                   /\ DelSent(k)' => DelSent(k)
                                   /\ DelSent(k) => DelSent(k)' \/ k = m
    BY <1>0, <1>8, SentTaken
  <2>3. (AddPending(n)' <=> AddPending(n)) /\ (DelPending(n)' <=> DelPending(n))
    BY <2>2, Distinct DEF AddPending, DelPending
  <2>4. Op("update", n) \in ops' => Op("update", n) \in ops
    BY <2>2, Distinct
  <2> QED
    BY <1>l, <2>1, <2>3, <2>4 DEF LoneOf, LoneEntry, LoneLookup, LoneSession, LoneProgress
<1>9. ASSUME NEW k \in Conns, Find(k) PROVE LoneOf(n)'
  <2>1. PICK o \in {"insert", "update"} :
            /\ ops' = (ops \ {Op("find", k)}) \cup {Op(o, k)}
            /\ o = "update" => cmap[PushIdOf[k]] # NoWorker
    BY <1>9 DEF Find, Op
  <2>2. Op("find", k) \in ops /\ UNCHANGED <<worker, lst, sock, sessionMap, chan, cmap, look, lazy, inTime, faulty>>
    BY <1>9 DEF Find, Op
  <2>3. (AddSent(n)' <=> AddSent(n)) /\ (DelSent(n)' <=> DelSent(n))
    BY <2>2, SentSame
  <2>4. (AddPending(n)' <=> AddPending(n)) /\ (DelPending(n)' <=> DelPending(n))
    BY <2>1, <2>2, <2>3, Distinct DEF AddPending, DelPending
  <2>5. k = n => cmap[PushIdOf[n]] = NoWorker
    BY <1>0, <1>l, <2>2 DEF LoneOf, LoneEntry, AddPending
  <2>6. Op("update", n) \in ops' => Op("update", n) \in ops
    BY <2>1, <2>5, Distinct
  <2> QED
    BY <1>l, <2>2, <2>4, <2>6 DEF LoneOf, LoneEntry, LoneLookup, LoneSession, LoneProgress
<1>10. ASSUME NEW k \in Conns, Insert(k) PROVE LoneOf(n)'
  <2>1. /\ Op("insert", k) \in ops /\ ops' = ops \ {Op("insert", k)}
        /\ UNCHANGED <<worker, lst, sock, sessionMap, chan, look, lazy, faulty>>
    BY <1>10 DEF Insert, Op
  <2>2. (AddSent(n)' <=> AddSent(n)) /\ (DelSent(n)' <=> DelSent(n))
    BY <2>1, SentSame
  <2>3. CASE k # n
    <3>1. ClientOfConn(k) # c
      BY <1>a, <2>1, <2>3 DEF AddPending
    <3>2. \A q \in PushIds : ClientOf[q] = c => cmap'[q] = cmap[q]
      BY <1>0, <1>10, <3>1 DEF Insert, TypeOK
    <3>3. n \in inTime' <=> n \in inTime
      BY <1>10, <2>3 DEF Insert, NoteInTime
    <3>4. (AddPending(n)' <=> AddPending(n)) /\ (DelPending(n)' <=> DelPending(n))
      BY <2>1, <2>2, <2>3, Distinct DEF AddPending, DelPending
    <3>5. cmap'[PushIdOf[n]] = cmap[PushIdOf[n]]
      BY <1>0, <3>2 DEF c
    <3> QED
      BY <1>l, <2>1, <3>2, <3>3, <3>4, <3>5
      DEF LoneOf, LoneEntry, LoneLookup, LoneSession, LoneProgress, c
  <2>4. CASE k = n
    <3>1. Insertable(PushIdOf[n])
      BY <1>0, <1>l, <2>1, <2>4 DEF LoneOf, LoneEntry, AddPending, Insertable
    <3>2. cmap'[PushIdOf[n]] = WorkerOf[n]
      BY <1>0, <1>10, <2>4, <3>1 DEF Insert, TypeOK
    <3>3. lst[n] = "left" => inTime' = inTime
      BY <1>10, <2>4 DEF Insert, NoteInTime, FlowInv, HandlerOrder
    <3>4. ~AddPending(n)'
      BY <2>1, <2>2, <2>4, Distinct DEF FlowInv, OneAdd, AddPending
    <3>5. n \notin inTime /\ lst[n] \in {"notified", "listening", "left", "gone"}
      BY <2>1, <2>4 DEF FlowInv, OneAdd, HandlerOrder, AddPending
    <3> QED
      BY <1>l, <2>1, <3>2, <3>3, <3>4, <3>5 DEF LoneOf, LoneEntry, LoneLookup, LoneSession, LoneProgress
  <2> QED
    BY <2>3, <2>4
<1>11. ASSUME NEW k \in Conns, Update(k) PROVE LoneOf(n)'
  <2>1. /\ Op("update", k) \in ops /\ ops' = ops \ {Op("update", k)}
        /\ UNCHANGED <<worker, lst, sock, sessionMap, chan, look, lazy, faulty>>
    BY <1>11 DEF Update, Op
  <2>2. (AddSent(n)' <=> AddSent(n)) /\ (DelSent(n)' <=> DelSent(n))
    BY <2>1, SentSame
  <2>3. k # n /\ ClientOfConn(k) # c
    BY <1>a, <1>l, <2>1 DEF AddPending, LoneOf, LoneEntry
  <2>4. \A q \in PushIds : ClientOf[q] = c => cmap'[q] = cmap[q]
    BY <1>0, <1>11, <2>3 DEF Update, TypeOK
  <2>5. n \in inTime' <=> n \in inTime
    BY <1>11, <2>3 DEF Update, NoteInTime
  <2>6. (AddPending(n)' <=> AddPending(n)) /\ (DelPending(n)' <=> DelPending(n))
    BY <2>1, <2>2, <2>3, Distinct DEF AddPending, DelPending
  <2>7. cmap'[PushIdOf[n]] = cmap[PushIdOf[n]]
    BY <1>0, <2>4 DEF c
  <2> QED
    BY <1>l, <2>1, <2>4, <2>5, <2>6, <2>7
    DEF LoneOf, LoneEntry, LoneLookup, LoneSession, LoneProgress, c
<1>12. ASSUME NEW k \in Conns, Remove(k) PROVE LoneOf(n)'
  <2>1. /\ Op("remove", k) \in ops /\ ops' = ops \ {Op("remove", k)}
        /\ UNCHANGED <<worker, lst, sock, sessionMap, chan, look, lazy, inTime, faulty>>
    BY <1>12 DEF Remove, Op
  <2>2. (AddSent(n)' <=> AddSent(n)) /\ (DelSent(n)' <=> DelSent(n))
    BY <2>1, SentSame
  <2>3. AddPending(n)' <=> AddPending(n)
    BY <2>1, <2>2, Distinct DEF AddPending
  <2>4. \A q \in PushIds : cmap'[q] = cmap[q] \/ cmap'[q] = NoWorker
    BY <1>0, <1>12 DEF Remove, TypeOK
  <2>5. CASE k # n
    <3>1. ClientOfConn(k) # c
      BY <1>a, <2>1, <2>5 DEF DelPending
    <3>2. cmap'[PushIdOf[n]] = cmap[PushIdOf[n]]
      BY <1>0, <1>12, <3>1 DEF Remove, TypeOK, c
    <3>3. DelPending(n)' <=> DelPending(n)
      BY <2>1, <2>2, <2>5, Distinct DEF DelPending
    <3> QED
      BY <1>l, <2>1, <2>3, <2>4, <3>2, <3>3 DEF LoneOf, LoneEntry, LoneLookup, LoneSession, LoneProgress
  <2>6. CASE k = n
    <3>1. lst[n] \in {"left", "gone"}
      BY <2>1, <2>6 DEF FlowInv, HandlerOrder, DelPending
    <3>2. cmap'[PushIdOf[n]] = NoWorker
      BY <1>0, <1>12, <2>6 DEF Remove, TypeOK
    <3> QED
      BY <1>l, <2>1, <2>3, <2>4, <3>1, <3>2 DEF LoneOf, LoneEntry, LoneLookup, LoneSession, LoneProgress
  <2> QED
    BY <2>5, <2>6
<1>13. ASSUME NEW q \in ops, QueryFails(q) PROVE LoneOf(n)'
  <2>1. PICK o \in {"find", "insert", "update", "remove"}, k \in Conns : q = Op(o, k)
    BY <1>0 DEF TypeOK, Queries, Op
  <2>2. /\ ops' = ops \ {Op(o, k)} /\ faulty' = faulty \cup {PushIdOf[k]}
        /\ UNCHANGED <<worker, lst, sock, sessionMap, chan, cmap, look, lazy, inTime>>
    BY <1>13, <2>1, Distinct DEF QueryFails
  <2>3. (AddSent(n)' <=> AddSent(n)) /\ (DelSent(n)' <=> DelSent(n))
    BY <2>2, SentSame
  <2>4. AddPending(n)' => AddPending(n)
    BY <2>2, <2>3 DEF AddPending
  <2>5. PushIdOf[n] \notin faulty' => PushIdOf[n] \notin faulty /\ k # n
    BY <2>2
  <2>6. k # n => (AddPending(n)' <=> AddPending(n)) /\ (DelPending(n)' <=> DelPending(n))
    BY <2>2, <2>3, Distinct DEF AddPending, DelPending
  <2> QED
    BY <1>l, <2>2, <2>4, <2>5, <2>6 DEF LoneOf, LoneEntry, LoneLookup, LoneSession, LoneProgress
<1>14. ASSUME NEW r \in PushIds, GetClientInfo(r) PROVE LoneOf(n)'
  <2>1. /\ UNCHANGED <<worker, lst, sock, sessionMap, chan, ops, cmap, lazy, inTime, faulty>>
        /\ look'[PushIdOf[n]] \in {look[PushIdOf[n]], cmap[PushIdOf[n]]}
    BY <1>0, <1>14 DEF GetClientInfo, TypeOK
  <2>2. (AddSent(n)' <=> AddSent(n)) /\ (DelSent(n)' <=> DelSent(n))
    BY <2>1, SentSame
  <2>3. (AddPending(n)' <=> AddPending(n)) /\ (DelPending(n)' <=> DelPending(n))
    BY <2>1, <2>2 DEF AddPending, DelPending
  <2> QED
    BY <1>l, <2>1, <2>3 DEF LoneOf, LoneEntry, LoneLookup, LoneSession, LoneProgress
<1>15. ASSUME NEW r \in PushIds, SendToWorker(r) PROVE LoneOf(n)'
  <2>1. /\ UNCHANGED <<worker, lst, sock, sessionMap, chan, ops, cmap, inTime, faulty>>
        /\ look'[PushIdOf[n]] \in {look[PushIdOf[n]], NoWorker}
    BY <1>0, <1>15 DEF SendToWorker, TypeOK
  <2>2. (AddSent(n)' <=> AddSent(n)) /\ (DelSent(n)' <=> DelSent(n))
    BY <2>1, SentSame
  <2>3. (AddPending(n)' <=> AddPending(n)) /\ (DelPending(n)' <=> DelPending(n))
    BY <2>1, <2>2 DEF AddPending, DelPending
  <2>4. ASSUME PushIdOf[n] \in lazy' PROVE worker[WorkerOf[n]] = "dead"
    <3>1. CASE PushIdOf[n] \in lazy
      BY <1>l, <3>1 DEF LoneOf, LoneLookup
    <3>2. CASE PushIdOf[n] \notin lazy
      <4>1. r = PushIdOf[n] /\ look[r] # NoWorker /\ ~Reachable(look[r])
        BY <1>15, <2>4, <3>2 DEF SendToWorker
      <4>2. look[r] = WorkerOf[n] /\ worker[WorkerOf[n]] # "up"
        BY <1>l, <4>1 DEF LoneOf, LoneLookup, Reachable
      <4>3. worker[WorkerOf[n]] # "unforked"
        BY <4>1, <4>2 DEF FlowInv, WorkersKnown
      <4> QED
        BY <1>0, <4>2, <4>3 DEF TypeOK
    <3> QED
      BY <3>1, <3>2
  <2> QED
    BY <1>l, <2>1, <2>3, <2>4 DEF LoneOf, LoneEntry, LoneLookup, LoneSession, LoneProgress
<1>16. ASSUME NEW r \in PushIds, LazyRemove(r) PROVE LoneOf(n)'
  <2>1. /\ UNCHANGED <<worker, lst, sock, sessionMap, chan, ops, look, inTime, faulty>>
        /\ lazy' \subseteq lazy /\ r \in lazy
        /\ \A q \in PushIds : cmap'[q] = IF q = r THEN NoWorker ELSE cmap[q]
    BY <1>0, <1>16 DEF LazyRemove, TypeOK
  <2>2. (AddSent(n)' <=> AddSent(n)) /\ (DelSent(n)' <=> DelSent(n))
    BY <2>1, SentSame
  <2>3. (AddPending(n)' <=> AddPending(n)) /\ (DelPending(n)' <=> DelPending(n))
    BY <2>1, <2>2 DEF AddPending, DelPending
  <2>4. r = PushIdOf[n] => lst[n] \in {"none", "gone"}
    BY <1>l, <2>1 DEF LoneOf, LoneLookup, FlowInv, WorkersKnown
  <2>5. PushIdOf[n] \in PushIds
    BY <1>0
  <2> QED
    BY <1>l, <2>1, <2>3, <2>4, <2>5 DEF LoneOf, LoneEntry, LoneLookup, LoneSession, LoneProgress
<1>18. ASSUME NEW r \in PushIds, GiveUp(r) PROVE LoneOf(n)'
  <2>1. /\ UNCHANGED <<worker, lst, sock, sessionMap, chan, ops, cmap, lazy, inTime, faulty>>
        /\ look'[PushIdOf[n]] \in {look[PushIdOf[n]], NoWorker}
    BY <1>0, <1>18 DEF GiveUp, TypeOK
  <2>2. (AddSent(n)' <=> AddSent(n)) /\ (DelSent(n)' <=> DelSent(n))
    BY <2>1, SentSame
  <2>3. (AddPending(n)' <=> AddPending(n)) /\ (DelPending(n)' <=> DelPending(n))
    BY <2>1, <2>2 DEF AddPending, DelPending
  <2> QED
    BY <1>l, <2>1, <2>3 DEF LoneOf, LoneEntry, LoneLookup, LoneSession, LoneProgress
<1>19. ASSUME NEW r \in PushIds, LazyRemoveFails(r) PROVE LoneOf(n)'
  <2>1. /\ UNCHANGED <<worker, lst, sock, sessionMap, chan, ops, cmap, look, inTime, faulty>>
        /\ lazy' \subseteq lazy
    BY <1>19 DEF LazyRemoveFails
  <2>2. (AddSent(n)' <=> AddSent(n)) /\ (DelSent(n)' <=> DelSent(n))
    BY <2>1, SentSame
  <2>3. (AddPending(n)' <=> AddPending(n)) /\ (DelPending(n)' <=> DelPending(n))
    BY <2>1, <2>2 DEF AddPending, DelPending
  <2> QED
    BY <1>l, <2>1, <2>3 DEF LoneOf, LoneEntry, LoneLookup, LoneSession, LoneProgress
<1>17. CASE UNCHANGED vars
  BY <1>17, <1>l, SentSame, LoneQuiet DEF vars
<1> QED
  BY <1>1, <1>2, <1>3, <1>4, <1>5, <1>6, <1>7, <1>8, <1>9, <1>10, <1>11, <1>12, <1>13,
     <1>14, <1>15, <1>16, <1>17, <1>18, <1>19
  DEF Next, ListenStep, QueryStep

-----------------------------------------------------------------------------
\* Messages, queries and lone clients, throughout.
THEOREM RegistryInvariance == Spec => [](BaseInv /\ FlowInv /\ LoneInv)
<1>1. Init => BaseInv /\ FlowInv /\ LoneInv
  BY BaseInit, FlowInit, LoneInit
<1>2. BaseInv /\ FlowInv /\ LoneInv /\ [Next]_vars => (BaseInv /\ FlowInv /\ LoneInv)'
  BY BaseStep, FlowStep, LoneStep
<1> QED
  BY <1>1, <1>2, PTL DEF Spec

\* A client with one connection is listed under its worker while its socket is
\* open, and not listed after a close that followed the add, as soon as
\* nothing of it is under way (Listen, AppServer, MySqlClientMap).
THEOREM LoneClientListed == Spec => []LoneClientSettles
<1>1. BaseInv /\ FlowInv /\ LoneInv => LoneClientSettles
  <2> SUFFICES ASSUME BaseInv, FlowInv, LoneInv, NEW n \in Conns, Lone(n), Quiet(n), PushIdOf[n] \notin faulty
               PROVE  /\ lst[n] = "listening" /\ sock[n] = "open" =>
                           /\ cmap[PushIdOf[n]] = WorkerOf[n]
                           /\ sessionMap[WorkerOf[n]][ClientOf[PushIdOf[n]]] = n
                      /\ lst[n] = "left" /\ n \in inTime => cmap[PushIdOf[n]] = NoWorker
    BY DEF LoneClientSettles
  <2>1. ~AddSent(n) /\ ~DelSent(n)
    BY DEF Quiet, AddSent, DelSent, Sent, AddMsg, DelMsg
  <2>2. ~AddPending(n) /\ ~DelPending(n)
    BY <2>1 DEF Quiet, AddPending, DelPending, Op
  <2> QED
    BY <2>2 DEF LoneInv, LoneOf, LoneSession, LoneProgress, ClientOfConn
<1> QED
  BY <1>1, RegistryInvariance, PTL

-----------------------------------------------------------------------------
(* The registry implements ClientDirectory.                                *)

\* What the directory sees of the connections is what their handlers, messages and
\* queries say, connection by connection.
LEMMA SeenSame ==
  ASSUME \A k \in Conns : Phase(k)' = Phase(k),
         \A k \in Conns : (AddPending(k)' <=> AddPending(k)) /\ (DelPending(k)' <=> DelPending(k)),
         \A k \in Conns : lst'[k] \in {"valid", "created"} \/ AddPending(k) <=>
                              lst[k] \in {"valid", "created"} \/ AddPending(k),
         UNCHANGED <<worker, cmap, look, lazy>>
  PROVE  UNCHANGED Directory!vars
<1>1. Phases' = Phases
  BY DEF Phases
<1>2. Due' = Due
  BY DEF Due
<1>3. Owed' = Owed
  BY DEF Owed
<1>4. Exited' = Exited
  BY DEF Exited
<1> QED
  BY <1>1, <1>2, <1>3, <1>4 DEF Directory!vars

\* Nothing is under way that was not, and nothing is over.
LEMMA PendingSame ==
  ASSUME UNCHANGED <<chan, ops>>
  PROVE  \A k \in Conns : (AddPending(k)' <=> AddPending(k)) /\ (DelPending(k)' <=> DelPending(k))
<1>1. \A k \in Conns : (AddSent(k)' <=> AddSent(k)) /\ (DelSent(k)' <=> DelSent(k))
  BY SentSame
<1> QED
  BY <1>1 DEF AddPending, DelPending

\* The directory is empty at first.
LEMMA DirectoryInit == Init => Directory!Init
<1> SUFFICES ASSUME Init PROVE Directory!Init
  OBVIOUS
<1>1. FlowInv
  BY FlowInit
<1>2. \A n \in Conns : lst[n] = "none" /\ ~AddPending(n) /\ ~DelPending(n)
  BY <1>1 DEF Init, FlowInv, HandlerOrder
<1>3. Phases = [n \in Conns |-> "new"]
  BY <1>2 DEF Phases, Phase
<1>4. Due = {} /\ Owed = {}
  BY <1>2 DEF Due, Owed
<1>5. Exited = {}
  BY DEF Init, Exited
<1> QED
  BY <1>3, <1>4, <1>5 DEF Init, Directory!Init

\* The add of connection n is over, with the map as it was or with its entry in it.
LEMMA AddOver ==
  ASSUME BaseInv, FlowInv, NEW n \in Conns, NEW o \in {"find", "insert", "update"},
         Op(o, n) \in ops, ops' = ops \ {Op(o, n)}, UNCHANGED <<worker, lst, chan, look, lazy>>,
         \/ cmap' = cmap
         \/ /\ \A q \in PushIds : ClientOf[q] = ClientOf[PushIdOf[n]] /\ cmap[q] # NoWorker => q = PushIdOf[n]
            /\ cmap' = [cmap EXCEPT ![PushIdOf[n]] = WorkerOf[n]]
  PROVE  Directory!Enter(n)
<1>1. \A k \in Conns : (AddSent(k)' <=> AddSent(k)) /\ (DelSent(k)' <=> DelSent(k))
  BY SentSame
<1>2. \A k \in Conns : /\ AddPending(k)' <=> AddPending(k) /\ k # n
                       /\ DelPending(k)' <=> DelPending(k)
  BY <1>1, Distinct DEF AddPending, DelPending, FlowInv, OneAdd
<1>3. AddPending(n) /\ lst[n] \notin {"valid", "created"}
  BY DEF AddPending, FlowInv, HandlerOrder
<1>4. n \in Due /\ Due' = Due \ {n}
  BY <1>2, <1>3 DEF Due
<1>5. Owed' = Owed /\ Exited' = Exited
  BY <1>2 DEF Owed, Exited
<1>6. Phases' = Phases
  BY DEF Phases, Phase
<1> QED
  BY <1>4, <1>5, <1>6 DEF Directory!Enter

\* The farewell of connection n is over, with the map as it was or without its entry.
LEMMA DelOver ==
  ASSUME BaseInv, FlowInv, NEW n \in Conns,
         Op("remove", n) \in ops, ops' = ops \ {Op("remove", n)},
         UNCHANGED <<worker, lst, chan, look, lazy>>,
         cmap' = cmap \/ cmap' = [cmap EXCEPT ![PushIdOf[n]] = NoWorker]
  PROVE  Directory!Strike(n)
<1>1. \A k \in Conns : (AddSent(k)' <=> AddSent(k)) /\ (DelSent(k)' <=> DelSent(k))
  BY SentSame
<1>2. \A k \in Conns : /\ AddPending(k)' <=> AddPending(k)
                       /\ DelPending(k)' <=> DelPending(k) /\ k # n
  BY <1>1, Distinct DEF AddPending, DelPending, FlowInv, OneDel
<1>3. DelPending(n)
  BY DEF DelPending
<1>4. Due' = Due
  BY <1>2 DEF Due
<1>5. n \in Owed /\ Owed' = Owed \ {n} /\ Exited' = Exited
  BY <1>2, <1>3 DEF Owed, Exited
<1>6. Phases' = Phases
  BY DEF Phases, Phase
<1> QED
  BY <1>4, <1>5, <1>6 DEF Directory!Strike

\* A worker that exits takes its connections along.
LEMMA ExitSeen ==
  ASSUME BaseInv, FlowInv, NEW v \in Workers, WorkerExit(v)
  PROVE  Directory!Exit(v)
<1>0. TypeOK /\ ChanInv /\ \A n \in Conns : WorkerOf[n] \in Workers
  BY RegistryAssumption DEF BaseInv, FlowInv
<1>1. /\ \A k \in Conns : (AddSent(k)' => AddSent(k)) /\ (DelSent(k)' => DelSent(k))
      /\ \A k \in Conns : WorkerOf[k] # v => (AddSent(k)' <=> AddSent(k)) /\ (DelSent(k)' <=> DelSent(k))
  BY <1>0, SentCut
<1>2. UNCHANGED <<ops, cmap, look, lazy>>
  BY DEF WorkerExit, apiVars
<1>3. \A k \in Conns : lst'[k] = IF WorkerOf[k] = v /\ lst[k] # "none" THEN "gone" ELSE lst[k]
  BY DEF WorkerExit
<1>4. /\ \A k \in Conns : (AddPending(k)' => AddPending(k)) /\ (DelPending(k)' => DelPending(k))
      /\ \A k \in Conns : WorkerOf[k] # v =>
             (AddPending(k)' <=> AddPending(k)) /\ (DelPending(k)' <=> DelPending(k))
  BY <1>1, <1>2 DEF AddPending, DelPending
<1>5. /\ worker[v] = "up" /\ worker'[v] = "dead"
      /\ \A w \in Workers \ {v} : worker'[w] = "dead" <=> worker[w] = "dead"
  BY <1>0 DEF WorkerExit, TypeOK
<1>6. v \notin Exited /\ Exited' = Exited \cup {v}
  BY <1>5 DEF Exited
<1>7. Due' \in SUBSET Due /\ \A n \in Due \ Due' : WorkerOf[n] = v
  BY <1>3, <1>4 DEF Due
<1>8. Owed' \in SUBSET Owed /\ \A n \in Owed \ Owed' : WorkerOf[n] = v
  BY <1>4 DEF Owed
<1>9. Phases' = [n \in Conns |-> IF WorkerOf[n] = v /\ Phases[n] # "new" THEN "lost" ELSE Phases[n]]
  <2>1. ASSUME NEW n \in Conns
        PROVE  Phase(n)' = IF WorkerOf[n] = v /\ Phase(n) # "new" THEN "lost" ELSE Phase(n)
    BY <1>3 DEF Phase
  <2> QED
    BY <2>1 DEF Phases
<1> QED
  BY <1>2, <1>6, <1>7, <1>8, <1>9 DEF Directory!Exit

\* Every step of the registry is a step of the directory or invisible to it.
LEMMA DirectoryStep == BaseInv /\ FlowInv /\ [Next]_vars => [Directory!Next]_(Directory!vars)
<1> SUFFICES ASSUME BaseInv, FlowInv, [Next]_vars PROVE [Directory!Next]_(Directory!vars)
  OBVIOUS
<1> USE DEF sessVars, apiVars, histVars
<1>0. /\ \A n \in Conns : PushIdOf[n] \in PushIds /\ WorkerOf[n] \in Workers
      /\ TypeOK /\ ChanInv
  BY RegistryAssumption DEF BaseInv, FlowInv
<1>h. ASSUME NEW n \in Conns, NEW l, lst' = [lst EXCEPT ![n] = l],
             UNCHANGED <<worker, chan, ops, cmap, look, lazy>>,
             \/ lst[n] = "valid" /\ l = "created"
             \/ lst[n] = "notified" /\ l = "listening"
      PROVE  [Directory!Next]_(Directory!vars)
  <2>1. \A k \in Conns : lst'[k] = IF k = n THEN l ELSE lst[k]
    BY <1>0, <1>h DEF TypeOK
  <2>2. \A k \in Conns : Phase(k)' = Phase(k)
    BY <1>h, <2>1 DEF Phase
  <2> QED
    BY <1>h, <2>1, <2>2, PendingSame, SeenSame
<1>1. ASSUME NEW n \in Conns, Accept(n) PROVE [Directory!Next]_(Directory!vars)
  <2>1. lst[n] = "none" /\ \A k \in Conns : lst'[k] = IF k = n THEN "valid" ELSE lst[k]
    BY <1>0, <1>1 DEF Accept, TypeOK
  <2>2. UNCHANGED <<worker, chan, ops, cmap, look, lazy>>
    BY <1>1 DEF Accept
  <2>3. \A k \in Conns : (AddPending(k)' <=> AddPending(k)) /\ (DelPending(k)' <=> DelPending(k))
    BY <2>2, PendingSame
  <2>4. Phases[n] = "new" /\ Phases' = [Phases EXCEPT ![n] = "here"]
    BY <2>1 DEF Phases, Phase
  <2>5. Due' = Due \cup {n}
    BY <2>1, <2>3 DEF Due
  <2>6. Owed' = Owed /\ Exited' = Exited
    BY <2>2, <2>3 DEF Owed, Exited
  <2>7. Directory!Arrive(n)
    BY <2>2, <2>4, <2>5, <2>6 DEF Directory!Arrive
  <2> QED
    BY <2>7 DEF Directory!Next
<1>2. ASSUME NEW n \in Conns, CreateSession(n) PROVE [Directory!Next]_(Directory!vars)
  BY <1>2, <1>h DEF CreateSession
<1>3. ASSUME NEW n \in Conns, NotifyMasterAddClient(n) PROVE [Directory!Next]_(Directory!vars)
  <2>0. chan' = [chan EXCEPT ![WorkerOf[n]] = Append(@, AddMsg(n))]
    BY <1>3 DEF NotifyMasterAddClient, Tell, AddMsg
  <2>1. \A k \in Conns : (AddSent(k)' <=> AddSent(k) \/ k = n) /\ (DelSent(k)' <=> DelSent(k))
    BY <1>0, <2>0, SentTold, Distinct
  <2>2. \A k \in Conns : (AddPending(k)' <=> AddPending(k) \/ k = n) /\ (DelPending(k)' <=> DelPending(k))
    BY <1>3, <2>1 DEF AddPending, DelPending, NotifyMasterAddClient
  <2>3. lst[n] = "created" /\ \A k \in Conns : lst'[k] = IF k = n THEN "notified" ELSE lst[k]
    BY <1>0, <1>3 DEF NotifyMasterAddClient, TypeOK
  <2>4. Phases' = Phases
    <3>1. \A k \in Conns : Phase(k)' = Phase(k)
      BY <2>3 DEF Phase
    <3> QED
      BY <3>1 DEF Phases
  <2>5. Due' = Due
    BY <2>2, <2>3 DEF Due
  <2>6. Owed' = Owed /\ Exited' = Exited
    BY <1>3, <2>2 DEF Owed, Exited, NotifyMasterAddClient
  <2> QED
    BY <1>3, <2>4, <2>5, <2>6 DEF NotifyMasterAddClient, Directory!vars
<1>4. ASSUME NEW n \in Conns, SetReqSocketCloseHandler(n) PROVE [Directory!Next]_(Directory!vars)
  BY <1>4, <1>h DEF SetReqSocketCloseHandler
<1>5. ASSUME NEW n \in Conns, CloseHandled(n) PROVE [Directory!Next]_(Directory!vars)
  <2>0. chan' = [chan EXCEPT ![WorkerOf[n]] = Append(@, DelMsg(n))]
    BY <1>5 DEF CloseHandled, NotifyMasterDelClient, Tell, DelMsg
  <2>1. \A k \in Conns : (AddSent(k)' <=> AddSent(k)) /\ (DelSent(k)' <=> DelSent(k) \/ k = n)
    BY <1>0, <2>0, SentTold, Distinct
  <2>2. \A k \in Conns : (AddPending(k)' <=> AddPending(k)) /\ (DelPending(k)' <=> DelPending(k) \/ k = n)
    BY <1>5, <2>1 DEF AddPending, DelPending, CloseHandled
  <2>3. lst[n] = "listening" /\ \A k \in Conns : lst'[k] = IF k = n THEN "left" ELSE lst[k]
    BY <1>0, <1>5 DEF CloseHandled, TypeOK
  <2>4. Phases[n] = "here" /\ Phases' = [Phases EXCEPT ![n] = "left"]
    BY <2>3 DEF Phases, Phase
  <2>5. Due' = Due
    BY <2>2, <2>3 DEF Due
  <2>6. Owed' = Owed \cup {n} /\ Exited' = Exited
    BY <1>5, <2>2 DEF Owed, Exited, CloseHandled
  <2>7. Directory!Leave(n)
    BY <1>5, <2>4, <2>5, <2>6 DEF CloseHandled, Directory!Leave
  <2> QED
    BY <2>7 DEF Directory!Next
<1>6. ASSUME NEW n \in Conns, CloseMissed(n) PROVE [Directory!Next]_(Directory!vars)
  <2>1. \A k \in Conns : Phase(k)' = Phase(k)
    BY <1>6 DEF CloseMissed, Phase
  <2> QED
    BY <1>6, <2>1, PendingSame, SeenSame DEF CloseMissed
<1>7. ASSUME NEW v \in Workers, WorkerExit(v) PROVE [Directory!Next]_(Directory!vars)
  BY <1>7, ExitSeen DEF Directory!Next
<1>8. ASSUME NEW v \in Workers, HandleWorkerMessage(v) PROVE [Directory!Next]_(Directory!vars)
  <2>1. UNCHANGED <<worker, lst, cmap, look, lazy>>
    BY <1>8 DEF HandleWorkerMessage
  <2>2. PICK n \in Conns :
            \/ /\ AddSent(n) /\ ops' = ops \cup {Op("find", n)}
               /\ \A k \in Conns : /\ AddSent(k)' <=> AddSent(k) /\ k # n
                                   /\ DelSent(k)' <=> DelSent(k)
            \/ /\ DelSent(n) /\ ops' = ops \cup {Op("remove", n)}
               /\ \A k \in Conns : /\ AddSent(k)' <=> AddSent(k)
                                   /\ DelSent(k)' <=> DelSent(k) /\ k # n
    BY <1>0, <1>8, SentTaken
  <2>3. \A k \in Conns : (AddPending(k)' <=> AddPending(k)) /\ (DelPending(k)' <=> DelPending(k))
    BY <2>2, Distinct DEF AddPending, DelPending
  <2>4. \A k \in Conns : Phase(k)' = Phase(k)
    BY <2>1 DEF Phase
  <2> QED
    BY <2>1, <2>3, <2>4, SeenSame
<1>9. ASSUME NEW n \in Conns, Find(n) PROVE [Directory!Next]_(Directory!vars)
  <2>1. PICK o \in {"insert", "update"} : ops' = (ops \ {Op("find", n)}) \cup {Op(o, n)}
    BY <1>9 DEF Find, Op
  <2>2. Op("find", n) \in ops /\ UNCHANGED <<worker, lst, chan, cmap, look, lazy>>
    BY <1>9 DEF Find, Op
  <2>3. \A k \in Conns : (AddSent(k)' <=> AddSent(k)) /\ (DelSent(k)' <=> DelSent(k))
    BY <2>2, SentSame
  <2>4. \A k \in Conns : (AddPending(k)' <=> AddPending(k)) /\ (DelPending(k)' <=> DelPending(k))
    BY <2>1, <2>2, <2>3, Distinct DEF AddPending, DelPending
  <2>5. \A k \in Conns : Phase(k)' = Phase(k)
    BY <2>2 DEF Phase
  <2> QED
    BY <2>2, <2>4, <2>5, SeenSame
<1>10. ASSUME NEW n \in Conns, Insert(n) PROVE [Directory!Next]_(Directory!vars)
  <2>1. Op("insert", n) \in ops /\ ops' = ops \ {Op("insert", n)}
    BY <1>10 DEF Insert, Op
  <2>2. \/ cmap' = cmap
        \/ /\ \A q \in PushIds : ClientOf[q] = ClientOf[PushIdOf[n]] /\ cmap[q] # NoWorker => q = PushIdOf[n]
           /\ cmap' = [cmap EXCEPT ![PushIdOf[n]] = WorkerOf[n]]
    BY <1>10 DEF Insert, Insertable
  <2>3. Directory!Enter(n)
    BY <1>10, <2>1, <2>2, AddOver DEF Insert
  <2> QED
    BY <2>3 DEF Directory!Next
<1>11. ASSUME NEW n \in Conns, Update(n) PROVE [Directory!Next]_(Directory!vars)
  <2>1. Op("update", n) \in ops /\ ops' = ops \ {Op("update", n)}
    BY <1>11 DEF Update, Op
  <2>2. \/ cmap' = cmap
        \/ /\ \A q \in PushIds : ClientOf[q] = ClientOf[PushIdOf[n]] /\ cmap[q] # NoWorker => q = PushIdOf[n]
           /\ cmap' = [cmap EXCEPT ![PushIdOf[n]] = WorkerOf[n]]
    BY <1>0, <1>11 DEF Update, BaseInv, OneEntryPerClient
  <2>3. Directory!Enter(n)
    BY <1>11, <2>1, <2>2, AddOver DEF Update
  <2> QED
    BY <2>3 DEF Directory!Next
<1>12. ASSUME NEW n \in Conns, Remove(n) PROVE [Directory!Next]_(Directory!vars)
  <2>1. Op("remove", n) \in ops /\ ops' = ops \ {Op("remove", n)}
    BY <1>12 DEF Remove, Op
  <2>2. Directory!Strike(n)
    BY <1>12, <2>1, DelOver DEF Remove
  <2> QED
    BY <2>2 DEF Directory!Next
<1>13. ASSUME NEW q \in ops, QueryFails(q) PROVE [Directory!Next]_(Directory!vars)
  <2>1. PICK o \in {"find", "insert", "update", "remove"}, n \in Conns : q = Op(o, n)
    BY <1>0 DEF TypeOK, Queries, Op
  <2>2. Op(o, n) \in ops /\ ops' = ops \ {Op(o, n)} /\ UNCHANGED <<worker, lst, chan, look, lazy, cmap>>
    BY <1>13, <2>1 DEF QueryFails
  <2>3. o = "remove" => Directory!Strike(n)
    BY <2>2, DelOver
  <2>4. o # "remove" => Directory!Enter(n)
    BY <2>2, AddOver
  <2> QED
    BY <2>3, <2>4 DEF Directory!Next
<1>s. ASSUME UNCHANGED <<worker, lst, chan, ops>>
      PROVE  Phases' = Phases /\ Due' = Due /\ Owed' = Owed /\ Exited' = Exited
  <2>1. \A k \in Conns : (AddPending(k)' <=> AddPending(k)) /\ (DelPending(k)' <=> DelPending(k))
    BY <1>s, PendingSame
  <2> QED
    BY <1>s, <2>1 DEF Phases, Phase, Due, Owed, Exited
<1>14. ASSUME NEW p \in PushIds, GetClientInfo(p) PROVE [Directory!Next]_(Directory!vars)
  <2>1. Directory!Ask(p)
    BY <1>14, <1>s DEF GetClientInfo, Directory!Ask
  <2> QED
    BY <2>1 DEF Directory!Next
<1>15. ASSUME NEW p \in PushIds, SendToWorker(p) PROVE [Directory!Next]_(Directory!vars)
  <2>1. look[p] # NoWorker /\ look[p] \in Workers /\ worker[look[p]] \in {"up", "dead"}
    BY <1>0, <1>15 DEF SendToWorker, TypeOK, FlowInv, WorkersKnown
  <2>2. Reachable(look[p]) <=> look[p] \notin Exited
    BY <2>1 DEF Reachable, Exited
  <2>3. Directory!Turn(p)
    BY <1>15, <1>s, <2>1, <2>2 DEF SendToWorker, Directory!Turn
  <2> QED
    BY <2>3 DEF Directory!Next
<1>16. ASSUME NEW p \in PushIds, LazyRemove(p) PROVE [Directory!Next]_(Directory!vars)
  <2>1. Directory!Drop(p)
    BY <1>16, <1>s DEF LazyRemove, Directory!Drop
  <2> QED
    BY <2>1 DEF Directory!Next
<1>18. ASSUME NEW p \in PushIds, GiveUp(p) PROVE [Directory!Next]_(Directory!vars)
  <2>1. Directory!Turn(p)
    BY <1>18, <1>s DEF GiveUp, Directory!Turn
  <2> QED
    BY <2>1 DEF Directory!Next
<1>19. ASSUME NEW p \in PushIds, LazyRemoveFails(p) PROVE [Directory!Next]_(Directory!vars)
  <2>1. Directory!Drop(p)
    BY <1>19, <1>s DEF LazyRemoveFails, Directory!Drop
  <2> QED
    BY <2>1 DEF Directory!Next
<1>17. CASE UNCHANGED vars
  BY <1>17, <1>s DEF vars, Directory!vars
<1> QED
  BY <1>1, <1>2, <1>3, <1>4, <1>5, <1>6, <1>7, <1>8, <1>9, <1>10, <1>11, <1>12, <1>13,
     <1>14, <1>15, <1>16, <1>17, <1>18, <1>19
  DEF Next, ListenStep, QueryStep

\* Sessions, messages and queries implement the directory: what the push API sees of
\* listen.coffee, the pool layer's message handling and mysqlclientmap.coffee is a
\* behaviour of ClientDirectory.
THEOREM DirectoryRefinement == Spec => KeepsDirectory
<1>1. Init => Directory!Init
  BY DirectoryInit
<1>2. Spec => [](BaseInv /\ FlowInv)
  BY RegistryInvariance, PTL
<1> QED
  BY <1>1, <1>2, DirectoryStep, PTL DEF Spec, KeepsDirectory, Directory!Spec

=============================================================================
