------------------------- MODULE PushDeliveryProofs -------------------------
(***************************************************************************)
(* The safety invariants of PushDelivery hold for any number of requests,  *)
(* clients, workers, sessions and acks and for any number of callback      *)
(* retries.  They rest on one inductive invariant, IndInv, whose parts say *)
(* which party can be where once another party has got somewhere.          *)
(***************************************************************************)
EXTENDS PushDelivery, TLAPS

-----------------------------------------------------------------------------
(* The inductive invariant.                                                *)

\* Ack a found a timer: it got past cancelPushTimer.
Past(r, a) == ack[r][a] \in {"reading", "fetched", "ok", "error"}

\* A worker's SessionManager holds sessions of that worker only.
SessionPlace ==
    \A w \in Workers, c \in Clients :
        sessionMap[w][c] # NoSession => WorkerOf[sessionMap[w][c]] = w

\* A push was written to a session of the worker that was sent SERVER_PUSH.
PushPlace ==
    \A r \in Requests : psess[r] # NoSession => WorkerOf[psess[r]] = target[r]

\* The order of the steps of one request: looked up, stored, sent to the
\* worker, written to the client, timed.
Progress ==
    \A r \in Requests :
        /\ api[r] \in {"located", "valid", "saved", "ok"} => target[r] \in Workers
        /\ row[r] => api[r] \in {"saved", "ok", "refused"}
        /\ api[r] = "saved" => row[r]
        /\ "row" \in undo[r] => api[r] = "refused"
        /\ push[r] # "none" <=> api[r] = "ok"
        /\ push[r] \in {"none", "ipc", "stream", "finish"} => timer[r] = "none"
        /\ push[r] \in {"none", "ipc"} => fail[r] = "none" /\ psess[r] = NoSession

\* An ack that found a timer took its entry away, in the timer's process, and
\* only such an ack creates a callback.
AckPlace ==
    \A r \in Requests, a \in Acks :
        /\ Past(r, a) => timer[r] \notin {"none", "armed", "fired"}
        /\ Past(r, a) => WorkerOf[AckVia[a]] = target[r]
        /\ cb[r][a] # "none" => ack[r][a] = "ok"

\* The other two callbacks come from a timer, or a failure path, that is over;
\* a timer stopped in time never becomes one of those.
CallbackPlace ==
    \A r \in Requests :
        /\ cb[r]["timeout"] # "none" => timer[r] = "over"
        /\ cb[r]["failure"] # "none" => fail[r] = "over"
        /\ stopped[r] => timer[r] = "cancelled"

\* What a callback has done so far: retries stay within PUSH_CALLBACK_RETRIES,
\* and it comes to the deletion after an answer or after its last attempt.
Attempts ==
    \A r \in Requests, k \in Kinds :
        /\ cb[r][k] \in {"none", "start"} => att[r][k] = 0
        /\ cb[r][k] = "backoff" => att[r][k] <= Retries
        /\ cb[r][k] \in {"deleting", "done"} /\ r \in WithCallback
             => k \in told[r] \/ att[r][k] = Retries + 1

\* With one event per push stream, a failure ends SendPush before the timer.
FailureEnds ==
    ~BothStreamEvents =>
        \A r \in Requests : fail[r] # "none" => push[r] = "ended" /\ timer[r] = "none"

IndInv ==
    /\ TypeOK /\ SessionPlace /\ PushPlace /\ Progress /\ AckPlace
    /\ CallbackPlace /\ Attempts /\ FailureEnds
    /\ SingleAck /\ RowHasOwner /\ ToldBeforeDeleted

-----------------------------------------------------------------------------
(* Each part of the invariant depends on few variables: a step that leaves *)
(* those alone preserves it.                                               *)

\* ConnType is about these variables only.
LEMMA ConnTypeFrame ==
    ConnType /\ UNCHANGED <<worker, sess, sessionMap>> => ConnType'
  BY DEF ConnType

\* ApiType is about these variables only.
LEMMA ApiTypeFrame ==
    ApiType /\ UNCHANGED <<clientmap, api, target, undo>> => ApiType'
  BY DEF ApiType

\* RowType is about these variables only.
LEMMA RowTypeFrame ==
    RowType /\ UNCHANGED <<row, fault>> => RowType'
  BY DEF RowType

\* SendType is about these variables only.
LEMMA SendTypeFrame ==
    SendType /\ UNCHANGED <<push, psess, fail>> => SendType'
  BY DEF SendType

\* TimerType is about these variables only.
LEMMA TimerTypeFrame ==
    TimerType /\ UNCHANGED <<timer, stopped>> => TimerType'
  BY DEF TimerType

\* AckType is about these variables only.
LEMMA AckTypeFrame ==
    AckType /\ UNCHANGED <<ack>> => AckType'
  BY DEF AckType

\* CallbackType is about these variables only.
LEMMA CallbackTypeFrame ==
    CallbackType /\ UNCHANGED <<cb, att, told>> => CallbackType'
  BY DEF CallbackType

\* SessionPlace is about these variables only.
LEMMA SessionPlaceFrame ==
    SessionPlace /\ UNCHANGED <<sessionMap>> => SessionPlace'
  BY DEF SessionPlace

\* PushPlace is about these variables only.
LEMMA PushPlaceFrame ==
    PushPlace /\ UNCHANGED <<psess, target>> => PushPlace'
  BY DEF PushPlace

\* Progress is about these variables only.
LEMMA ProgressFrame ==
    Progress /\ UNCHANGED <<api, target, row, undo, push, timer, fail, psess>> => Progress'
  BY DEF Progress

\* AckPlace is about these variables only.
LEMMA AckPlaceFrame ==
    AckPlace /\ UNCHANGED <<ack, timer, target, cb>> => AckPlace'
  BY DEF AckPlace, Past

\* CallbackPlace is about these variables only.
LEMMA CallbackPlaceFrame ==
    CallbackPlace /\ UNCHANGED <<cb, timer, fail, stopped>> => CallbackPlace'
  BY DEF CallbackPlace

\* Attempts is about these variables only.
LEMMA AttemptsFrame ==
    Attempts /\ UNCHANGED <<cb, att, told>> => Attempts'
  BY DEF Attempts

\* FailureEnds is about these variables only.
LEMMA FailureEndsFrame ==
    FailureEnds /\ UNCHANGED <<fail, push, timer>> => FailureEnds'
  BY DEF FailureEnds

\* SingleAck is about these variables only.
LEMMA SingleAckFrame ==
    SingleAck /\ UNCHANGED <<ack>> => SingleAck'
  BY DEF SingleAck

\* RowHasOwner is about these variables only.
LEMMA RowHasOwnerFrame ==
    RowHasOwner /\ UNCHANGED <<row, api, undo, push, fail, timer, ack, cb, fault, target, worker>> => RowHasOwner'
  BY DEF RowHasOwner, Owned, WorkerLost, CallbackActive, AckOwns, CallbackOwns

\* ToldBeforeDeleted is about these variables only.
LEMMA ToldBeforeDeletedFrame ==
    ToldBeforeDeleted /\ UNCHANGED <<api, row, told, att>> => ToldBeforeDeleted'
  BY DEF ToldBeforeDeleted, GaveUp

-----------------------------------------------------------------------------
(* Initial states.                                                         *)

\* Nothing has been requested, connected or written yet.
LEMMA InitInv == Init => IndInv
<1> SUFFICES ASSUME Init PROVE IndInv
  OBVIOUS
<1> USE ConstantsAssumption, NamesAssumption DEF Init, Kinds
<1>1. ConnType /\ ApiType /\ RowType /\ SendType /\ TimerType /\ AckType
  BY DEF ConnType, ApiType, RowType, SendType, TimerType, AckType
<1>2. CallbackType
  BY DEF CallbackType
<1>3. SessionPlace /\ PushPlace /\ Progress
  BY DEF SessionPlace, PushPlace, Progress
<1>4. AckPlace /\ CallbackPlace /\ Attempts /\ FailureEnds
  BY DEF AckPlace, Past, CallbackPlace, Attempts, FailureEnds
<1>5. SingleAck /\ RowHasOwner /\ ToldBeforeDeleted
  BY DEF SingleAck, RowHasOwner, ToldBeforeDeleted
<1> QED
  BY <1>1, <1>2, <1>3, <1>4, <1>5 DEF IndInv, TypeOK

-----------------------------------------------------------------------------
(* Steps.                                                                  *)

\* Only a request whose SERVER_PUSH went out has a callback.
LEMMA CallbackMeansSent ==
    ASSUME IndInv, NEW r \in Requests, NEW k \in Kinds, cb[r][k] # "none"
    PROVE  api[r] = "ok"
<1>1. CASE k = "timeout"
  BY <1>1 DEF IndInv, Progress, CallbackPlace, TypeOK, SendType
<1>2. CASE k = "failure"
  BY <1>2 DEF IndInv, Progress, CallbackPlace, TypeOK, SendType
<1>3. CASE k \in Acks
  BY <1>3 DEF IndInv, Progress, AckPlace, Past, TypeOK, SendType
<1> QED
  BY <1>1, <1>2, <1>3 DEF Kinds

\* Every step preserves the inductive invariant.
LEMMA StepInv == IndInv /\ [Next]_vars => IndInv'
<1> SUFFICES ASSUME IndInv, [Next]_vars PROVE IndInv'
  OBVIOUS
<1> USE ConstantsAssumption, NamesAssumption
    DEF IndInv, TypeOK, connVars, apiVars, sendVars, cbVars, histVars, Kinds
<1>1. ASSUME NEW s \in Sessions, Listen(s) PROVE IndInv'
  <2>1. ConnType'
    BY <1>1 DEF ConnType, Listen
  <2>2. SessionPlace'
    BY <1>1 DEF SessionPlace, Listen
  <2> QED
    BY <1>1, <2>1, <2>2, ApiTypeFrame, RowTypeFrame, SendTypeFrame, TimerTypeFrame,
       AckTypeFrame, CallbackTypeFrame, PushPlaceFrame, ProgressFrame, AckPlaceFrame,
       CallbackPlaceFrame, AttemptsFrame, FailureEndsFrame, SingleAckFrame,
       RowHasOwnerFrame, ToldBeforeDeletedFrame
    DEF Listen
<1>2. ASSUME NEW s \in Sessions, SocketClose(s) PROVE IndInv'
  <2>1. ConnType'
    BY <1>2 DEF ConnType, SocketClose
  <2>2. SessionPlace'
    BY <1>2 DEF SessionPlace, SocketClose
  <2> QED
    BY <1>2, <2>1, <2>2, ApiTypeFrame, RowTypeFrame, SendTypeFrame, TimerTypeFrame,
       AckTypeFrame, CallbackTypeFrame, PushPlaceFrame, ProgressFrame, AckPlaceFrame,
       CallbackPlaceFrame, AttemptsFrame, FailureEndsFrame, SingleAckFrame,
       RowHasOwnerFrame, ToldBeforeDeletedFrame
    DEF SocketClose
<1>3. ASSUME NEW s \in Sessions, ProcessAddClient(s) PROVE IndInv'
  <2>1. ApiType'
    BY <1>3 DEF ApiType, ProcessAddClient
  <2> QED
    BY <1>3, <2>1, ConnTypeFrame, RowTypeFrame, SendTypeFrame, TimerTypeFrame,
       AckTypeFrame, CallbackTypeFrame, SessionPlaceFrame, PushPlaceFrame,
       ProgressFrame, AckPlaceFrame, CallbackPlaceFrame, AttemptsFrame,
       FailureEndsFrame, SingleAckFrame, RowHasOwnerFrame, ToldBeforeDeletedFrame
    DEF ProcessAddClient
<1>4. ASSUME NEW s \in Sessions, ProcessDelClient(s) PROVE IndInv'
  <2>1. ApiType'
    BY <1>4 DEF ApiType, ProcessDelClient
  <2> QED
    BY <1>4, <2>1, ConnTypeFrame, RowTypeFrame, SendTypeFrame, TimerTypeFrame,
       AckTypeFrame, CallbackTypeFrame, SessionPlaceFrame, PushPlaceFrame,
       ProgressFrame, AckPlaceFrame, CallbackPlaceFrame, AttemptsFrame,
       FailureEndsFrame, SingleAckFrame, RowHasOwnerFrame, ToldBeforeDeletedFrame
    DEF ProcessDelClient
<1>5. ASSUME NEW w \in Workers, WorkerExit(w) PROVE IndInv'
  <2>1. ConnType'
    BY <1>5 DEF ConnType, WorkerExit
  <2>2. SendType'
    BY <1>5 DEF SendType, WorkerExit, LoseUnless
  <2>3. TimerType'
    BY <1>5 DEF TimerType, WorkerExit, LoseUnless
  <2>4. AckType'
    BY <1>5 DEF AckType, WorkerExit, LoseUnless
  <2>5. CallbackType'
    <3> HIDE DEF Kinds
    <3>1. cb' = [q \in Requests |-> [k \in Kinds |->
                  LoseUnless(w, ProcessOf(q, k), cb[q][k], {"none", "done"}, "lost")]]
      BY <1>5 DEF WorkerExit
    <3>2. \A q \in Requests, k \in Kinds : cb'[q][k] \in {cb[q][k], "lost"}
      BY <3>1 DEF LoseUnless
    <3>3. att' = att /\ told' = told
      BY <1>5 DEF WorkerExit
    <3>4. cb' \in [Requests -> [Kinds -> {"none", "start", "posting", "backoff",
                                        "deleting", "done", "lost"}]]
      BY <3>1, <3>2 DEF CallbackType
    <3> QED
      BY <3>3, <3>4 DEF CallbackType
  <2>6. SessionPlace'
    BY <1>5 DEF SessionPlace, WorkerExit
  <2>7. Progress'
    BY <1>5 DEF Progress, WorkerExit, LoseUnless
  <2>8. AckPlace'
    BY <1>5 DEF AckPlace, Past, WorkerExit, LoseUnless
  <2>9. CallbackPlace'
    BY <1>5 DEF CallbackPlace, WorkerExit, LoseUnless
  <2>10. Attempts'
    BY <1>5 DEF Attempts, WorkerExit, LoseUnless
  <2>11. FailureEnds'
    BY <1>5 DEF FailureEnds, WorkerExit, LoseUnless
  <2>12. SingleAck'
    BY <1>5 DEF SingleAck, WorkerExit, LoseUnless
  <2>13. RowHasOwner'
    <3> SUFFICES ASSUME NEW q \in Requests, row'[q]
                 PROVE Owned(q)' \/ fault'[q] \/ WorkerLost(q)'
      BY DEF RowHasOwner
    <3>1. row[q] => Owned(q) \/ fault[q] \/ WorkerLost(q)
      BY DEF RowHasOwner
    <3>2. target[q] # w /\ AckOwns(q) => AckOwns(q)'
      BY <1>5 DEF WorkerExit, LoseUnless, AckOwns, AckPlace, Past, ProcessOf
    <3>3. target[q] # w /\ CallbackOwns(q) => CallbackOwns(q)'
      BY <1>5 DEF WorkerExit, LoseUnless, CallbackOwns, AckPlace, Past, ProcessOf
    <3> QED
      BY <1>5, <3>1, <3>2, <3>3
      DEF ConnType, ApiType, Owned, WorkerLost, WorkerExit, LoseUnless
  <2> QED
    BY <1>5, <2>1, <2>2, <2>3, <2>4, <2>5, <2>6, <2>7, <2>8, <2>9, <2>10, <2>11,
       <2>12, <2>13, ApiTypeFrame, RowTypeFrame, PushPlaceFrame,
       ToldBeforeDeletedFrame
    DEF WorkerExit
<1>6. ASSUME NEW r \in Requests, GetClientInfo(r) PROVE IndInv'
  <2>1. ApiType'
    BY <1>6 DEF ApiType, GetClientInfo
  <2>2. PushPlace'
    BY <1>6 DEF Progress, PushPlace, GetClientInfo
  <2>3. Progress'
    BY <1>6 DEF ApiType, Progress, GetClientInfo
  <2>4. AckPlace'
    <3>1. \A a \in Acks : ~Past(r, a)
      BY <1>6 DEF Progress, AckPlace, GetClientInfo
    <3>2. \A q \in Requests : q # r => target'[q] = target[q]
      BY <1>6 DEF GetClientInfo
    <3> QED
      BY <1>6, <3>1, <3>2 DEF AckPlace, Past, GetClientInfo
  <2>5. RowHasOwner'
    <3> SUFFICES ASSUME NEW q \in Requests, row'[q]
                 PROVE Owned(q)' \/ fault'[q] \/ WorkerLost(q)'
      BY DEF RowHasOwner
    <3>1. row[q] => Owned(q) \/ fault[q] \/ WorkerLost(q)
      BY DEF RowHasOwner
    <3>2. AckOwns(q)' <=> AckOwns(q)
      BY <1>6 DEF GetClientInfo, AckOwns
    <3>3. CallbackOwns(q)' <=> CallbackOwns(q)
      BY <1>6 DEF GetClientInfo, CallbackOwns
    <3> QED
      BY <1>6, <3>1, <3>2, <3>3 DEF Progress, Owned, WorkerLost, GetClientInfo
  <2>6. ToldBeforeDeleted'
    BY <1>6 DEF ApiType, ToldBeforeDeleted, GaveUp, GetClientInfo
  <2> QED
    BY <1>6, <2>1, <2>2, <2>3, <2>4, <2>5, <2>6, ConnTypeFrame, RowTypeFrame,
       SendTypeFrame, TimerTypeFrame, AckTypeFrame, CallbackTypeFrame,
       SessionPlaceFrame, CallbackPlaceFrame, AttemptsFrame, FailureEndsFrame,
       SingleAckFrame
    DEF GetClientInfo
<1>7. ASSUME NEW r \in Requests, NEW a \in Acks, AckReceive(r, a) PROVE IndInv'
  <2>1. AckType'
    BY <1>7 DEF AckType, AckReceive
  <2>2. AckPlace'
    BY <1>7 DEF AckPlace, Past, AckReceive
  <2>3. SingleAck'
    BY <1>7 DEF SingleAck, AckReceive
  <2>4. RowHasOwner'
    <3> SUFFICES ASSUME NEW q \in Requests, row'[q]
                 PROVE Owned(q)' \/ fault'[q] \/ WorkerLost(q)'
      BY DEF RowHasOwner
    <3>1. row[q] => Owned(q) \/ fault[q] \/ WorkerLost(q)
      BY DEF RowHasOwner
    <3>2. AckOwns(q) => AckOwns(q)'
      BY <1>7 DEF AckReceive, AckOwns
    <3>3. CallbackOwns(q)' <=> CallbackOwns(q)
      BY <1>7 DEF AckReceive, CallbackOwns
    <3> QED
      BY <1>7, <3>1, <3>2, <3>3 DEF Owned, WorkerLost, AckReceive
  <2> QED
    BY <1>7, <2>1, <2>2, <2>3, <2>4, ConnTypeFrame, ApiTypeFrame, RowTypeFrame,
       SendTypeFrame, TimerTypeFrame, CallbackTypeFrame, SessionPlaceFrame,
       PushPlaceFrame, ProgressFrame, CallbackPlaceFrame, AttemptsFrame,
       FailureEndsFrame, ToldBeforeDeletedFrame
    DEF AckReceive
<1>8. ASSUME NEW r \in Requests, Validate(r) PROVE IndInv'
  <2>1. ApiType'
    BY <1>8 DEF ApiType, Validate
  <2>2. Progress'
    BY <1>8 DEF ApiType, Progress, Validate
  <2>3. RowHasOwner'
    <3> SUFFICES ASSUME NEW q \in Requests, row'[q]
                 PROVE Owned(q)' \/ fault'[q] \/ WorkerLost(q)'
      BY DEF RowHasOwner
    <3>1. row[q] => Owned(q) \/ fault[q] \/ WorkerLost(q)
      BY DEF RowHasOwner
    <3>2. AckOwns(q)' <=> AckOwns(q)
      BY <1>8 DEF Validate, AckOwns
    <3>3. CallbackOwns(q)' <=> CallbackOwns(q)
      BY <1>8 DEF Validate, CallbackOwns
    <3> QED
      BY <1>8, <3>1, <3>2, <3>3
      DEF ApiType, Owned, WorkerLost, Validate
  <2>4. ToldBeforeDeleted'
    <3> SUFFICES ASSUME NEW q \in Requests, api'[q] = "ok", ~row'[q], q \in WithCallback
                 PROVE told'[q] # {} \/ GaveUp(q)'
      BY DEF ToldBeforeDeleted
    <3>1. api[q] = "ok" /\ ~row[q]
      BY <1>8 DEF ApiType, Validate
    <3>2. told[q] # {} \/ GaveUp(q)
      BY <3>1 DEF ToldBeforeDeleted
    <3>3. GaveUp(q) => GaveUp(q)'
      BY <1>8 DEF Validate, GaveUp
    <3>4. told[q] # {} => told'[q] # {}
      BY <1>8 DEF Validate
    <3> QED
      BY <3>2, <3>3, <3>4
  <2> QED
    BY <1>8, <2>1, <2>2, <2>3, <2>4, ConnTypeFrame, RowTypeFrame,
       SendTypeFrame, TimerTypeFrame, AckTypeFrame, CallbackTypeFrame, SessionPlaceFrame,
       PushPlaceFrame, AckPlaceFrame, CallbackPlaceFrame, AttemptsFrame,
       FailureEndsFrame, SingleAckFrame
    DEF Validate
<1>9. ASSUME NEW r \in Requests, CreatePushRequest(r) PROVE IndInv'
  <2>1. ApiType'
    BY <1>9 DEF ApiType, CreatePushRequest
  <2>2. RowType'
    BY <1>9 DEF RowType, CreatePushRequest, AddPushRequest
  <2>3. Progress'
    BY <1>9 DEF ApiType, RowType, Progress, CreatePushRequest, AddPushRequest
  <2>4. RowHasOwner'
    <3> SUFFICES ASSUME NEW q \in Requests, row'[q]
                 PROVE Owned(q)' \/ fault'[q] \/ WorkerLost(q)'
      BY DEF RowHasOwner
    <3>1. row[q] => Owned(q) \/ fault[q] \/ WorkerLost(q)
      BY DEF RowHasOwner
    <3>2. AckOwns(q)' <=> AckOwns(q)
      BY <1>9 DEF CreatePushRequest, AckOwns
    <3>3. CallbackOwns(q)' <=> CallbackOwns(q)
      BY <1>9 DEF CreatePushRequest, CallbackOwns
    <3> QED
      BY <1>9, <3>1, <3>2, <3>3
      DEF ApiType, RowType, Owned, WorkerLost, CreatePushRequest, AddPushRequest
  <2>5. ToldBeforeDeleted'
    <3> SUFFICES ASSUME NEW q \in Requests, api'[q] = "ok", ~row'[q], q \in WithCallback
                 PROVE told'[q] # {} \/ GaveUp(q)'
      BY DEF ToldBeforeDeleted
    <3>1. api[q] = "ok" /\ ~row[q]
      BY <1>9 DEF ApiType, RowType, CreatePushRequest, AddPushRequest
    <3>2. told[q] # {} \/ GaveUp(q)
      BY <3>1 DEF ToldBeforeDeleted
    <3>3. GaveUp(q) => GaveUp(q)'
      BY <1>9 DEF CreatePushRequest, GaveUp
    <3>4. told[q] # {} => told'[q] # {}
      BY <1>9 DEF CreatePushRequest
    <3> QED
      BY <3>2, <3>3, <3>4
  <2> QED
    BY <1>9, <2>1, <2>2, <2>3, <2>4, <2>5, ConnTypeFrame, SendTypeFrame,
       TimerTypeFrame, AckTypeFrame, CallbackTypeFrame, SessionPlaceFrame,
       PushPlaceFrame, AckPlaceFrame, CallbackPlaceFrame, AttemptsFrame,
       FailureEndsFrame, SingleAckFrame
    DEF CreatePushRequest
<1>10. ASSUME NEW r \in Requests, SendPushRequestToWorker(r) PROVE IndInv'
  <2>1. ApiType'
    BY <1>10 DEF ApiType, SendPushRequestToWorker
  <2>2. SendType'
    BY <1>10 DEF SendType, SendPushRequestToWorker
  <2>3. Progress'
    BY <1>10 DEF ApiType, SendType, Progress, SendPushRequestToWorker
  <2>4. FailureEnds'
    BY <1>10 DEF SendType, Progress, FailureEnds, SendPushRequestToWorker
  <2>5. RowHasOwner'
    <3> SUFFICES ASSUME NEW q \in Requests, row'[q]
                 PROVE Owned(q)' \/ fault'[q] \/ WorkerLost(q)'
      BY DEF RowHasOwner
    <3>1. row[q] => Owned(q) \/ fault[q] \/ WorkerLost(q)
      BY DEF RowHasOwner
    <3>2. AckOwns(q)' <=> AckOwns(q)
      BY <1>10 DEF SendPushRequestToWorker, AckOwns
    <3>3. CallbackOwns(q)' <=> CallbackOwns(q)
      BY <1>10 DEF SendPushRequestToWorker, CallbackOwns
    <3> QED
      <4>1. CASE q = r
        BY <1>10, <4>1 DEF ApiType, SendType, SendPushRequestToWorker, Owned
      <4>2. CASE q # r
        BY <1>10, <4>2, <3>1, <3>2, <3>3
        DEF ApiType, SendType, SendPushRequestToWorker, Owned, WorkerLost
      <4> QED
        BY <4>1, <4>2
  <2>6. ToldBeforeDeleted'
    <3> SUFFICES ASSUME NEW q \in Requests, api'[q] = "ok", ~row'[q], q \in WithCallback
                 PROVE told'[q] # {} \/ GaveUp(q)'
      BY DEF ToldBeforeDeleted
    <3>1. api[q] = "ok" /\ ~row[q]
      BY <1>10 DEF ApiType, Progress, SendPushRequestToWorker
    <3>2. told[q] # {} \/ GaveUp(q)
      BY <3>1 DEF ToldBeforeDeleted
    <3>3. GaveUp(q) => GaveUp(q)'
      BY <1>10 DEF SendPushRequestToWorker, GaveUp
    <3>4. told[q] # {} => told'[q] # {}
      BY <1>10 DEF SendPushRequestToWorker
    <3> QED
      BY <3>2, <3>3, <3>4
  <2> QED
    BY <1>10, <2>1, <2>2, <2>3, <2>4, <2>5, <2>6, ConnTypeFrame, RowTypeFrame,
       TimerTypeFrame, AckTypeFrame, CallbackTypeFrame, SessionPlaceFrame,
       PushPlaceFrame, AckPlaceFrame, CallbackPlaceFrame, AttemptsFrame,
       SingleAckFrame
    DEF SendPushRequestToWorker
<1>11. ASSUME NEW r \in Requests, DeleteFromClientMap(r) PROVE IndInv'
  <2>1. ApiType'
    BY <1>11 DEF ApiType, DeleteFromClientMap
  <2>2. Progress'
    BY <1>11 DEF Progress, DeleteFromClientMap
  <2>3. RowHasOwner'
    <3> SUFFICES ASSUME NEW q \in Requests, row'[q]
                 PROVE Owned(q)' \/ fault'[q] \/ WorkerLost(q)'
      BY DEF RowHasOwner
    <3>1. row[q] => Owned(q) \/ fault[q] \/ WorkerLost(q)
      BY DEF RowHasOwner
    <3>2. AckOwns(q)' <=> AckOwns(q)
      BY <1>11 DEF DeleteFromClientMap, AckOwns
    <3>3. CallbackOwns(q)' <=> CallbackOwns(q)
      BY <1>11 DEF DeleteFromClientMap, CallbackOwns
    <3> QED
      BY <1>11, <3>1, <3>2, <3>3 DEF Owned, WorkerLost, DeleteFromClientMap
  <2> QED
    BY <1>11, <2>1, <2>2, <2>3, ConnTypeFrame, RowTypeFrame, SendTypeFrame,
       TimerTypeFrame, AckTypeFrame, CallbackTypeFrame, SessionPlaceFrame,
       PushPlaceFrame, AckPlaceFrame, CallbackPlaceFrame, AttemptsFrame,
       FailureEndsFrame, SingleAckFrame, ToldBeforeDeletedFrame
    DEF DeleteFromClientMap
<1>12. ASSUME NEW r \in Requests, DeletePushRequest(r) PROVE IndInv'
  <2>1. ApiType'
    BY <1>12 DEF ApiType, DeletePushRequest
  <2>2. RowType'
    BY <1>12 DEF RowType, DeletePushRequest, DeletePushRequestByIndex
  <2>3. Progress'
    BY <1>12 DEF RowType, Progress, DeletePushRequest, DeletePushRequestByIndex
  <2>4. RowHasOwner'
    <3> SUFFICES ASSUME NEW q \in Requests, row'[q]
                 PROVE Owned(q)' \/ fault'[q] \/ WorkerLost(q)'
      BY DEF RowHasOwner
    <3>1. row[q] => Owned(q) \/ fault[q] \/ WorkerLost(q)
      BY DEF RowHasOwner
    <3>2. AckOwns(q)' <=> AckOwns(q)
      BY <1>12 DEF DeletePushRequest, AckOwns
    <3>3. CallbackOwns(q)' <=> CallbackOwns(q)
      BY <1>12 DEF DeletePushRequest, CallbackOwns
    <3> QED
      BY <1>12, <3>1, <3>2, <3>3 DEF RowType, Owned, WorkerLost, DeletePushRequest, DeletePushRequestByIndex
  <2>5. ToldBeforeDeleted'
    <3> SUFFICES ASSUME NEW q \in Requests, api'[q] = "ok", ~row'[q], q \in WithCallback
                 PROVE told'[q] # {} \/ GaveUp(q)'
      BY DEF ToldBeforeDeleted
    <3>1. api[q] = "ok" /\ ~row[q]
      BY <1>12 DEF RowType, Progress, DeletePushRequest, DeletePushRequestByIndex
    <3>2. told[q] # {} \/ GaveUp(q)
      BY <3>1 DEF ToldBeforeDeleted
    <3>3. GaveUp(q) => GaveUp(q)'
      BY <1>12 DEF DeletePushRequest, GaveUp
    <3>4. told[q] # {} => told'[q] # {}
      BY <1>12 DEF DeletePushRequest
    <3> QED
      BY <3>2, <3>3, <3>4
  <2> QED
    BY <1>12, <2>1, <2>2, <2>3, <2>4, <2>5, ConnTypeFrame, SendTypeFrame,
       TimerTypeFrame, AckTypeFrame, CallbackTypeFrame, SessionPlaceFrame,
       PushPlaceFrame, AckPlaceFrame, CallbackPlaceFrame, AttemptsFrame,
       FailureEndsFrame, SingleAckFrame
    DEF DeletePushRequest
<1>13. ASSUME NEW r \in Requests, PushToClient(r) PROVE IndInv'
  <2>1. SendType'
    <3>1. target[r] \in Workers
      BY <1>13 DEF Progress, PushToClient
    <3>2. sessionMap[target[r]][PushTo[r]] \in Sessions \cup {NoSession}
      BY <3>1 DEF ConnType
    <3>3. psess' \in [Requests -> Sessions \cup {NoSession}]
      BY <1>13, <3>2 DEF SendType, PushToClient
    <3>4. push' \in [Requests -> {"none", "ipc", "stream", "finish", "started", "ended"}]
      BY <1>13 DEF SendType, PushToClient, WaterfallEnds
    <3>5. fail' \in [Requests -> {"none", "reading", "fetched", "over"}]
      BY <1>13 DEF SendType, PushToClient, HandleFailure
    <3> QED
      BY <3>3, <3>4, <3>5 DEF SendType
  <2>2. PushPlace'
    BY <1>13 DEF SendType, Progress, SessionPlace, PushPlace, PushToClient
  <2>3. Progress'
    BY <1>13 DEF SendType, Progress, PushToClient, WaterfallEnds, HandleFailure
  <2>4. CallbackPlace'
    BY <1>13 DEF SendType, Progress, CallbackPlace, PushToClient, HandleFailure
  <2>5. FailureEnds'
    BY <1>13
    DEF SendType, Progress, FailureEnds, PushToClient, WaterfallEnds, HandleFailure
  <2>6. RowHasOwner'
    <3> SUFFICES ASSUME NEW q \in Requests, row'[q]
                 PROVE Owned(q)' \/ fault'[q] \/ WorkerLost(q)'
      BY DEF RowHasOwner
    <3>1. row[q] => Owned(q) \/ fault[q] \/ WorkerLost(q)
      BY DEF RowHasOwner
    <3>2. AckOwns(q)' <=> AckOwns(q)
      BY <1>13 DEF PushToClient, AckOwns
    <3>3. CallbackOwns(q)' <=> CallbackOwns(q)
      BY <1>13 DEF PushToClient, CallbackOwns
    <3> QED
      BY <1>13, <3>1, <3>2, <3>3
      DEF SendType, Owned, WorkerLost, PushToClient, WaterfallEnds, HandleFailure
  <2> QED
    BY <1>13, <2>1, <2>2, <2>3, <2>4, <2>5, <2>6, ConnTypeFrame, ApiTypeFrame,
       RowTypeFrame, TimerTypeFrame, AckTypeFrame, CallbackTypeFrame,
       SessionPlaceFrame, AckPlaceFrame, AttemptsFrame, SingleAckFrame,
       ToldBeforeDeletedFrame
    DEF PushToClient
<1>14. ASSUME NEW r \in Requests, StreamFinish(r) PROVE IndInv'
  <2>1. SendType'
    BY <1>14 DEF SendType, StreamFinish
  <2>2. Progress'
    BY <1>14 DEF Progress, StreamFinish
  <2>3. FailureEnds'
    BY <1>14 DEF FailureEnds, StreamFinish
  <2>4. RowHasOwner'
    <3> SUFFICES ASSUME NEW q \in Requests, row'[q]
                 PROVE Owned(q)' \/ fault'[q] \/ WorkerLost(q)'
      BY DEF RowHasOwner
    <3>1. row[q] => Owned(q) \/ fault[q] \/ WorkerLost(q)
      BY DEF RowHasOwner
    <3>2. AckOwns(q)' <=> AckOwns(q)
      BY <1>14 DEF StreamFinish, AckOwns
    <3>3. CallbackOwns(q)' <=> CallbackOwns(q)
      BY <1>14 DEF StreamFinish, CallbackOwns
    <3> QED
      BY <1>14, <3>1, <3>2, <3>3 DEF Owned, WorkerLost, StreamFinish
  <2> QED
    BY <1>14, <2>1, <2>2, <2>3, <2>4, ConnTypeFrame, ApiTypeFrame, RowTypeFrame,
       TimerTypeFrame, AckTypeFrame, CallbackTypeFrame, SessionPlaceFrame,
       PushPlaceFrame, AckPlaceFrame, CallbackPlaceFrame, AttemptsFrame,
       SingleAckFrame, ToldBeforeDeletedFrame
    DEF StreamFinish
<1>15. ASSUME NEW r \in Requests, StreamError(r) PROVE IndInv'
  <2>1. SendType'
    BY <1>15 DEF SendType, StreamError, WaterfallEnds, HandleFailure
  <2>2. Progress'
    BY <1>15 DEF SendType, Progress, StreamError, WaterfallEnds, HandleFailure
  <2>3. CallbackPlace'
    BY <1>15 DEF CallbackPlace, StreamError, HandleFailure
  <2>4. FailureEnds'
    BY <1>15
    DEF SendType, Progress, FailureEnds, StreamError, WaterfallEnds, HandleFailure
  <2>5. RowHasOwner'
    <3> SUFFICES ASSUME NEW q \in Requests, row'[q]
                 PROVE Owned(q)' \/ fault'[q] \/ WorkerLost(q)'
      BY DEF RowHasOwner
    <3>1. row[q] => Owned(q) \/ fault[q] \/ WorkerLost(q)
      BY DEF RowHasOwner
    <3>2. AckOwns(q)' <=> AckOwns(q)
      BY <1>15 DEF StreamError, AckOwns
    <3>3. CallbackOwns(q)' <=> CallbackOwns(q)
      BY <1>15 DEF StreamError, CallbackOwns
    <3> QED
      BY <1>15, <3>1, <3>2, <3>3
      DEF SendType, Owned, WorkerLost, StreamError, WaterfallEnds, HandleFailure
  <2> QED
    BY <1>15, <2>1, <2>2, <2>3, <2>4, <2>5, ConnTypeFrame, ApiTypeFrame,
       RowTypeFrame, TimerTypeFrame, AckTypeFrame, CallbackTypeFrame,
       SessionPlaceFrame, PushPlaceFrame, AckPlaceFrame, AttemptsFrame,
       SingleAckFrame, ToldBeforeDeletedFrame
    DEF StreamError
<1>16. ASSUME NEW r \in Requests, StartTimer(r) PROVE IndInv'
  <2>1. SendType'
    BY <1>16 DEF SendType, StartTimer
  <2>2. TimerType'
    BY <1>16 DEF TimerType, StartTimer
  <2>3. Progress'
    BY <1>16 DEF SendType, Progress, StartTimer
  <2>4. AckPlace'
    BY <1>16 DEF Progress, AckPlace, Past, StartTimer
  <2>5. CallbackPlace'
    BY <1>16 DEF Progress, CallbackPlace, StartTimer
  <2>6. FailureEnds'
    BY <1>16 DEF FailureEnds, StartTimer
  <2>7. RowHasOwner'
    <3> SUFFICES ASSUME NEW q \in Requests, row'[q]
                 PROVE Owned(q)' \/ fault'[q] \/ WorkerLost(q)'
      BY DEF RowHasOwner
    <3>1. row[q] => Owned(q) \/ fault[q] \/ WorkerLost(q)
      BY DEF RowHasOwner
    <3>2. AckOwns(q)' <=> AckOwns(q)
      BY <1>16 DEF StartTimer, AckOwns
    <3>3. CallbackOwns(q)' <=> CallbackOwns(q)
      BY <1>16 DEF StartTimer, CallbackOwns
    <3> QED
      BY <1>16, <3>1, <3>2, <3>3 DEF TimerType, Owned, WorkerLost, StartTimer
  <2> QED
    BY <1>16, <2>1, <2>2, <2>3, <2>4, <2>5, <2>6, <2>7, ConnTypeFrame, ApiTypeFrame,
       RowTypeFrame, AckTypeFrame, CallbackTypeFrame, SessionPlaceFrame,
       PushPlaceFrame, AttemptsFrame, SingleAckFrame, ToldBeforeDeletedFrame
    DEF StartTimer
<1>17. ASSUME NEW r \in Requests, FailureGetPushRequest(r) PROVE IndInv'
  <2>1. RowType'
    BY <1>17 DEF RowType, FailureGetPushRequest, ReadRow
  <2>2. SendType'
    BY <1>17 DEF SendType, FailureGetPushRequest, ReadRow
  <2>3. Progress'
    BY <1>17 DEF SendType, Progress, FailureGetPushRequest, ReadRow
  <2>4. CallbackPlace'
    BY <1>17 DEF SendType, CallbackPlace, FailureGetPushRequest, ReadRow
  <2>5. FailureEnds'
    BY <1>17 DEF SendType, FailureEnds, FailureGetPushRequest, ReadRow
  <2>6. RowHasOwner'
    <3> SUFFICES ASSUME NEW q \in Requests, row'[q]
                 PROVE Owned(q)' \/ fault'[q] \/ WorkerLost(q)'
      BY DEF RowHasOwner
    <3>1. row[q] => Owned(q) \/ fault[q] \/ WorkerLost(q)
      BY DEF RowHasOwner
    <3>2. AckOwns(q)' <=> AckOwns(q)
      BY <1>17 DEF FailureGetPushRequest, AckOwns
    <3>3. CallbackOwns(q)' <=> CallbackOwns(q)
      BY <1>17 DEF FailureGetPushRequest, CallbackOwns
    <3> QED
      BY <1>17, <3>1, <3>2, <3>3
      DEF RowType, SendType, Owned, WorkerLost, FailureGetPushRequest, ReadRow
  <2> QED
    BY <1>17, <2>1, <2>2, <2>3, <2>4, <2>5, <2>6, ConnTypeFrame, ApiTypeFrame,
       TimerTypeFrame, AckTypeFrame, CallbackTypeFrame, SessionPlaceFrame,
       PushPlaceFrame, AckPlaceFrame, AttemptsFrame, SingleAckFrame,
       ToldBeforeDeletedFrame
    DEF FailureGetPushRequest
<1>18. ASSUME NEW r \in Requests, FailureSendCallback(r) PROVE IndInv'
  <2>1. SendType'
    BY <1>18 DEF SendType, FailureSendCallback
  <2>2. CallbackType'
    BY <1>18 DEF CallbackType, FailureSendCallback, CreateCallback
  <2>3. Progress'
    BY <1>18 DEF Progress, FailureSendCallback
  <2>4. AckPlace'
    BY <1>18 DEF AckPlace, Past, FailureSendCallback, CreateCallback
  <2>5. CallbackPlace'
    BY <1>18 DEF SendType, CallbackPlace, FailureSendCallback, CreateCallback
  <2>6. Attempts'
    BY <1>18 DEF CallbackPlace, Attempts, FailureSendCallback, CreateCallback
  <2>7. FailureEnds'
    BY <1>18 DEF FailureEnds, FailureSendCallback
  <2>8. RowHasOwner'
    <3> SUFFICES ASSUME NEW q \in Requests, row'[q]
                 PROVE Owned(q)' \/ fault'[q] \/ WorkerLost(q)'
      BY DEF RowHasOwner
    <3>1. row[q] => Owned(q) \/ fault[q] \/ WorkerLost(q)
      BY DEF RowHasOwner
    <3>2. AckOwns(q)' <=> AckOwns(q)
      BY <1>18 DEF FailureSendCallback, AckOwns
    <3>3. (CallbackOwns(q) \/ q = r) => CallbackOwns(q)'
      BY <1>18
      DEF CallbackType, FailureSendCallback, CreateCallback, CallbackOwns,
          CallbackActive
    <3> QED
      BY <1>18, <3>1, <3>2, <3>3 DEF Owned, WorkerLost, FailureSendCallback
  <2> QED
    BY <1>18, <2>1, <2>2, <2>3, <2>4, <2>5, <2>6, <2>7, <2>8, ConnTypeFrame,
       ApiTypeFrame, RowTypeFrame, TimerTypeFrame, AckTypeFrame, SessionPlaceFrame,
       PushPlaceFrame, SingleAckFrame, ToldBeforeDeletedFrame
    DEF FailureSendCallback
<1>19. ASSUME NEW r \in Requests, OnTimeout(r) PROVE IndInv'
  <2>1. TimerType'
    BY <1>19 DEF TimerType, OnTimeout
  <2>2. Progress'
    BY <1>19 DEF Progress, OnTimeout
  <2>3. AckPlace'
    BY <1>19 DEF AckPlace, Past, OnTimeout
  <2>4. CallbackPlace'
    BY <1>19 DEF CallbackPlace, OnTimeout
  <2>5. FailureEnds'
    BY <1>19 DEF FailureEnds, OnTimeout
  <2>6. RowHasOwner'
    <3> SUFFICES ASSUME NEW q \in Requests, row'[q]
                 PROVE Owned(q)' \/ fault'[q] \/ WorkerLost(q)'
      BY DEF RowHasOwner
    <3>1. row[q] => Owned(q) \/ fault[q] \/ WorkerLost(q)
      BY DEF RowHasOwner
    <3>2. AckOwns(q)' <=> AckOwns(q)
      BY <1>19 DEF OnTimeout, AckOwns
    <3>3. CallbackOwns(q)' <=> CallbackOwns(q)
      BY <1>19 DEF OnTimeout, CallbackOwns
    <3> QED
      BY <1>19, <3>1, <3>2, <3>3 DEF Owned, WorkerLost, OnTimeout
  <2> QED
    BY <1>19, <2>1, <2>2, <2>3, <2>4, <2>5, <2>6, ConnTypeFrame, ApiTypeFrame,
       RowTypeFrame, SendTypeFrame, AckTypeFrame, CallbackTypeFrame,
       SessionPlaceFrame, PushPlaceFrame, AttemptsFrame, SingleAckFrame,
       ToldBeforeDeletedFrame
    DEF OnTimeout
<1>20. ASSUME NEW r \in Requests, RemoveTimer(r) PROVE IndInv'
  <2>1. TimerType'
    BY <1>20 DEF TimerType, RemoveTimer
  <2>2. Progress'
    BY <1>20 DEF Progress, RemoveTimer
  <2>3. AckPlace'
    BY <1>20 DEF AckPlace, Past, RemoveTimer
  <2>4. CallbackPlace'
    BY <1>20 DEF CallbackPlace, RemoveTimer
  <2>5. FailureEnds'
    BY <1>20 DEF FailureEnds, RemoveTimer
  <2>6. RowHasOwner'
    <3> SUFFICES ASSUME NEW q \in Requests, row'[q]
                 PROVE Owned(q)' \/ fault'[q] \/ WorkerLost(q)'
      BY DEF RowHasOwner
    <3>1. row[q] => Owned(q) \/ fault[q] \/ WorkerLost(q)
      BY DEF RowHasOwner
    <3>2. AckOwns(q)' <=> AckOwns(q)
      BY <1>20 DEF RemoveTimer, AckOwns
    <3>3. CallbackOwns(q)' <=> CallbackOwns(q)
      BY <1>20 DEF RemoveTimer, CallbackOwns
    <3> QED
      BY <1>20, <3>1, <3>2, <3>3 DEF Owned, WorkerLost, RemoveTimer
  <2> QED
    BY <1>20, <2>1, <2>2, <2>3, <2>4, <2>5, <2>6, ConnTypeFrame, ApiTypeFrame,
       RowTypeFrame, SendTypeFrame, AckTypeFrame, CallbackTypeFrame,
       SessionPlaceFrame, PushPlaceFrame, AttemptsFrame, SingleAckFrame,
       ToldBeforeDeletedFrame
    DEF RemoveTimer
<1>21. ASSUME NEW r \in Requests, TimerGetPushRequest(r) PROVE IndInv'
  <2>1. RowType'
    BY <1>21 DEF RowType, TimerGetPushRequest, ReadRow
  <2>2. TimerType'
    BY <1>21 DEF TimerType, TimerGetPushRequest, ReadRow
  <2>3. Progress'
    BY <1>21 DEF TimerType, Progress, TimerGetPushRequest, ReadRow
  <2>4. AckPlace'
    BY <1>21 DEF TimerType, AckPlace, Past, TimerGetPushRequest, ReadRow
  <2>5. CallbackPlace'
    BY <1>21 DEF TimerType, CallbackPlace, TimerGetPushRequest, ReadRow
  <2>6. FailureEnds'
    BY <1>21 DEF TimerType, FailureEnds, TimerGetPushRequest, ReadRow
  <2>7. RowHasOwner'
    <3> SUFFICES ASSUME NEW q \in Requests, row'[q]
                 PROVE Owned(q)' \/ fault'[q] \/ WorkerLost(q)'
      BY DEF RowHasOwner
    <3>1. row[q] => Owned(q) \/ fault[q] \/ WorkerLost(q)
      BY DEF RowHasOwner
    <3>2. AckOwns(q)' <=> AckOwns(q)
      BY <1>21 DEF TimerGetPushRequest, AckOwns
    <3>3. CallbackOwns(q)' <=> CallbackOwns(q)
      BY <1>21 DEF TimerGetPushRequest, CallbackOwns
    <3> QED
      BY <1>21, <3>1, <3>2, <3>3
      DEF RowType, TimerType, Owned, WorkerLost, TimerGetPushRequest, ReadRow
  <2> QED
    BY <1>21, <2>1, <2>2, <2>3, <2>4, <2>5, <2>6, <2>7, ConnTypeFrame, ApiTypeFrame,
       SendTypeFrame, AckTypeFrame, CallbackTypeFrame, SessionPlaceFrame,
       PushPlaceFrame, AttemptsFrame, SingleAckFrame, ToldBeforeDeletedFrame
    DEF TimerGetPushRequest
<1>22. ASSUME NEW r \in Requests, TimerSendCallback(r) PROVE IndInv'
  <2>1. TimerType'
    BY <1>22 DEF TimerType, TimerSendCallback
  <2>2. CallbackType'
    BY <1>22 DEF CallbackType, TimerSendCallback, CreateCallback
  <2>3. Progress'
    BY <1>22 DEF Progress, TimerSendCallback
  <2>4. AckPlace'
    BY <1>22 DEF AckPlace, Past, TimerSendCallback, CreateCallback
  <2>5. CallbackPlace'
    BY <1>22 DEF TimerType, CallbackPlace, TimerSendCallback, CreateCallback
  <2>6. Attempts'
    BY <1>22 DEF CallbackPlace, Attempts, TimerSendCallback, CreateCallback
  <2>7. FailureEnds'
    BY <1>22 DEF FailureEnds, TimerSendCallback
  <2>8. RowHasOwner'
    <3> SUFFICES ASSUME NEW q \in Requests, row'[q]
                 PROVE Owned(q)' \/ fault'[q] \/ WorkerLost(q)'
      BY DEF RowHasOwner
    <3>1. row[q] => Owned(q) \/ fault[q] \/ WorkerLost(q)
      BY DEF RowHasOwner
    <3>2. AckOwns(q)' <=> AckOwns(q)
      BY <1>22 DEF TimerSendCallback, AckOwns
    <3>3. (CallbackOwns(q) \/ q = r) => CallbackOwns(q)'
      BY <1>22
      DEF CallbackType, TimerSendCallback, CreateCallback, CallbackOwns,
          CallbackActive
    <3> QED
      BY <1>22, <3>1, <3>2, <3>3 DEF Owned, WorkerLost, TimerSendCallback
  <2> QED
    BY <1>22, <2>1, <2>2, <2>3, <2>4, <2>5, <2>6, <2>7, <2>8, ConnTypeFrame,
       ApiTypeFrame, RowTypeFrame, SendTypeFrame, AckTypeFrame, SessionPlaceFrame,
       PushPlaceFrame, SingleAckFrame, ToldBeforeDeletedFrame
    DEF TimerSendCallback
<1>23. ASSUME NEW r \in Requests, NEW a \in Acks, CancelPushTimer(r, a) PROVE IndInv'
  <2>1. TimerType'
    BY <1>23 DEF TimerType, CancelPushTimer, Cancelled
  <2>2. AckType'
    <3>1. PICK st \in {"reading", "notfound"} : ack' = [ack EXCEPT ![r][a] = st]
      BY <1>23 DEF CancelPushTimer
    <3> QED
      BY <3>1 DEF AckType
  <2>3. Progress'
    BY <1>23 DEF TimerType, Progress, CancelPushTimer, FindsTimer, Registered
  <2>4. AckPlace'
    <3>1. CASE FindsTimer(r, a)
      <4>1. WorkerOf[AckVia[a]] = target[r]
        BY <3>1 DEF FindsTimer, SessionPlace, PushPlace
      <4>2. timer' = [timer EXCEPT ![r] = timer'[r]] /\ timer'[r] \in {"cancelled", "overtaken"}
        BY <1>23, <3>1 DEF TimerType, CancelPushTimer, Cancelled
      <4>3. ack' = [ack EXCEPT ![r][a] = "reading"] /\ UNCHANGED <<target, cb>>
        BY <1>23, <3>1 DEF CancelPushTimer
      <4> QED
        BY <1>23, <4>1, <4>2, <4>3 DEF TimerType, AckPlace, Past, CancelPushTimer
    <3>2. CASE ~FindsTimer(r, a)
      BY <1>23, <3>2 DEF AckType, AckPlace, Past, CancelPushTimer
    <3> QED
      BY <3>1, <3>2
  <2>5. CallbackPlace'
    BY <1>23
    DEF TimerType, CallbackPlace, CancelPushTimer, Cancelled, FindsTimer, Registered
  <2>6. FailureEnds'
    BY <1>23 DEF TimerType, FailureEnds, CancelPushTimer, FindsTimer, Registered
  <2>7. SingleAck'
    BY <1>23
    DEF AckType, AckPlace, SingleAck, CancelPushTimer, Cancelled, FindsTimer,
        Registered, Past
  <2>8. RowHasOwner'
    <3> SUFFICES ASSUME NEW q \in Requests, row'[q]
                 PROVE Owned(q)' \/ fault'[q] \/ WorkerLost(q)'
      BY DEF RowHasOwner
    <3>1. row[q] => Owned(q) \/ fault[q] \/ WorkerLost(q)
      BY DEF RowHasOwner
    <3>2. AckOwns(q) \/ (q = r /\ Registered(r) /\ FindsTimer(r, a)) => AckOwns(q)'
      BY <1>23 DEF AckType, CancelPushTimer, AckOwns
    <3>3. CallbackOwns(q)' <=> CallbackOwns(q)
      BY <1>23 DEF CancelPushTimer, CallbackOwns
    <3> QED
      BY <1>23, <3>1, <3>2, <3>3
      DEF TimerType, Owned, WorkerLost, CancelPushTimer, FindsTimer
  <2> QED
    BY <1>23, <2>1, <2>2, <2>3, <2>4, <2>5, <2>6, <2>7, <2>8, ConnTypeFrame,
       ApiTypeFrame, RowTypeFrame, SendTypeFrame, CallbackTypeFrame,
       SessionPlaceFrame, PushPlaceFrame, AttemptsFrame, ToldBeforeDeletedFrame
    DEF CancelPushTimer
<1>24. ASSUME NEW r \in Requests, NEW a \in Acks, AckGetPushRequest(r, a) PROVE IndInv'
  <2>1. RowType'
    BY <1>24 DEF RowType, AckGetPushRequest, ReadRow
  <2>2. AckType'
    <3>1. PICK st \in {"fetched", "error"} : ack' = [ack EXCEPT ![r][a] = st]
      BY <1>24 DEF AckGetPushRequest, ReadRow
    <3> QED
      BY <3>1 DEF AckType
  <2>3. AckPlace'
    <3>1. PICK st \in {"fetched", "error"} : ack' = [ack EXCEPT ![r][a] = st]
      BY <1>24 DEF AckGetPushRequest, ReadRow
    <3> QED
      BY <1>24, <3>1 DEF AckType, AckPlace, Past, AckGetPushRequest
  <2>4. SingleAck'
    <3>1. PICK st \in {"fetched", "error"} : ack' = [ack EXCEPT ![r][a] = st]
      BY <1>24 DEF AckGetPushRequest, ReadRow
    <3> QED
      BY <1>24, <3>1 DEF AckType, SingleAck, AckGetPushRequest
  <2>5. RowHasOwner'
    <3> SUFFICES ASSUME NEW q \in Requests, row'[q]
                 PROVE Owned(q)' \/ fault'[q] \/ WorkerLost(q)'
      BY DEF RowHasOwner
    <3>1. row[q] => Owned(q) \/ fault[q] \/ WorkerLost(q)
      BY DEF RowHasOwner
    <3>2. row[q] /\ AckOwns(q) => AckOwns(q)' \/ fault'[q]
      <4>1. CASE q # r
        BY <1>24, <4>1 DEF AckType, AckGetPushRequest, ReadRow, AckOwns
      <4>2. CASE q = r
        BY <1>24, <4>2 DEF AckType, RowType, AckGetPushRequest, ReadRow, AckOwns
      <4> QED
        BY <4>1, <4>2
    <3>3. CallbackOwns(q)' <=> CallbackOwns(q)
      BY <1>24 DEF AckGetPushRequest, CallbackOwns
    <3> QED
      <4>1. CASE q = r
        BY <1>24, <3>2, <4>1 DEF AckGetPushRequest, AckOwns, Owned
      <4>2. CASE q # r
        BY <1>24, <3>1, <3>2, <3>3, <4>2
        DEF RowType, AckGetPushRequest, ReadRow, Owned, WorkerLost
      <4> QED
        BY <4>1, <4>2
  <2> QED
    BY <1>24, <2>1, <2>2, <2>3, <2>4, <2>5, ConnTypeFrame, ApiTypeFrame,
       SendTypeFrame, TimerTypeFrame, CallbackTypeFrame, SessionPlaceFrame,
       PushPlaceFrame, ProgressFrame, CallbackPlaceFrame, AttemptsFrame,
       FailureEndsFrame, ToldBeforeDeletedFrame
    DEF AckGetPushRequest
<1>25. ASSUME NEW r \in Requests, NEW a \in Acks, AckSendCallback(r, a) PROVE IndInv'
  <2>1. AckType'
    BY <1>25 DEF AckType, AckSendCallback
  <2>2. CallbackType'
    BY <1>25 DEF CallbackType, AckSendCallback, CreateCallback
  <2>3. AckPlace'
    BY <1>25 DEF AckType, AckPlace, Past, AckSendCallback, CreateCallback
  <2>4. CallbackPlace'
    BY <1>25 DEF CallbackPlace, AckSendCallback, CreateCallback
  <2>5. Attempts'
    BY <1>25 DEF AckPlace, Attempts, AckSendCallback, CreateCallback
  <2>6. SingleAck'
    BY <1>25 DEF SingleAck, AckSendCallback
  <2>7. RowHasOwner'
    <3> SUFFICES ASSUME NEW q \in Requests, row'[q]
                 PROVE Owned(q)' \/ fault'[q] \/ WorkerLost(q)'
      BY DEF RowHasOwner
    <3>1. row[q] => Owned(q) \/ fault[q] \/ WorkerLost(q)
      BY DEF RowHasOwner
    <3>2. q # r /\ AckOwns(q) => AckOwns(q)'
      BY <1>25 DEF AckSendCallback, AckOwns
    <3>3. (CallbackOwns(q) \/ q = r) => CallbackOwns(q)'
      BY <1>25
      DEF CallbackType, AckSendCallback, CreateCallback, CallbackOwns, CallbackActive
    <3> QED
      BY <1>25, <3>1, <3>2, <3>3 DEF Owned, WorkerLost, AckSendCallback
  <2> QED
    BY <1>25, <2>1, <2>2, <2>3, <2>4, <2>5, <2>6, <2>7, ConnTypeFrame, ApiTypeFrame,
       RowTypeFrame, SendTypeFrame, TimerTypeFrame, SessionPlaceFrame,
       PushPlaceFrame, ProgressFrame, FailureEndsFrame, ToldBeforeDeletedFrame
    DEF AckSendCallback
<1>26. ASSUME NEW r \in Requests, NEW k \in Kinds, CallbackStart(r, k) PROVE IndInv'
  <2>1. CallbackType'
    <3>1. cb' \in [Requests -> [Kinds -> {"none", "start", "posting", "backoff",
                                        "deleting", "done", "lost"}]]
      <4>1. PICK st \in {"posting", "deleting"} : cb' = [cb EXCEPT ![r][k] = st]
        BY <1>26 DEF CallbackStart, CallbackPost
      <4> QED
        BY <4>1 DEF CallbackType
    <3>2. att[r][k] = 0
      BY <1>26 DEF Attempts, CallbackStart
    <3>3. att' \in [Requests -> [Kinds -> 0 .. Retries + 1]]
      <4>1. PICK n \in {0, 1} : att' = [att EXCEPT ![r][k] = n]
        BY <1>26, <3>2 DEF CallbackType, CallbackStart, CallbackPost
      <4>2. n \in 0 .. Retries + 1
        OBVIOUS
      <4> QED
        BY <4>1, <4>2 DEF CallbackType
    <3> QED
      BY <1>26, <3>1, <3>3 DEF CallbackType, CallbackStart
  <2>2. AckPlace'
    <3>1. PICK st \in {"posting", "deleting"} : cb' = [cb EXCEPT ![r][k] = st]
      BY <1>26 DEF CallbackStart, CallbackPost
    <3> QED
      BY <1>26, <3>1 DEF AckPlace, Past, CallbackStart
  <2>3. CallbackPlace'
    <3>1. PICK st \in {"posting", "deleting"} : cb' = [cb EXCEPT ![r][k] = st]
      BY <1>26 DEF CallbackStart, CallbackPost
    <3> QED
      BY <1>26, <3>1 DEF CallbackPlace, CallbackStart
  <2>4. Attempts'
    <3>1. CASE r \in WithCallback
      <4>1. \A q \in Requests, j \in Kinds :
              q # r \/ j # k => cb'[q][j] = cb[q][j] /\ att'[q][j] = att[q][j]
        BY <1>26, <3>1 DEF CallbackType, CallbackStart, CallbackPost
      <4>2. cb'[r][k] = "posting" /\ told' = told
        BY <1>26, <3>1 DEF CallbackType, CallbackStart, CallbackPost
      <4> QED
        BY <4>1, <4>2 DEF Attempts
    <3>2. CASE r \notin WithCallback
      BY <1>26, <3>2 DEF CallbackType, Attempts, CallbackStart
    <3> QED
      BY <3>1, <3>2
  <2>5. RowHasOwner'
    <3> SUFFICES ASSUME NEW q \in Requests, row'[q]
                 PROVE Owned(q)' \/ fault'[q] \/ WorkerLost(q)'
      BY DEF RowHasOwner
    <3>1. row[q] => Owned(q) \/ fault[q] \/ WorkerLost(q)
      BY DEF RowHasOwner
    <3>2. AckOwns(q)' <=> AckOwns(q)
      BY <1>26 DEF CallbackStart, AckOwns
    <3>3. CallbackOwns(q) => CallbackOwns(q)'
      <4>1. PICK st \in {"posting", "deleting"} : cb' = [cb EXCEPT ![r][k] = st]
        BY <1>26 DEF CallbackStart, CallbackPost
      <4> QED
        BY <1>26, <4>1 DEF CallbackOwns, CallbackActive
    <3> QED
      BY <1>26, <3>1, <3>2, <3>3 DEF Owned, WorkerLost, CallbackStart
  <2>6. ToldBeforeDeleted'
    <3> SUFFICES ASSUME NEW q \in Requests, api'[q] = "ok", ~row'[q], q \in WithCallback
                 PROVE told'[q] # {} \/ GaveUp(q)'
      BY DEF ToldBeforeDeleted
    <3>1. api[q] = "ok" /\ ~row[q]
      BY <1>26 DEF CallbackStart
    <3>2. told[q] # {} \/ GaveUp(q)
      BY <3>1 DEF ToldBeforeDeleted
    <3>3. GaveUp(q) => GaveUp(q)'
      <4> SUFFICES ASSUME NEW j \in Kinds, att[q][j] = Retries + 1
                   PROVE att'[q][j] = Retries + 1
        BY DEF GaveUp
      <4>1. att[r][k] # Retries + 1
        BY <1>26 DEF Attempts, CallbackStart
      <4>2. att' = att \/ att' = [att EXCEPT ![r][k] = @ + 1]
        BY <1>26 DEF CallbackStart, CallbackPost
      <4> QED
        BY <4>1, <4>2 DEF CallbackType
    <3>4. told[q] # {} => told'[q] # {}
      BY <1>26 DEF CallbackStart
    <3> QED
      BY <3>2, <3>3, <3>4
  <2> QED
    BY <1>26, <2>1, <2>2, <2>3, <2>4, <2>5, <2>6, ConnTypeFrame, ApiTypeFrame,
       RowTypeFrame, SendTypeFrame, TimerTypeFrame, AckTypeFrame, SessionPlaceFrame,
       PushPlaceFrame, ProgressFrame, FailureEndsFrame, SingleAckFrame
    DEF CallbackStart
<1>27. ASSUME NEW r \in Requests, NEW k \in Kinds, CallbackAnswer(r, k) PROVE IndInv'
  <2>1. CallbackType'
    <3>1. PICK st \in {"backoff", "deleting"} : cb' = [cb EXCEPT ![r][k] = st]
      BY <1>27 DEF CallbackAnswer
    <3>2. told' \in [Requests -> SUBSET Kinds]
      <4>1. told' = told \/ told' = [told EXCEPT ![r] = @ \cup {k}]
        BY <1>27 DEF CallbackAnswer
      <4> QED
        BY <4>1 DEF CallbackType
    <3> QED
      BY <1>27, <3>1, <3>2 DEF CallbackType, CallbackAnswer
  <2>2. AckPlace'
    <3>1. PICK st \in {"backoff", "deleting"} : cb' = [cb EXCEPT ![r][k] = st]
      BY <1>27 DEF CallbackAnswer
    <3> QED
      BY <1>27, <3>1 DEF AckPlace, Past, CallbackAnswer
  <2>3. CallbackPlace'
    <3>1. PICK st \in {"backoff", "deleting"} : cb' = [cb EXCEPT ![r][k] = st]
      BY <1>27 DEF CallbackAnswer
    <3> QED
      BY <1>27, <3>1 DEF CallbackPlace, CallbackAnswer
  <2>4. Attempts'
    <3>1. CASE /\ cb' = [cb EXCEPT ![r][k] = "deleting"]
               /\ told' = [told EXCEPT ![r] = @ \cup {k}]
      BY <1>27, <3>1 DEF CallbackType, Attempts, CallbackAnswer
    <3>2. CASE told' = told /\ RetryLeft(r, k) /\ cb' = [cb EXCEPT ![r][k] = "backoff"]
      BY <1>27, <3>2 DEF Attempts, CallbackAnswer, RetryLeft
    <3>3. CASE told' = told /\ ~RetryLeft(r, k) /\ cb' = [cb EXCEPT ![r][k] = "deleting"]
      <4>1. att[r][k] = Retries + 1
        <5>1. att[r][k] \in 0 .. Retries + 1
          BY DEF CallbackType
        <5> QED
          BY <3>3, <5>1 DEF RetryLeft
      <4> QED
        BY <1>27, <3>3, <4>1 DEF Attempts, CallbackAnswer
    <3> QED
      BY <1>27, <3>1, <3>2, <3>3 DEF CallbackAnswer
  <2>5. RowHasOwner'
    <3> SUFFICES ASSUME NEW q \in Requests, row'[q]
                 PROVE Owned(q)' \/ fault'[q] \/ WorkerLost(q)'
      BY DEF RowHasOwner
    <3>1. row[q] => Owned(q) \/ fault[q] \/ WorkerLost(q)
      BY DEF RowHasOwner
    <3>2. AckOwns(q)' <=> AckOwns(q)
      BY <1>27 DEF CallbackAnswer, AckOwns
    <3>3. CallbackOwns(q) => CallbackOwns(q)'
      <4>1. PICK st \in {"backoff", "deleting"} : cb' = [cb EXCEPT ![r][k] = st]
        BY <1>27 DEF CallbackAnswer
      <4> QED
        BY <1>27, <4>1 DEF CallbackOwns, CallbackActive
    <3> QED
      BY <1>27, <3>1, <3>2, <3>3 DEF Owned, WorkerLost, CallbackAnswer
  <2>6. ToldBeforeDeleted'
    <3> SUFFICES ASSUME NEW q \in Requests, api'[q] = "ok", ~row'[q], q \in WithCallback
                 PROVE told'[q] # {} \/ GaveUp(q)'
      BY DEF ToldBeforeDeleted
    <3>1. api[q] = "ok" /\ ~row[q]
      BY <1>27 DEF CallbackAnswer
    <3>2. told[q] # {} \/ GaveUp(q)
      BY <3>1 DEF ToldBeforeDeleted
    <3>3. GaveUp(q) => GaveUp(q)'
      BY <1>27 DEF CallbackAnswer, GaveUp
    <3>4. told[q] # {} => told'[q] # {}
      <4>1. told' = told \/ told' = [told EXCEPT ![r] = @ \cup {k}]
        BY <1>27 DEF CallbackAnswer
      <4> QED
        BY <4>1 DEF CallbackType
    <3> QED
      BY <3>2, <3>3, <3>4
  <2> QED
    BY <1>27, <2>1, <2>2, <2>3, <2>4, <2>5, <2>6, ConnTypeFrame, ApiTypeFrame,
       RowTypeFrame, SendTypeFrame, TimerTypeFrame, AckTypeFrame, SessionPlaceFrame,
       PushPlaceFrame, ProgressFrame, FailureEndsFrame, SingleAckFrame
    DEF CallbackAnswer
<1>28. ASSUME NEW r \in Requests, NEW k \in Kinds, CallbackRetry(r, k) PROVE IndInv'
  <2>1. CallbackType'
    <3>1. att[r][k] \in 0 .. Retries
      BY <1>28 DEF CallbackType, Attempts, CallbackRetry
    <3>2. att' \in [Requests -> [Kinds -> 0 .. Retries + 1]]
      <4>1. att[r][k] + 1 \in 0 .. Retries + 1
        BY <3>1
      <4>2. att' = [att EXCEPT ![r][k] = att[r][k] + 1]
        BY <1>28 DEF CallbackRetry, CallbackPost
      <4> QED
        BY <4>1, <4>2 DEF CallbackType
    <3>3. cb' \in [Requests -> [Kinds -> {"none", "start", "posting", "backoff",
                                        "deleting", "done", "lost"}]]
      BY <1>28 DEF CallbackType, CallbackRetry, CallbackPost
    <3> QED
      BY <1>28, <3>2, <3>3 DEF CallbackType, CallbackRetry
  <2>2. AckPlace'
    BY <1>28 DEF AckPlace, Past, CallbackRetry, CallbackPost
  <2>3. CallbackPlace'
    BY <1>28 DEF CallbackPlace, CallbackRetry, CallbackPost
  <2>4. Attempts'
    BY <1>28 DEF CallbackType, Attempts, CallbackRetry, CallbackPost
  <2>5. RowHasOwner'
    <3> SUFFICES ASSUME NEW q \in Requests, row'[q]
                 PROVE Owned(q)' \/ fault'[q] \/ WorkerLost(q)'
      BY DEF RowHasOwner
    <3>1. row[q] => Owned(q) \/ fault[q] \/ WorkerLost(q)
      BY DEF RowHasOwner
    <3>2. AckOwns(q)' <=> AckOwns(q)
      BY <1>28 DEF CallbackRetry, AckOwns
    <3>3. CallbackOwns(q) => CallbackOwns(q)'
      BY <1>28 DEF CallbackRetry, CallbackPost, CallbackOwns, CallbackActive
    <3> QED
      BY <1>28, <3>1, <3>2, <3>3 DEF Owned, WorkerLost, CallbackRetry
  <2>6. ToldBeforeDeleted'
    <3> SUFFICES ASSUME NEW q \in Requests, api'[q] = "ok", ~row'[q], q \in WithCallback
                 PROVE told'[q] # {} \/ GaveUp(q)'
      BY DEF ToldBeforeDeleted
    <3>1. api[q] = "ok" /\ ~row[q]
      BY <1>28 DEF CallbackRetry
    <3>2. told[q] # {} \/ GaveUp(q)
      BY <3>1 DEF ToldBeforeDeleted
    <3>3. GaveUp(q) => GaveUp(q)'
      <4> SUFFICES ASSUME NEW j \in Kinds, att[q][j] = Retries + 1
                   PROVE att'[q][j] = Retries + 1
        BY DEF GaveUp
      <4>1. att[r][k] # Retries + 1
        BY <1>28 DEF Attempts, CallbackRetry
      <4> QED
        BY <1>28, <4>1 DEF CallbackRetry, CallbackPost
    <3>4. told[q] # {} => told'[q] # {}
      BY <1>28 DEF CallbackRetry
    <3> QED
      BY <3>2, <3>3, <3>4
  <2> QED
    BY <1>28, <2>1, <2>2, <2>3, <2>4, <2>5, <2>6, ConnTypeFrame, ApiTypeFrame,
       RowTypeFrame, SendTypeFrame, TimerTypeFrame, AckTypeFrame, SessionPlaceFrame,
       PushPlaceFrame, ProgressFrame, FailureEndsFrame, SingleAckFrame
    DEF CallbackRetry
<1>29. ASSUME NEW r \in Requests, NEW k \in Kinds, CallbackDelete(r, k) PROVE IndInv'
  <2>1. RowType'
    BY <1>29 DEF RowType, CallbackDelete, DeletePushRequestByIndex
  <2>2. CallbackType'
    BY <1>29 DEF CallbackType, CallbackDelete
  <2>3. Progress'
    <3>1. api[r] = "ok"
      BY <1>29, CallbackMeansSent DEF CallbackDelete
    <3> QED
      BY <1>29, <3>1 DEF RowType, Progress, CallbackDelete, DeletePushRequestByIndex
  <2>4. AckPlace'
    BY <1>29 DEF AckPlace, Past, CallbackDelete
  <2>5. CallbackPlace'
    BY <1>29 DEF CallbackPlace, CallbackDelete
  <2>6. Attempts'
    BY <1>29 DEF Attempts, CallbackDelete
  <2>7. RowHasOwner'
    <3> SUFFICES ASSUME NEW q \in Requests, row'[q]
                 PROVE Owned(q)' \/ fault'[q] \/ WorkerLost(q)'
      BY DEF RowHasOwner
    <3>1. row[q] => Owned(q) \/ fault[q] \/ WorkerLost(q)
      BY DEF RowHasOwner
    <3>2. AckOwns(q)' <=> AckOwns(q)
      BY <1>29 DEF CallbackDelete, AckOwns
    <3>3. q # r /\ CallbackOwns(q) => CallbackOwns(q)'
      BY <1>29 DEF CallbackDelete, CallbackOwns
    <3> QED
      BY <1>29, <3>1, <3>2, <3>3 DEF RowType, Owned, WorkerLost, CallbackDelete, DeletePushRequestByIndex
  <2>8. ToldBeforeDeleted'
    <3> SUFFICES ASSUME NEW q \in Requests, api'[q] = "ok", ~row'[q], q \in WithCallback
                 PROVE told'[q] # {} \/ GaveUp(q)'
      BY DEF ToldBeforeDeleted
    <3>1. told[q] # {} \/ GaveUp(q)
      <4>1. CASE q = r
        BY <1>29, <4>1 DEF Attempts, CallbackDelete, DeletePushRequestByIndex, GaveUp
      <4>2. CASE q # r
        <5>1. api[q] = "ok" /\ ~row[q]
          BY <1>29, <4>2 DEF RowType, CallbackDelete, DeletePushRequestByIndex
        <5> QED
          BY <5>1 DEF ToldBeforeDeleted
      <4> QED
        BY <4>1, <4>2
    <3>2. GaveUp(q)' <=> GaveUp(q)
      BY <1>29 DEF CallbackDelete, GaveUp
    <3> QED
      BY <1>29, <3>1, <3>2 DEF CallbackDelete
  <2> QED
    BY <1>29, <2>1, <2>2, <2>3, <2>4, <2>5, <2>6, <2>7, <2>8, ConnTypeFrame,
       ApiTypeFrame, SendTypeFrame, TimerTypeFrame, AckTypeFrame, SessionPlaceFrame,
       PushPlaceFrame, FailureEndsFrame, SingleAckFrame
    DEF CallbackDelete
<1>30. CASE UNCHANGED vars
  BY <1>30, ConnTypeFrame, ApiTypeFrame, RowTypeFrame, SendTypeFrame, TimerTypeFrame,
     AckTypeFrame, CallbackTypeFrame, SessionPlaceFrame, PushPlaceFrame,
     ProgressFrame, AckPlaceFrame, CallbackPlaceFrame, AttemptsFrame,
     FailureEndsFrame, SingleAckFrame, RowHasOwnerFrame, ToldBeforeDeletedFrame
  DEF vars
<1> QED
  BY <1>1, <1>2, <1>3, <1>4, <1>5, <1>6, <1>7, <1>8, <1>9, <1>10, <1>11, <1>12, <1>13,
     <1>14, <1>15, <1>16, <1>17, <1>18, <1>19, <1>20, <1>21, <1>22, <1>23, <1>24,
     <1>25, <1>26, <1>27, <1>28, <1>29, <1>30
  DEF Next, Environment, RequestStep, AckStep, CallbackStep

-----------------------------------------------------------------------------
(* The theorems.                                                           *)

\* The inductive invariant holds in every reachable state.
THEOREM Invariance == Spec => []IndInv
  BY InitInv, StepInv, PTL DEF Spec

\* Type correctness; in particular no callback is ever posted more than
\* 1 + PUSH_CALLBACK_RETRIES times.
THEOREM TypeCorrect == Spec => []TypeOK
<1>1. IndInv => TypeOK
  BY DEF IndInv
<1> QED
  BY <1>1, Invariance, PTL

\* A stored push request is never forgotten by all parties, unless a worker
\* exited or a query failed.
THEOREM RowNeverForgotten == Spec => []RowHasOwner
<1>1. IndInv => RowHasOwner
  BY DEF IndInv
<1> QED
  BY <1>1, Invariance, PTL

\* However many acks a client sends, over however many connections, one at
\* most gets past cancelPushTimer.
THEOREM AtMostOneAck == Spec => []SingleAck
<1>1. IndInv => SingleAck
  BY DEF IndInv
<1> QED
  BY <1>1, Invariance, PTL

\* A request of the application is deleted only after its callback was
\* delivered or given up.
THEOREM NoSilentDeletion == Spec => []ToldBeforeDeleted
<1>1. IndInv => ToldBeforeDeleted
  BY DEF IndInv
<1> QED
  BY <1>1, Invariance, PTL

\* A send failure excludes the other outcomes, if a push stream ends in one
\* event only.
THEOREM FailureExcludesOthers == Spec => []FailureIsFinal
<1>1. IndInv => FailureIsFinal
  <2> SUFFICES ASSUME IndInv, ~BothStreamEvents, NEW r \in Requests, fail[r] # "none"
               PROVE /\ timer[r] = "none" /\ cb[r]["timeout"] = "none"
                     /\ \A a \in Acks : cb[r][a] = "none"
    BY DEF FailureIsFinal
  <2>1. timer[r] = "none"
    BY DEF IndInv, FailureEnds
  <2>2. cb[r]["timeout"] = "none"
    BY <2>1 DEF IndInv, CallbackPlace
  <2>3. ASSUME NEW a \in Acks PROVE cb[r][a] = "none"
    BY <2>1 DEF IndInv, AckPlace, Past
  <2> QED
    BY <2>1, <2>2, <2>3
<1> QED
  BY <1>1, Invariance, PTL

\* An ack that cancels the timer before it fires excludes a timeout callback.
THEOREM AckInTimeExcludesTimeout == Spec => []AckInTimeSettles
<1>1. IndInv => AckInTimeSettles
  BY DEF IndInv, CallbackPlace, AckInTimeSettles
<1> QED
  BY <1>1, Invariance, PTL

\* The ack that gets past cancelPushTimer is in the process of the push.
THEOREM AckNextToTimer == Spec => []AckInSameProcess
<1>1. IndInv => AckInSameProcess
  BY DEF IndInv, AckPlace, Past, AckInSameProcess
<1> QED
  BY <1>1, Invariance, PTL


-----------------------------------------------------------------------------
(* PushDelivery implements PushPromise, for any number of requests,        *)
(* clients, workers, sessions, acks and retries.  Beside the inductive     *)
(* invariant above the proof needs to know from which callbacks a report   *)
(* can have come.                                                          *)

\* An outcome was reported by a callback that has left its attempts behind.
ToldPlace ==
    \A r \in Requests, k \in Kinds :
        k \in told[r] => cb[r][k] \in {"deleting", "done", "lost"}

\* Only a callback with a url is posted.
PostedHasUrl ==
    \A r \in Requests, k \in Kinds :
        cb[r][k] \in {"posting", "backoff"} => r \in WithCallback

\* Initially nothing has been reported.
LEMMA InitTold == Init => ToldPlace
  BY DEF Init, ToldPlace

\* Initially there is no callback.
LEMMA InitPosted == Init => PostedHasUrl
  BY DEF Init, PostedHasUrl

\* A callback is created by an initiator that has not created one before, so
\* no step takes a callback that has reported back to an earlier stage.
LEMMA StepTold == IndInv /\ ToldPlace /\ [Next]_vars => ToldPlace'
<1> SUFFICES ASSUME IndInv, ToldPlace, [Next]_vars PROVE ToldPlace'
  OBVIOUS
<1> USE NamesAssumption DEF Kinds
<1>t. CallbackType
  BY DEF IndInv, TypeOK
<1>1. ASSUME UNCHANGED <<cb, told>> PROVE ToldPlace'
  BY <1>1 DEF ToldPlace
<1>2. CASE UNCHANGED vars
  BY <1>1, <1>2 DEF vars, cbVars
<1>3. CASE Environment
  <2>1. CASE \E s \in Sessions : \/ Listen(s) \/ SocketClose(s)
                                 \/ ProcessAddClient(s) \/ ProcessDelClient(s)
    BY <1>1, <2>1 DEF Listen, SocketClose, ProcessAddClient, ProcessDelClient, cbVars
  <2>2. ASSUME NEW w \in Workers, WorkerExit(w) PROVE ToldPlace'
    <3>1. told' = told
      BY <2>2 DEF WorkerExit
    <3>2. ASSUME NEW r \in Requests, NEW k \in Kinds, cb[r][k] \in {"deleting", "done", "lost"}
          PROVE  cb'[r][k] \in {"deleting", "done", "lost"}
      BY <2>2, <3>2 DEF WorkerExit, LoseUnless
    <3> QED
      BY <3>1, <3>2 DEF ToldPlace
  <2>3. CASE \E r \in Requests : GetClientInfo(r)
    BY <1>1, <2>3 DEF GetClientInfo, cbVars
  <2>4. CASE \E r \in Requests, a \in Acks : AckReceive(r, a)
    BY <1>1, <2>4 DEF AckReceive, cbVars
  <2> QED
    BY <1>3, <2>1, <2>2, <2>3, <2>4 DEF Environment
<1>u. ASSUME NEW r \in Requests, NEW k \in Kinds, NEW v,
             cb[r][k] \notin {"deleting", "done", "lost"},
             cb' = [cb EXCEPT ![r][k] = v], told' = told
      PROVE  ToldPlace'
  <2> SUFFICES ASSUME NEW q \in Requests, NEW j \in Kinds, j \in told[q]
               PROVE  cb'[q][j] \in {"deleting", "done", "lost"}
    BY <1>u DEF ToldPlace
  <2>1. cb[q][j] \in {"deleting", "done", "lost"}
    BY DEF ToldPlace
  <2>2. cb'[q][j] = cb[q][j]
    BY <1>u, <2>1, <1>t DEF CallbackType
  <2> QED
    BY <2>1, <2>2
<1>c. ASSUME NEW r \in Requests, NEW k \in Kinds, cb[r][k] = "none",
             CreateCallback(r, k), told' = told
      PROVE  ToldPlace'
  BY <1>c, <1>u DEF CreateCallback
<1>4. ASSUME NEW r \in Requests, RequestStep(r) PROVE ToldPlace'
  <2>1. CASE FailureSendCallback(r)
    <3>1. cb[r]["failure"] = "none"
      BY <2>1 DEF FailureSendCallback, IndInv, CallbackPlace
    <3> QED
      BY <1>c, <2>1, <3>1 DEF FailureSendCallback
  <2>2. CASE TimerSendCallback(r)
    <3>1. cb[r]["timeout"] = "none"
      BY <2>2 DEF TimerSendCallback, IndInv, CallbackPlace
    <3> QED
      BY <1>c, <2>2, <3>1 DEF TimerSendCallback
  <2>3. CASE \/ Validate(r) \/ CreatePushRequest(r) \/ SendPushRequestToWorker(r)
             \/ DeleteFromClientMap(r) \/ DeletePushRequest(r)
    BY <1>1, <2>3 DEF Validate, CreatePushRequest, SendPushRequestToWorker,
       DeleteFromClientMap, DeletePushRequest, cbVars
  <2>4. CASE \/ PushToClient(r) \/ StreamFinish(r) \/ StreamError(r) \/ StartTimer(r)
    BY <1>1, <2>4 DEF PushToClient, StreamFinish, StreamError, StartTimer, cbVars
  <2>5. CASE \/ FailureGetPushRequest(r) \/ OnTimeout(r) \/ RemoveTimer(r)
             \/ TimerGetPushRequest(r)
    BY <1>1, <2>5 DEF FailureGetPushRequest, OnTimeout, RemoveTimer,
       TimerGetPushRequest, cbVars
  <2> QED
    BY <1>4, <2>1, <2>2, <2>3, <2>4, <2>5 DEF RequestStep
<1>5. ASSUME NEW r \in Requests, NEW a \in Acks, AckStep(r, a) PROVE ToldPlace'
  <2>1. CASE AckSendCallback(r, a)
    <3>1. cb[r][a] = "none"
      BY <2>1 DEF AckSendCallback, IndInv, AckPlace
    <3> QED
      BY <1>c, <2>1, <3>1 DEF AckSendCallback
  <2>2. CASE CancelPushTimer(r, a) \/ AckGetPushRequest(r, a)
    BY <1>1, <2>2 DEF CancelPushTimer, AckGetPushRequest, cbVars
  <2> QED
    BY <1>5, <2>1, <2>2 DEF AckStep
<1>6. ASSUME NEW r \in Requests, NEW k \in Kinds, CallbackStep(r, k) PROVE ToldPlace'
  <2>1. CASE CallbackStart(r, k) \/ CallbackRetry(r, k)
    BY <2>1, <1>u DEF CallbackStart, CallbackRetry, CallbackPost
  <2>2. CASE CallbackAnswer(r, k)
    BY SMTT(30), <2>2, <1>t DEF CallbackAnswer, ToldPlace, CallbackType
  <2>3. CASE CallbackDelete(r, k)
    BY <2>3, <1>t DEF CallbackDelete, ToldPlace, CallbackType
  <2> QED
    BY <1>6, <2>1, <2>2, <2>3 DEF CallbackStep
<1> QED
  BY <1>2, <1>3, <1>4, <1>5, <1>6 DEF Next

\* The first attempt looks at the url, the later ones come from a first one.
LEMMA StepPosted == IndInv /\ PostedHasUrl /\ [Next]_vars => PostedHasUrl'
<1> SUFFICES ASSUME IndInv, PostedHasUrl, [Next]_vars PROVE PostedHasUrl'
  OBVIOUS
<1> USE NamesAssumption DEF Kinds
<1>t. CallbackType
  BY DEF IndInv, TypeOK
<1>1. ASSUME UNCHANGED cb PROVE PostedHasUrl'
  BY <1>1 DEF PostedHasUrl
<1>u. ASSUME NEW r \in Requests, NEW k \in Kinds, NEW v, cb' = [cb EXCEPT ![r][k] = v],
             v \notin {"posting", "backoff"} \/ r \in WithCallback
      PROVE  PostedHasUrl'
  <2> SUFFICES ASSUME NEW q \in Requests, NEW j \in Kinds, cb'[q][j] \in {"posting", "backoff"}
               PROVE  q \in WithCallback
    BY DEF PostedHasUrl
  <2>1. cb'[q][j] = cb[q][j] \/ (q = r /\ cb'[q][j] = v)
    BY <1>u, <1>t DEF CallbackType
  <2> QED
    BY <1>u, <2>1 DEF PostedHasUrl
<1>2. CASE UNCHANGED vars
  BY <1>1, <1>2 DEF vars, cbVars
<1>3. CASE Environment
  <2>1. CASE \E s \in Sessions : \/ Listen(s) \/ SocketClose(s)
                                 \/ ProcessAddClient(s) \/ ProcessDelClient(s)
    BY <1>1, <2>1 DEF Listen, SocketClose, ProcessAddClient, ProcessDelClient, cbVars
  <2>2. ASSUME NEW w \in Workers, WorkerExit(w) PROVE PostedHasUrl'
    <3>1. ASSUME NEW r \in Requests, NEW k \in Kinds
          PROVE  cb'[r][k] = cb[r][k] \/ cb'[r][k] = "lost"
      BY <2>2 DEF WorkerExit, LoseUnless
    <3> QED
      BY <3>1 DEF PostedHasUrl
  <2>3. CASE \E r \in Requests : GetClientInfo(r)
    BY <1>1, <2>3 DEF GetClientInfo, cbVars
  <2>4. CASE \E r \in Requests, a \in Acks : AckReceive(r, a)
    BY <1>1, <2>4 DEF AckReceive, cbVars
  <2> QED
    BY <1>3, <2>1, <2>2, <2>3, <2>4 DEF Environment
<1>4. ASSUME NEW r \in Requests, RequestStep(r) PROVE PostedHasUrl'
  <2>1. CASE FailureSendCallback(r) \/ TimerSendCallback(r)
    BY <1>u, <2>1 DEF FailureSendCallback, TimerSendCallback, CreateCallback
  <2>2. CASE \/ Validate(r) \/ CreatePushRequest(r) \/ SendPushRequestToWorker(r)
             \/ DeleteFromClientMap(r) \/ DeletePushRequest(r)
    BY <1>1, <2>2 DEF Validate, CreatePushRequest, SendPushRequestToWorker,
       DeleteFromClientMap, DeletePushRequest, cbVars
  <2>3. CASE \/ PushToClient(r) \/ StreamFinish(r) \/ StreamError(r) \/ StartTimer(r)
    BY <1>1, <2>3 DEF PushToClient, StreamFinish, StreamError, StartTimer, cbVars
  <2>4. CASE \/ FailureGetPushRequest(r) \/ OnTimeout(r) \/ RemoveTimer(r)
             \/ TimerGetPushRequest(r)
    BY <1>1, <2>4 DEF FailureGetPushRequest, OnTimeout, RemoveTimer,
       TimerGetPushRequest, cbVars
  <2> QED
    BY <1>4, <2>1, <2>2, <2>3, <2>4 DEF RequestStep
<1>5. ASSUME NEW r \in Requests, NEW a \in Acks, AckStep(r, a) PROVE PostedHasUrl'
  <2>1. CASE AckSendCallback(r, a)
    <3>1. cb' = [cb EXCEPT ![r][a] = "start"]
      BY <2>1 DEF AckSendCallback, CreateCallback
    <3>2. a \in Kinds
      OBVIOUS
    <3>3. "start" \notin {"posting", "backoff"}
      OBVIOUS
    <3> QED
      BY <1>u, <3>1, <3>2, <3>3, Zenon
  <2>2. CASE CancelPushTimer(r, a) \/ AckGetPushRequest(r, a)
    BY <1>1, <2>2 DEF CancelPushTimer, AckGetPushRequest, cbVars
  <2> QED
    BY <1>5, <2>1, <2>2 DEF AckStep
<1>6. ASSUME NEW r \in Requests, NEW k \in Kinds, CallbackStep(r, k) PROVE PostedHasUrl'
  <2>1. CASE CallbackStart(r, k)
    BY <1>u, <2>1 DEF CallbackStart, CallbackPost
  <2>2. CASE CallbackAnswer(r, k) \/ CallbackRetry(r, k)
    <3>1. r \in WithCallback
      BY <2>2 DEF CallbackAnswer, CallbackRetry, PostedHasUrl
    <3>2. PICK v : cb' = [cb EXCEPT ![r][k] = v]
      BY <2>2 DEF CallbackAnswer, CallbackRetry, CallbackPost
    <3> QED
      BY <1>u, <3>1, <3>2
  <2>3. CASE CallbackDelete(r, k)
    <3>1. cb' = [cb EXCEPT ![r][k] = "done"]
      BY <2>3 DEF CallbackDelete
    <3>2. "done" \notin {"posting", "backoff"}
      OBVIOUS
    <3> QED
      BY <1>u, <3>1, <3>2, Zenon
  <2> QED
    BY <1>6, <2>1, <2>2, <2>3 DEF CallbackStep
<1> QED
  BY <1>2, <1>3, <1>4, <1>5, <1>6 DEF Next

-----------------------------------------------------------------------------
(* The refinement.                                                         *)

\* Nothing is stored, answered or reported initially, and no attempt was made.
LEMMA InitPromise == Init => Promise!Init
<1> SUFFICES ASSUME Init PROVE Promise!Init
  OBVIOUS
<1>1. \A r \in Requests : AnswerOf(r) = "pending"
  BY DEF Init, AnswerOf
<1>2. \A r \in Requests : GaveUp(r) = FALSE
  BY ConstantsAssumption DEF Init, GaveUp
<1>3. [r \in Requests |-> AnswerOf(r)] = [r \in Requests |-> "pending"]
  BY <1>1
<1>4. [r \in Requests |-> GaveUp(r)] = [r \in Requests |-> FALSE]
  BY <1>2, Zenon
<1> QED
  BY <1>3, <1>4 DEF Init, Promise!Init

\* Every step of push delivery is a step of the promise or invisible to it.
LEMMA StepPromise ==
    IndInv /\ ToldPlace /\ PostedHasUrl /\ [Next]_vars => [Promise!Next]_(Promise!vars)
<1> SUFFICES ASSUME IndInv, ToldPlace, PostedHasUrl, [Next]_vars
             PROVE  [Promise!Next]_(Promise!vars)
  OBVIOUS
<1>t. ApiType /\ RowType /\ CallbackType /\ Progress /\ Attempts
  BY DEF IndInv, TypeOK
<1>a. ASSUME api' = api PROVE \A r \in Requests : AnswerOf(r)' = AnswerOf(r)
  BY <1>a DEF AnswerOf
<1>g. ASSUME att' = att PROVE \A r \in Requests : GaveUp(r)' = GaveUp(r)
  BY <1>g DEF GaveUp
<1>1. ASSUME UNCHANGED <<row, api, told, att>> PROVE UNCHANGED Promise!vars
  BY <1>1, <1>a, <1>g DEF Promise!vars
<1>2. CASE UNCHANGED vars
  BY <1>1, <1>2 DEF vars, apiVars, cbVars
<1>d. ASSUME NEW r \in Requests, DeletePushRequestByIndex(r), UNCHANGED <<api, told, att>>,
             \/ api[r] = "refused"
             \/ api[r] = "ok" /\ (r \in WithCallback => told[r] # {} \/ GaveUp(r))
      PROVE  [Promise!Next]_(Promise!vars)
  <2>1. CASE row' = row
    BY <1>1, <1>d, <2>1
  <2>2. CASE row' = [row EXCEPT ![r] = FALSE]
    <3>1. AnswerOf(r) = api[r]
      BY <1>d DEF AnswerOf
    <3>2. Promise!Forget(r)
      BY <1>a, <1>g, <1>d, <2>2, <3>1 DEF Promise!Forget
    <3> QED
      BY <3>2 DEF Promise!Next
  <2> QED
    BY <1>d, <2>1, <2>2 DEF DeletePushRequestByIndex
<1>w. ASSUME NEW r \in Requests, NEW v, api' = [api EXCEPT ![r] = v], UNCHANGED <<row, told, att>>,
             AnswerOf(r) = "pending",
             v = "ok" => row[r]
      PROVE  [Promise!Next]_(Promise!vars)
  <2>1. \A q \in Requests : q # r => AnswerOf(q)' = AnswerOf(q)
    BY <1>w, <1>t DEF AnswerOf, ApiType
  <2>2. AnswerOf(r)' = IF v \in {"ok", "refused"} THEN v ELSE "pending"
    BY <1>w, <1>t DEF AnswerOf, ApiType
  <2>3. CASE v \notin {"ok", "refused"}
    BY <2>1, <2>2, <2>3, <1>w, <1>g DEF Promise!vars
  <2>4. CASE v \in {"ok", "refused"}
    <3>1. [q \in Requests |-> AnswerOf(q)]' = [[q \in Requests |-> AnswerOf(q)] EXCEPT ![r] = v]
      BY <2>1, <2>2, <2>4
    <3>2. Promise!Answer(r)
      BY <3>1, <1>w, <1>g, <2>4 DEF Promise!Answer
    <3> QED
      BY <3>2 DEF Promise!Next
  <2> QED
    BY <2>3, <2>4
<1>3. CASE Environment
  <2>1. CASE \E s \in Sessions : \/ Listen(s) \/ SocketClose(s)
                                 \/ ProcessAddClient(s) \/ ProcessDelClient(s)
    BY <1>1, <2>1 DEF Listen, SocketClose, ProcessAddClient, ProcessDelClient, cbVars, apiVars
  <2>2. CASE \E w \in Workers : WorkerExit(w)
    BY <1>1, <2>2 DEF WorkerExit, apiVars
  <2>3. ASSUME NEW r \in Requests, GetClientInfo(r) PROVE [Promise!Next]_(Promise!vars)
    <3>1. AnswerOf(r) = "pending"
      BY <2>3 DEF GetClientInfo, AnswerOf
    <3>2. PICK v \in {"located", "refused"} : api' = [api EXCEPT ![r] = v]
      BY <2>3 DEF GetClientInfo
    <3>3. UNCHANGED <<row, told, att>>
      BY <2>3 DEF GetClientInfo, cbVars
    <3> QED
      BY <1>w, <3>1, <3>2, <3>3, v # "ok"
  <2>4. CASE \E r \in Requests, a \in Acks : AckReceive(r, a)
    BY <1>1, <2>4 DEF AckReceive, cbVars, apiVars
  <2> QED
    BY <1>3, <2>1, <2>2, <2>3, <2>4 DEF Environment
<1>4. ASSUME NEW r \in Requests, RequestStep(r) PROVE [Promise!Next]_(Promise!vars)
  <2>1. CASE Validate(r)
    <3>1. AnswerOf(r) = "pending"
      BY <2>1 DEF Validate, AnswerOf
    <3>2. PICK v \in {"valid", "refused"} : api' = [api EXCEPT ![r] = v]
      BY <2>1 DEF Validate
    <3>3. UNCHANGED <<row, told, att>>
      BY <2>1 DEF Validate, cbVars
    <3> QED
      BY <1>w, <3>1, <3>2, <3>3, v # "ok"
  <2>2. CASE CreatePushRequest(r)
    <3>1. AnswerOf(r) = "pending" /\ ~row[r]
      BY <2>2, <1>t DEF CreatePushRequest, AnswerOf, Progress
    <3>2. CASE api' = [api EXCEPT ![r] = "refused"] /\ row' = row
      <4>1. UNCHANGED <<told, att>>
        BY <2>2 DEF CreatePushRequest, cbVars
      <4> QED
        BY <1>w, <3>1, <3>2, <4>1
    <3>3. CASE api' = [api EXCEPT ![r] = "saved"] /\ AddPushRequest(r)
      <4>1. \A q \in Requests : AnswerOf(q)' = AnswerOf(q)
        BY <3>1, <3>3, <1>t DEF AnswerOf, ApiType
      <4>2. UNCHANGED <<told, att>>
        BY <2>2 DEF CreatePushRequest, cbVars
      <4>3. Promise!Store(r)
        BY <3>1, <3>3, <4>1, <4>2, <1>g DEF AddPushRequest, Promise!Store
      <4> QED
        BY <4>3 DEF Promise!Next
    <3> QED
      BY <2>2, <3>2, <3>3 DEF CreatePushRequest
  <2>3. CASE SendPushRequestToWorker(r)
    <3>1. AnswerOf(r) = "pending" /\ row[r]
      BY <2>3, <1>t DEF SendPushRequestToWorker, AnswerOf, Progress
    <3> QED
      BY <1>w, <2>3, <3>1 DEF SendPushRequestToWorker, cbVars
  <2>4. CASE DeletePushRequest(r)
    <3>1. api[r] = "refused"
      BY <2>4, <1>t DEF DeletePushRequest, Progress
    <3> QED
      BY <1>d, <2>4, <3>1 DEF DeletePushRequest, cbVars
  <2>5. CASE DeleteFromClientMap(r)
    BY <1>1, <2>5 DEF DeleteFromClientMap, cbVars
  <2>6. CASE \/ PushToClient(r) \/ StreamFinish(r) \/ StreamError(r) \/ StartTimer(r)
    BY <1>1, <2>6 DEF PushToClient, StreamFinish, StreamError, StartTimer, cbVars, apiVars
  <2>7. CASE \/ FailureGetPushRequest(r) \/ OnTimeout(r) \/ RemoveTimer(r)
             \/ TimerGetPushRequest(r)
    BY <1>1, <2>7 DEF FailureGetPushRequest, OnTimeout, RemoveTimer,
       TimerGetPushRequest, cbVars, apiVars
  <2>8. CASE FailureSendCallback(r) \/ TimerSendCallback(r)
    BY <1>1, <2>8 DEF FailureSendCallback, TimerSendCallback, apiVars
  <2> QED
    BY <1>4, <2>1, <2>2, <2>3, <2>4, <2>5, <2>6, <2>7, <2>8 DEF RequestStep
<1>5. ASSUME NEW r \in Requests, NEW a \in Acks, AckStep(r, a)
      PROVE  [Promise!Next]_(Promise!vars)
  BY <1>1, <1>5 DEF AckStep, CancelPushTimer, AckGetPushRequest, AckSendCallback, cbVars, apiVars
<1>6. ASSUME NEW r \in Requests, NEW k \in Kinds, CallbackStep(r, k)
      PROVE  [Promise!Next]_(Promise!vars)
  <2>0. cb[r][k] # "none"
    BY <1>6 DEF CallbackStep, CallbackStart, CallbackAnswer, CallbackRetry, CallbackDelete
  <2>a. api[r] = "ok" /\ AnswerOf(r) = "ok"
    BY <2>0, CallbackMeansSent DEF AnswerOf
  <2>p. ASSUME CallbackPost(r, k), cb[r][k] \in {"start", "backoff"},
               r \in WithCallback, UNCHANGED <<row, api, told>>
        PROVE  [Promise!Next]_(Promise!vars)
    <3>1. \A q \in Requests : q # r => GaveUp(q)' = GaveUp(q)
      BY <2>p, <1>t DEF CallbackPost, GaveUp, CallbackType
    <3>2. CASE GaveUp(r)' = GaveUp(r)
      BY <2>p, <3>1, <3>2, <1>a DEF Promise!vars
    <3>3. CASE GaveUp(r)'
      <4>1. [q \in Requests |-> GaveUp(q)]' = [[q \in Requests |-> GaveUp(q)] EXCEPT ![r] = TRUE]
        BY <3>1, <3>3
      <4>2. Promise!LastAttempt(r)
        BY <4>1, <2>p, <2>a, <1>a DEF Promise!LastAttempt
      <4> QED
        BY <4>2 DEF Promise!Next
    <3>4. ASSUME GaveUp(r) PROVE GaveUp(r)'
      <4>1. PICK j \in Kinds : att[r][j] = Retries + 1
        BY <3>4 DEF GaveUp
      <4>2. att[r][k] <= Retries
        BY <2>p, <1>t, ConstantsAssumption DEF Attempts
      <4>3. j # k
        BY <4>1, <4>2, ConstantsAssumption
      <4>4. att'[r][j] = Retries + 1
        BY <4>1, <4>3, <2>p, <1>t DEF CallbackPost, CallbackType
      <4> QED
        BY <4>4 DEF GaveUp
    <3>5. (GaveUp(r) \in BOOLEAN) /\ (GaveUp(r)' \in BOOLEAN)
      BY DEF GaveUp
    <3> QED
      BY <3>2, <3>3, <3>4, <3>5
  <2>1. CASE CallbackStart(r, k)
    <3>1. CASE r \in WithCallback
      BY <2>1, <2>p, <3>1 DEF CallbackStart, apiVars
    <3>2. CASE r \notin WithCallback
      BY <2>1, <1>1, <3>2 DEF CallbackStart, apiVars
    <3> QED
      BY <3>1, <3>2
  <2>2. CASE CallbackRetry(r, k)
    <3>1. r \in WithCallback
      BY <2>2 DEF CallbackRetry, PostedHasUrl
    <3> QED
      BY <2>2, <2>p, <3>1 DEF CallbackRetry, apiVars
  <2>3. CASE CallbackAnswer(r, k)
    <3>1. UNCHANGED <<row, api, att>>
      BY <2>3 DEF CallbackAnswer, apiVars
    <3>2. CASE told' = told
      BY <1>1, <3>1, <3>2
    <3>3. CASE told' = [told EXCEPT ![r] = @ \cup {k}]
      <4>1. ASSUME k \in Acks PROVE told[r] \cap Acks \subseteq {k}
        <5> SUFFICES ASSUME NEW j \in Acks, j \in told[r] PROVE j = k
          OBVIOUS
        <5>1. cb[r][j] # "none"
          BY DEF ToldPlace, Kinds
        <5>2. ack[r][j] = "ok" /\ ack[r][k] = "ok"
          BY <4>1, <5>1, <2>0 DEF IndInv, AckPlace
        <5> QED
          BY <4>1, <5>2 DEF IndInv, SingleAck
      <4>2. r \in WithCallback
        BY <2>3 DEF CallbackAnswer, PostedHasUrl
      <4>3. Promise!Report(r, k)
        BY <3>1, <3>3, <4>1, <4>2, <2>a, <1>a, <1>g DEF Promise!Report
      <4> QED
        BY <4>3 DEF Promise!Next
    <3> QED
      BY <2>3, <3>2, <3>3 DEF CallbackAnswer
  <2>4. CASE CallbackDelete(r, k)
    <3>1. r \in WithCallback => told[r] # {} \/ GaveUp(r)
      BY <2>4, <1>t DEF CallbackDelete, Attempts, GaveUp
    <3> QED
      BY <1>d, <2>4, <2>a, <3>1 DEF CallbackDelete, apiVars
  <2> QED
    BY <1>6, <2>1, <2>2, <2>3, <2>4 DEF CallbackStep
<1> QED
  BY <1>2, <1>3, <1>4, <1>5, <1>6 DEF Next

\* Push delivery implements the promise of the push API: what an application
\* sees of push.coffee, send.coffee, timer.coffee, ack.coffee and callback.coffee
\* is a behaviour of PushPromise.
THEOREM Refinement == Spec => KeepsPromise
<1>1. Init => Promise!Init /\ ToldPlace /\ PostedHasUrl
  BY InitPromise, InitTold, InitPosted
<1>2. IndInv /\ ToldPlace /\ PostedHasUrl /\ [Next]_vars => ToldPlace' /\ PostedHasUrl'
  BY StepTold, StepPosted
<1> QED
  BY <1>1, <1>2, StepPromise, Invariance, PTL DEF Spec, KeepsPromise, Promise!Spec

=============================================================================
