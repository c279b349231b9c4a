------------------------- MODULE PushDispatchProofs -------------------------
(***************************************************************************)
(* For any number of servers, clients, requests and moves of clients, and  *)
(* whatever server ids contain one another: a push request is forwarded    *)
(* once at most, pushed once at most, and answered truthfully.             *)
(***************************************************************************)
EXTENDS PushDispatch, FiniteSetTheorems, TLAPS

-----------------------------------------------------------------------------
(* The inductive invariant.                                                *)

\* The peer is visited while, or after, the first server waits for it, and
\* waits for nobody itself.
VisitOrder ==
    \A r \in Requests :
        /\ pc[r][0] \in {"none", "lookup", "dispatch", "local"} => pc[r][1] = "none"
        /\ pc[r][0] = "waiting" => pc[r][1] # "none"
        /\ pc[r][1] # "waiting"

\* A visit has answered exactly if it is over.
AnsweredAtEnd ==
    \A r \in Requests, v \in Visits : answer[r][v] # "none" <=> pc[r][v] = "done"

\* A visit sends SERVER_PUSH exactly if it says so, and the first one does not
\* once it has forwarded the request.
SentMeansAccepted ==
    \A r \in Requests :
        /\ 0 \in sent[r] <=> answer[r][0] = "200" /\ pc[r][1] = "none"
        /\ 1 \in sent[r] <=> answer[r][1] = "200"
        /\ 2 \notin sent[r]

\* What the first server says of a forwarded request it has from the peer,
\* except that it is in doubt.
PeerWasQuoted ==
    \A r \in Requests :
        pc[r][1] # "none" /\ answer[r][0] \in {"200", "refused", "404", "500"} =>
            answer[r][1] = answer[r][0]

IndInv ==
    /\ TypeOK /\ AtMostOneHop /\ VisitOrder /\ AnsweredAtEnd
    /\ SentMeansAccepted /\ PeerWasQuoted

-----------------------------------------------------------------------------
\* What AnswerIsTrue says follows from the parts of the invariant: the two
\* visits do not both send, and the first one's answer is its own or the peer's.
LEMMA AnswerFollows == IndInv => AnswerIsTrue
<1> SUFFICES ASSUME IndInv, NEW r \in Requests
             PROVE  /\ Cardinality(sent[r]) <= 1
                    /\ answer[r][0] = "200" => sent[r] # {}
                    /\ answer[r][0] \in {"refused", "404", "500"} => sent[r] = {}
  BY DEF AnswerIsTrue
<1>1. sent[r] \subseteq {0, 1} /\ 0 \in Visits /\ 1 \in Visits
  BY DEF IndInv, TypeOK, SentMeansAccepted, Visits
<1>2. ~(0 \in sent[r] /\ 1 \in sent[r])
  BY <1>1 DEF IndInv, SentMeansAccepted, AnsweredAtEnd
<1>3. sent[r] = {} \/ sent[r] = {0} \/ sent[r] = {1}
  BY <1>1, <1>2
<1>4. Cardinality(sent[r]) <= 1
  <2>1. Cardinality({}) = 0 /\ Cardinality({0}) = 1 /\ Cardinality({1}) = 1
    BY FS_EmptySet, FS_Singleton
  <2> QED
    BY <1>3, <2>1
<1>5. answer[r][0] = "200" => 0 \in sent[r] \/ 1 \in sent[r]
  BY DEF IndInv, SentMeansAccepted, PeerWasQuoted
<1>6. answer[r][0] \in {"refused", "404", "500"} => sent[r] = {}
  BY <1>1, <1>3 DEF IndInv, SentMeansAccepted, PeerWasQuoted, AnsweredAtEnd
<1> QED
  BY <1>4, <1>5, <1>6

\* Initially no request has arrived.
LEMMA InitInv == Init => IndInv
  BY DispatchAssumption DEF Init, IndInv, TypeOK, AtMostOneHop, VisitOrder, AnsweredAtEnd,
         SentMeansAccepted, PeerWasQuoted, Visits, Statuses

\* The invariant without the types, of one request.
RequestInv(r) ==
    /\ pc[r][2] = "none"
    /\ pc[r][0] \in {"none", "lookup", "dispatch", "local"} => pc[r][1] = "none"
    /\ pc[r][0] = "waiting" => pc[r][1] # "none"
    /\ pc[r][1] # "waiting"
    /\ answer[r][0] # "none" <=> pc[r][0] = "done"
    /\ answer[r][1] # "none" <=> pc[r][1] = "done"
    /\ answer[r][2] # "none" <=> pc[r][2] = "done"
    /\ 0 \in sent[r] <=> answer[r][0] = "200" /\ pc[r][1] = "none"
    /\ 1 \in sent[r] <=> answer[r][1] = "200"
    /\ 2 \notin sent[r]
    /\ pc[r][1] # "none" /\ answer[r][0] \in {"200", "refused", "404", "500"} =>
           answer[r][1] = answer[r][0]

\* The parts of the invariant speak of one request at a time.
LEMMA PerRequest == IndInv <=> TypeOK /\ \A r \in Requests : RequestInv(r)
  BY DEF IndInv, RequestInv, AtMostOneHop, VisitOrder, AnsweredAtEnd, SentMeansAccepted,
         PeerWasQuoted, Visits

\* A step that leaves the other requests alone need only be looked at where it acts.
LEMMA OneRequest ==
  ASSUME IndInv, NEW r \in Requests, TypeOK', RequestInv(r)',
         \A q \in Requests \ {r} : pc'[q] = pc[q] /\ answer'[q] = answer[q] /\ sent'[q] = sent[q]
  PROVE  IndInv'
<1>1. ASSUME NEW q \in Requests \ {r} PROVE RequestInv(q)'
  BY <1>1, PerRequest DEF RequestInv
<1>2. \A q \in Requests : RequestInv(q)'
  BY <1>1
<1> QED
  BY <1>2 DEF IndInv, RequestInv, AtMostOneHop, VisitOrder, AnsweredAtEnd, SentMeansAccepted,
         PeerWasQuoted, Visits

\* The reply of a visit that has not forwarded the request: it sends exactly if
\* it says 200 (Push.getClientInfo, dispatch, localPush).
LEMMA OwnReply ==
  ASSUME IndInv, NEW r \in Requests, NEW v \in Visits \ {2}, NEW status \in Statuses,
         pc[r][v] \in {"lookup", "dispatch", "local"}, Reply(r, v, status),
         sent' = [sent EXCEPT ![r] = IF status = "200" THEN @ \cup {v} ELSE @],
         UNCHANGED <<home, moves, at, found>>
  PROVE  IndInv'
<1> USE DEF Visits
<1>1. TypeOK'
  BY DEF IndInv, TypeOK, Reply, Statuses
<1>2. /\ pc'[r] = [pc[r] EXCEPT ![v] = "done"]
      /\ answer'[r] = [answer[r] EXCEPT ![v] = status]
      /\ sent'[r] = IF status = "200" THEN sent[r] \cup {v} ELSE sent[r]
  BY DEF IndInv, TypeOK, Reply
<1>3. /\ pc[r] \in [Visits -> {"none", "lookup", "dispatch", "local", "waiting", "done"}]
      /\ answer[r] \in [Visits -> Statuses \cup {"none"}]
  BY DEF IndInv, TypeOK
<1>4. RequestInv(r)
  BY PerRequest
<1>5. RequestInv(r)'
  <2>1. CASE v = 0
    <3>1. /\ pc'[r][0] = "done" /\ pc'[r][1] = pc[r][1] /\ pc'[r][2] = pc[r][2]
          /\ answer'[r][0] = status /\ answer'[r][1] = answer[r][1] /\ answer'[r][2] = answer[r][2]
      BY <1>2, <1>3, <2>1
    <3> QED
      BY <1>2, <1>4, <2>1, <3>1 DEF RequestInv, Statuses
  <2>2. CASE v = 1
    <3>1. /\ pc'[r][1] = "done" /\ pc'[r][0] = pc[r][0] /\ pc'[r][2] = pc[r][2]
          /\ answer'[r][1] = status /\ answer'[r][0] = answer[r][0] /\ answer'[r][2] = answer[r][2]
      BY <1>2, <1>3, <2>2
    <3> QED
      BY <1>2, <1>4, <2>2, <3>1 DEF RequestInv, Statuses
  <2> QED
    BY <2>1, <2>2
<1>6. \A q \in Requests \ {r} : pc'[q] = pc[q] /\ answer'[q] = answer[q] /\ sent'[q] = sent[q]
  BY DEF IndInv, TypeOK, Reply
<1> QED
  BY <1>1, <1>5, <1>6, OneRequest

\* The reply to a forwarded request: the peer's, or that it is in doubt.
LEMMA PeerReply ==
  ASSUME IndInv, NEW r \in Requests, NEW status \in Statuses,
         pc[r][0] = "waiting", Reply(r, 0, status),
         status \in {"502", "504"} \/ status = answer[r][1],
         UNCHANGED <<home, moves, at, found, sent>>
  PROVE  IndInv'
<1> USE DEF Visits
<1>1. TypeOK'
  BY DEF IndInv, TypeOK, Reply, Statuses
<1>2. /\ pc'[r] = [pc[r] EXCEPT ![0] = "done"]
      /\ answer'[r] = [answer[r] EXCEPT ![0] = status]
      /\ sent'[r] = sent[r]
  BY DEF IndInv, TypeOK, Reply
<1>3. /\ pc[r] \in [Visits -> {"none", "lookup", "dispatch", "local", "waiting", "done"}]
      /\ answer[r] \in [Visits -> Statuses \cup {"none"}]
  BY DEF IndInv, TypeOK
<1>4. RequestInv(r)
  BY PerRequest
<1>5. /\ pc'[r][0] = "done" /\ pc'[r][1] = pc[r][1] /\ pc'[r][2] = pc[r][2]
      /\ answer'[r][0] = status /\ answer'[r][1] = answer[r][1] /\ answer'[r][2] = answer[r][2]
  BY <1>2, <1>3
<1>6. RequestInv(r)'
  BY <1>2, <1>4, <1>5 DEF RequestInv, Statuses
<1>7. \A q \in Requests \ {r} : pc'[q] = pc[q] /\ answer'[q] = answer[q] /\ sent'[q] = sent[q]
  BY DEF IndInv, TypeOK, Reply
<1> QED
  BY <1>1, <1>6, <1>7, OneRequest

\* A visit goes on without a reply (Arrive, Push.getClientInfo, Push.dispatch).
LEMMA Progress ==
  ASSUME IndInv, NEW r \in Requests, NEW v \in Visits \ {2}, NEW l \in {"lookup", "dispatch", "local"},
         pc[r][v] \in {"none", "lookup", "dispatch"}, v = 1 => pc[r][v] # "none",
         pc' = [pc EXCEPT ![r][v] = l], UNCHANGED <<answer, sent>>, TypeOK'
  PROVE  IndInv'
<1> USE DEF Visits
<1>1. pc'[r] = [pc[r] EXCEPT ![v] = l] /\ answer'[r] = answer[r] /\ sent'[r] = sent[r]
  BY DEF IndInv, TypeOK
<1>2. pc[r] \in [Visits -> {"none", "lookup", "dispatch", "local", "waiting", "done"}]
  BY DEF IndInv, TypeOK
<1>3. RequestInv(r)
  BY PerRequest
<1>4. RequestInv(r)'
  <2>1. CASE v = 0
    <3>1. pc'[r][0] = l /\ pc'[r][1] = pc[r][1] /\ pc'[r][2] = pc[r][2]
      BY <1>1, <1>2, <2>1
    <3> QED
      BY <1>1, <1>3, <2>1, <3>1 DEF RequestInv
  <2>2. CASE v = 1
    <3>1. pc'[r][1] = l /\ pc'[r][0] = pc[r][0] /\ pc'[r][2] = pc[r][2]
      BY <1>1, <1>2, <2>2
    <3> QED
      BY <1>1, <1>3, <2>2, <3>1 DEF RequestInv
  <2> QED
    BY <2>1, <2>2
<1>5. \A q \in Requests \ {r} : pc'[q] = pc[q] /\ answer'[q] = answer[q] /\ sent'[q] = sent[q]
  BY DEF IndInv, TypeOK
<1> QED
  BY <1>4, <1>5, OneRequest

\* Every step of every server, and every move of a client, preserves the
\* invariant.
LEMMA StepInv == IndInv /\ [Next]_vars => IndInv'
<1> SUFFICES ASSUME IndInv, [Next]_vars PROVE IndInv'
  OBVIOUS
<1> USE DispatchAssumption DEF Visits
<1>0. TypeOK
  BY DEF IndInv
<1>1. ASSUME NEW c \in Clients, NEW s \in Servers \cup {NoServer}, Move(c, s) PROVE IndInv'
  <2>1. TypeOK'
    BY <1>0, <1>1 DEF Move, TypeOK
  <2> QED
    BY <1>1, <2>1 DEF IndInv, Move, AtMostOneHop, VisitOrder, AnsweredAtEnd, SentMeansAccepted, PeerWasQuoted
<1>2. ASSUME NEW r \in Requests, Arrive(r) PROVE IndInv'
  <2>1. TypeOK'
    BY <1>0, <1>2 DEF Arrive, TypeOK
  <2> QED
    <3>1. 0 \in Visits \ {2} /\ "lookup" \in {"lookup", "dispatch", "local"}
      OBVIOUS
    <3>2. pc[r][0] = "none" /\ pc' = [pc EXCEPT ![r][0] = "lookup"] /\ UNCHANGED <<answer, sent>>
      BY <1>2 DEF Arrive
    <3> QED
      BY <2>1, <3>1, <3>2, Progress
<1>3. ASSUME NEW r \in Requests, NEW v \in Visits \ {2}, GetClientInfo(r, v) PROVE IndInv'
  <2> DEFINE s == home[PushTo[r]]
  <2>1. CASE /\ s # NoServer
             /\ pc' = [pc EXCEPT ![r][v] = "dispatch"]
             /\ found' = [found EXCEPT ![r][v] = s]
             /\ answer' = answer
    <3>1. TypeOK'
      BY <1>0, <1>3, <2>1 DEF GetClientInfo, TypeOK
    <3> QED
      BY <1>3, <2>1, <3>1, Progress DEF GetClientInfo
  <2>2. CASE s = NoServer /\ Reply(r, v, "404") /\ found' = found
    <3>1. sent' = [sent EXCEPT ![r] = IF "404" = "200" THEN @ \cup {v} ELSE @]
      BY <1>0, <1>3 DEF GetClientInfo, TypeOK
    <3> QED
      BY <1>3, <2>2, <3>1, OwnReply DEF GetClientInfo, Statuses
  <2>3. CASE Reply(r, v, "500") /\ found' = found
    <3>1. sent' = [sent EXCEPT ![r] = IF "500" = "200" THEN @ \cup {v} ELSE @]
      BY <1>0, <1>3 DEF GetClientInfo, TypeOK
    <3> QED
      BY <1>3, <2>3, <3>1, OwnReply DEF GetClientInfo, Statuses
  <2> QED
    BY <1>3, <2>1, <2>2, <2>3 DEF GetClientInfo
<1>4. ASSUME NEW r \in Requests, NEW v \in Visits \ {2}, DispatchLocally(r, v) PROVE IndInv'
  <2>1. TypeOK'
    BY <1>0, <1>4 DEF DispatchLocally, TypeOK
  <2> QED
    BY <1>4, <2>1, Progress DEF DispatchLocally
<1>5. ASSUME NEW r \in Requests, NEW v \in Visits \ {2}, ForwardPush(r, v) PROVE IndInv'
  <2>1. CASE Reply(r, v, "502") /\ at' = at
    <3>1. sent' = [sent EXCEPT ![r] = IF "502" = "200" THEN @ \cup {v} ELSE @]
      BY <1>0, <1>5 DEF ForwardPush, TypeOK
    <3> QED
      BY <1>5, <2>1, <3>1, OwnReply DEF ForwardPush, Statuses
  <2>2. CASE /\ ~IsForwarded(r, v)
             /\ v + 1 \in Visits
             /\ pc' = [pc EXCEPT ![r][v] = "waiting", ![r][v + 1] = "lookup"]
             /\ at' = [at EXCEPT ![r][v + 1] = found[r][v]]
             /\ answer' = answer
    <3>1. v = 0 /\ v + 1 = 1
      BY <2>2 DEF IsForwarded
    <3>2. /\ pc' = [pc EXCEPT ![r][0] = "waiting", ![r][1] = "lookup"]
          /\ at' = [at EXCEPT ![r][1] = found[r][0]]
          /\ UNCHANGED <<home, moves, found, answer, sent>>
          /\ pc[r][0] = "dispatch"
      BY <1>5, <2>2, <3>1 DEF ForwardPush
    <3>3. TypeOK'
      BY SMTT(30), <1>0, <3>2 DEF TypeOK
    <3>4. /\ pc'[r][0] = "waiting" /\ pc'[r][1] = "lookup" /\ pc'[r][2] = pc[r][2]
          /\ answer'[r] = answer[r] /\ sent'[r] = sent[r]
      BY <1>0, <3>2 DEF TypeOK
    <3>5. RequestInv(r)
      BY PerRequest
    <3>6. RequestInv(r)'
      BY <3>2, <3>4, <3>5 DEF RequestInv
    <3>7. \A q \in Requests \ {r} : pc'[q] = pc[q] /\ answer'[q] = answer[q] /\ sent'[q] = sent[q]
      BY <1>0, <3>2 DEF TypeOK
    <3> QED
      BY <3>3, <3>6, <3>7, OneRequest
  <2> QED
    BY <1>5, <2>1, <2>2 DEF ForwardPush
<1>6. ASSUME NEW r \in Requests, NEW v \in Visits \ {2}, LocalPush(r, v) PROVE IndInv'
  <2>1. CASE Reply(r, v, "200") /\ sent' = [sent EXCEPT ![r] = @ \cup {v}]
    <3>1. sent' = [sent EXCEPT ![r] = IF "200" = "200" THEN @ \cup {v} ELSE @]
      BY <2>1
    <3> QED
      BY <1>6, <2>1, <3>1, OwnReply DEF LocalPush, Statuses
  <2>2. CASE Reply(r, v, "refused") /\ sent' = sent
    <3>1. sent' = [sent EXCEPT ![r] = IF "refused" = "200" THEN @ \cup {v} ELSE @]
      BY <1>0, <2>2 DEF TypeOK
    <3> QED
      BY <1>6, <2>2, <3>1, OwnReply DEF LocalPush, Statuses
  <2> QED
    BY <1>6, <2>1, <2>2 DEF LocalPush
<1>7. ASSUME NEW r \in Requests, NEW v \in Visits \ {2}, UpstreamAnswer(r, v) PROVE IndInv'
  <2>1. v = 0
    BY <1>7, PerRequest DEF UpstreamAnswer, RequestInv
  <2>2. answer[r][1] \in Statuses
    BY <1>0, <1>7, <2>1 DEF UpstreamAnswer, TypeOK
  <2> QED
    BY <1>7, <2>1, <2>2, PeerReply DEF UpstreamAnswer, Upstream
<1>8. ASSUME NEW r \in Requests, NEW v \in Visits \ {2}, UpstreamFails(r, v) PROVE IndInv'
  <2>1. v = 0
    BY <1>8, PerRequest DEF UpstreamFails, RequestInv
  <2> QED
    BY <1>8, <2>1, PeerReply DEF UpstreamFails, Statuses
<1>9. CASE UNCHANGED vars
  BY <1>9 DEF IndInv, vars, TypeOK, AtMostOneHop, VisitOrder, AnsweredAtEnd, SentMeansAccepted, PeerWasQuoted
<1> QED
  BY <1>1, <1>2, <1>3, <1>4, <1>5, <1>6, <1>7, <1>8, <1>9 DEF Next, HandleStep

-----------------------------------------------------------------------------
\* The inductive invariant of dispatching (Push.handle on all servers).
THEOREM Invariance == Spec => []IndInv
  BY InitInv, StepInv, PTL DEF Spec

\* A forwarded request is not forwarded again, whatever the lookups of the
\* servers say (the via header of Dispatcher.isForwarded).
THEOREM ForwardedOnce == Spec => []AtMostOneHop
<1>1. IndInv => AtMostOneHop
  BY DEF IndInv
<1> QED
  BY <1>1, Invariance, PTL

\* One request of an application is at most one push, and the status the
\* application gets is true of it (handleLocalPushResult, handleDispatchResult).
THEOREM TruthfulAnswer == Spec => []AnswerIsTrue
  BY Invariance, AnswerFollows, PTL

=============================================================================
