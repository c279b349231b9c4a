-------------------------- MODULE SpdyClientProofs --------------------------
(***************************************************************************)
(* For any number of clients and any bounds, whatever the server answers,   *)
(* pushes or closes, wherever its answers are cut and however the threads   *)
(* interleave: a client with a whole push id listens with it exactly once   *)
(* per session, a client with any push id never registers again, and a push *)
(* is looked up under the listen request of its own session.                *)
(***************************************************************************)
EXTENDS SpdyClient, FiniteSetTheorems, SequenceTheorems, TLAPS

-----------------------------------------------------------------------------
(* Types.                                                                  *)

Ids == Nat \X Nat
Kinds == {"register", "get", "refresh", "listen", "ack", "ping"}
AnyPushId == (Ids \X Nat) \cup {None, Cut}

AnyRequest == [kind : Kinds, clientId : Ids \cup {None}, pushId : AnyPushId, push : Nat]
AnyFrame == [type : {"data", "pdata", "push", "close", "eof"}, id : Nat, push : Nat,
             body : {"ids", "cut", "error", "rest", "msg", "diehard", "empty", "none"}]
AnyThread == [pc : {"none", "connect", "loop", "backoff", "exited"}, clientId : Ids \cup {None},
              pushId : AnyPushId, retries : Nat, pushed : Nat, issued : Nat]
AnySession == [queue : Seq(AnyRequest), streams : Seq(Kinds), open : SUBSET Nat,
               pushes : SUBSET Nat, assoc : Nat, goaway : BOOLEAN, dead : BOOLEAN]
AnyServer == [answered : SUBSET Nat, ended : SUBSET Nat, announced : SUBSET Nat,
              closing : SUBSET Nat]

Typed ==
    /\ program \in {"spdycli", "scalecli"} /\ mode \in Modes
    /\ process \in {"main", "joining", "exited", "crashed"}
    /\ global \in [gUri : Threads \cup {None}, assoc : Nat]
    /\ th \in [Threads -> AnyThread]
    /\ session \in [Threads -> AnySession]
    /\ inbox \in [Threads -> Seq(AnyFrame)]
    /\ srv \in [Threads -> AnyServer]

-----------------------------------------------------------------------------
(* The inductive invariant.                                                *)

\* Where the ids of a client come from: from main, or from an answer, which has the
\* client id whenever it has a part of the push id.
IdsInv(p) ==
    /\ p.pc = "none" => p.clientId = None /\ p.pushId = None
    /\ p.pushId # None => p.clientId # None
    /\ program = "scalecli" /\ mode = "register" => p.pushId = None
    /\ program = "scalecli" /\ mode = "listen" /\ p.pc # "none" => p.pushId # None
    /\ program = "spdycli" /\ mode = "refresh" /\ p.pc # "none" => p.clientId = RefreshTestClient

\* The server issues one pair of ids per session at most.
IssueInv(t, p, s) ==
    /\ p.pc \in {"none", "connect", "loop"} => p.retries <= MaxRetries[t]
    /\ p.retries <= MaxRetries[t] + 1 /\ p.issued <= MaxRetries[t] + 1
    /\ p.issued <= p.retries + 1 /\ (s.streams = <<>> => p.issued <= p.retries)
    /\ p.clientId \in ClientIds(t) \cup {None}
    /\ p.pushId \in PushIds(t) \cup {None, Cut}

NoListen(s) ==
    /\ \A k \in DOMAIN s.queue : s.queue[k].kind # "listen"
    /\ \A k \in DOMAIN s.streams : s.streams[k] # "listen"

\* The one listen request of a session is still queued, or it was sent.
OneListen(s) ==
    \/ /\ \A k \in DOMAIN s.streams : s.streams[k] # "listen"
       /\ \E k \in DOMAIN s.queue : \A j \in DOMAIN s.queue : s.queue[j].kind = "listen" <=> j = k
    \/ /\ \A k \in DOMAIN s.queue : s.queue[k].kind # "listen"
       /\ \E k \in DOMAIN s.streams : \A j \in DOMAIN s.streams : s.streams[j] = "listen" <=> j = k

\* A request of one of these kinds is the first one of its session.
ComesFirst(s, kinds) ==
    /\ \A k \in DOMAIN s.queue : s.queue[k].kind \in kinds => k = 1 /\ s.streams = <<>>
    /\ \A k \in DOMAIN s.streams : s.streams[k] \in kinds => k = 1

\* A session between two connections is a new one; what asks for ids is the first
\* request of its session, and gone when the answer comes.  scalecli listens with its
\* first request or not at all.
QueueInv(p, s) ==
    /\ p.pc \in {"none", "connect", "backoff"} => s = NewSession
    /\ s.open \subseteq {2 * k - 1 : k \in DOMAIN s.streams}
    /\ ComesFirst(s, {"register", "refresh"})
    /\ \A k \in DOMAIN s.queue : s.queue[k].kind \in {"register", "refresh"} => p.pushId = None
    /\ p.clientId = None => NoListen(s)
    /\ Whole(p.pushId) /\ p.pc = "loop" => OneListen(s)
    /\ program = "scalecli" => ComesFirst(s, {"listen"})

ListenStream(s, id) == \E k \in DOMAIN s.streams : s.streams[k] = "listen" /\ id = 2 * k - 1

\* Pushes come on a listen stream, and spdycli keeps that stream.
PushInv(t, p, s, f) ==
    /\ p.pushed <= MaxPushes[mode][t]
    /\ s.pushes \subseteq 1 .. MaxPushes[mode][t] /\ Len(f) <= MaxFrames
    /\ \A k \in DOMAIN f :
          f[k].type = "push" => f[k].push \in 1 .. MaxPushes[mode][t] /\ ListenStream(s, f[k].id)
    /\ program = "spdycli" /\ s.pushes # {} => ListenStream(s, s.assoc)

\* The first stream's answer starts once: whole ids come before anything else that is
\* parsed, and as long as they may come a client without a push id does not listen.
AnswerInv(p, s, f, v) ==
    /\ \A k \in DOMAIN f : f[k].body \in {"ids", "cut", "rest"} => 1 \in v.answered
    /\ \A j, k \in DOMAIN f : f[k].body = "ids" /\ f[j].body \in {"ids", "cut", "rest"} => k <= j
    /\ p.pushId = None /\ (1 \notin v.answered \/ \E k \in DOMAIN f : f[k].body = "ids") =>
          NoListen(s)

ClientInv(t, p, s, f, v) ==
    /\ IdsInv(p) /\ IssueInv(t, p, s) /\ QueueInv(p, s) /\ PushInv(t, p, s, f)
    /\ AnswerInv(p, s, f, v)

\* Every listen of scalecli is stream 1, so it does not matter which thread wrote the
\* associated stream last.
SharedInv ==
    /\ program = "scalecli" => mode \in scalecli_modes
    /\ \A t \in Threads : th[t].pc # "none" => global.gUri \in Threads
    /\ \A t \in Threads : program = "scalecli" /\ session[t].pushes # {} => global.assoc = 1

IndInv ==
    /\ Typed /\ SharedInv
    /\ \A t \in Threads : ClientInv(t, th[t], session[t], inbox[t], srv[t])


-----------------------------------------------------------------------------
(* A step is a step of one client.                                         *)

\* The names of threads are numbers; None and Cut are neither names nor ids.
LEMMA Names ==
  /\ Threads \subseteq Nat /\ \A t \in Threads : t >= 1
  /\ None \notin Ids /\ None \notin Ids \X Nat /\ None \notin Threads
  /\ Cut \notin Ids \X Nat /\ Cut # None
  /\ \A t \in Threads : /\ MaxRetries[t] \in Nat /\ ClientIds(t) \subseteq Ids
                        /\ PushIds(t) \subseteq Ids \X Nat
<1>1. Threads \subseteq Nat /\ \A t \in Threads : t >= 1
  BY SpdyClientAssumption, FS_CardinalityType
<1>2. \A t \in Threads : MaxRetries[t] \in Nat
  BY SpdyClientAssumption
<1>3. \A t \in Threads : ClientIds(t) \subseteq Ids
  <2>1. ASSUME NEW t \in Threads
        PROVE  RefreshTestClient \in Ids /\ {<<t, n>> : n \in 0 .. MaxRetries[t] + 1} \subseteq Ids
    BY <1>1, <1>2 DEF Ids, RefreshTestClient
  <2> QED
    BY <2>1 DEF ClientIds
<1>4. \A t \in Threads : PushIds(t) \subseteq Ids \X Nat
  BY <1>2, <1>3 DEF PushIds
<1> QED
  BY <1>1, <1>2, <1>3, <1>4, SpdyClientAssumption DEF Ids

\* The invariant is kept when client t keeps it and the others are left alone.
LEMMA OneClient ==
  ASSUME IndInv, NEW t \in Threads, UNCHANGED config,
         process' \in {"main", "joining", "exited", "crashed"},
         global' \in [gUri : Threads, assoc : Nat],
         th' \in [Threads -> AnyThread], session' \in [Threads -> AnySession],
         inbox' \in [Threads -> Seq(AnyFrame)], srv' \in [Threads -> AnyServer],
         \A u \in Threads \ {t} : /\ th'[u] = th[u] /\ session'[u] = session[u]
                                  /\ inbox'[u] = inbox[u] /\ srv'[u] = srv[u],
         ClientInv(t, th'[t], session'[t], inbox'[t], srv'[t]),
         program = "scalecli" => /\ global'.assoc \in {global.assoc, 1}
                                 /\ session'[t].pushes # {} => global'.assoc = 1
  PROVE  IndInv'
<1>1. Typed'
  BY Names DEF IndInv, Typed, config
<1>2. SharedInv'
  <2>1. ASSUME NEW u \in Threads
        PROVE  program' = "scalecli" /\ session'[u].pushes # {} => global'.assoc = 1
    BY DEF IndInv, SharedInv, config
  <2> QED
    BY <2>1 DEF IndInv, SharedInv, config
<1>3. ASSUME NEW u \in Threads
      PROVE  ClientInv(u, th[u], session[u], inbox[u], srv[u])'
  <2>1. ClientInv(u, th'[u], session'[u], inbox'[u], srv'[u])
    BY <1>3 DEF IndInv
  <2> QED
    BY <2>1 DEF ClientInv, IdsInv, IssueInv, QueueInv, PushInv, AnswerInv, config
<1> QED
  BY <1>1, <1>2, <1>3 DEF IndInv

-----------------------------------------------------------------------------
(* What happens to the queue and to the frames of one client.              *)

\* A request that neither listens nor asks for ids is queued.
LEMMA AppendedRequest ==
  ASSUME NEW t \in Threads, NEW p \in AnyThread, NEW s \in AnySession, NEW f \in Seq(AnyFrame),
         NEW v \in AnyServer, ClientInv(t, p, s, f, v), p.pc = "loop",
         NEW r \in AnyRequest, r.kind \in {"ack", "ping"}
  PROVE  /\ ClientInv(t, p, Queued(s, r), f, v) /\ Queued(s, r) \in AnySession
         /\ Queued(s, r).pushes = s.pushes
<1> DEFINE q == Queued(s, r)
<1>1. /\ q \in AnySession /\ q.queue = Append(s.queue, r) /\ q.streams = s.streams
      /\ q.open = s.open /\ q.pushes = s.pushes /\ q.assoc = s.assoc
  <2>1. Append(s.queue, r) \in Seq(AnyRequest)
    BY DEF AnySession
  <2> QED
    BY <2>1 DEF Queued, AnySession
<1>2. /\ DOMAIN q.queue = DOMAIN s.queue \cup {Len(s.queue) + 1}
      /\ q.queue[Len(s.queue) + 1] = r
      /\ \A k \in DOMAIN s.queue : q.queue[k] = s.queue[k] /\ k # Len(s.queue) + 1
  <2>1. s.queue \in Seq(AnyRequest)
    BY DEF AnySession
  <2> QED
    BY <1>1, <2>1
<1> HIDE DEF q
<1>3. IssueInv(t, p, q)
  BY <1>1 DEF ClientInv, IssueInv
<1>4. NoListen(s) => NoListen(q)
  BY <1>1, <1>2 DEF NoListen
<1>5. QueueInv(p, q)
  <2>1. Whole(p.pushId) => OneListen(q)
    <3>1. ASSUME Whole(p.pushId), \A k \in DOMAIN s.queue : s.queue[k].kind # "listen"
          PROVE  \A k \in DOMAIN q.queue : q.queue[k].kind # "listen"
      BY <1>2, <3>1
    <3>2. ASSUME Whole(p.pushId), NEW k \in DOMAIN s.queue,
                 \A j \in DOMAIN s.queue : s.queue[j].kind = "listen" <=> j = k
          PROVE  \A j \in DOMAIN q.queue : q.queue[j].kind = "listen" <=> j = k
      BY <1>2, <3>2
    <3> QED
      BY <1>1, <1>2, <3>1, <3>2 DEF ClientInv, QueueInv, OneListen
  <2>2. /\ ComesFirst(s, {"register", "refresh"}) => ComesFirst(q, {"register", "refresh"})
        /\ ComesFirst(s, {"listen"}) => ComesFirst(q, {"listen"})
    BY <1>1, <1>2 DEF ComesFirst
  <2>3. \A k \in DOMAIN q.queue : q.queue[k].kind \in {"register", "refresh"} => p.pushId = None
    BY <1>1, <1>2 DEF ClientInv, QueueInv
  <2> QED
    BY <1>1, <1>4, <2>1, <2>2, <2>3 DEF ClientInv, QueueInv
<1>6. PushInv(t, p, q, f)
  BY <1>1 DEF ClientInv, PushInv, ListenStream
<1>7. AnswerInv(p, q, f, v)
  BY <1>4 DEF ClientInv, AnswerInv
<1> QED
  BY <1>1, <1>3, <1>5, <1>6, <1>7 DEF ClientInv, q

\* A frame is read.
LEMMA ReadFrame ==
  ASSUME NEW t \in Threads, NEW p \in AnyThread, NEW s \in AnySession, NEW f \in Seq(AnyFrame),
         NEW v \in AnyServer, ClientInv(t, p, s, f, v), f # <<>>
  PROVE  /\ Tail(f) \in Seq(AnyFrame) /\ Head(f) \in AnyFrame /\ ClientInv(t, p, s, Tail(f), v)
         /\ Head(f).type = "push" => /\ Head(f).push \in 1 .. MaxPushes[mode][t]
                                     /\ ListenStream(s, Head(f).id)
         /\ Head(f).body = "ids" /\ p.pushId = None => NoListen(s)
         /\ Head(f).body \in {"ids", "cut", "rest"} =>
               1 \in v.answered /\ \A k \in DOMAIN Tail(f) : Tail(f)[k].body # "ids"
<1>1. /\ Tail(f) \in Seq(AnyFrame) /\ Head(f) \in AnyFrame /\ Len(Tail(f)) <= Len(f)
      /\ Head(f) = f[1] /\ 1 \in DOMAIN f
      /\ \A k \in DOMAIN Tail(f) : /\ k \in Nat /\ k >= 1 /\ k + 1 \in DOMAIN f
                                   /\ Tail(f)[k] = f[k + 1]
      /\ Len(f) \in Nat /\ Len(Tail(f)) \in Nat
  OBVIOUS
<1>2. Len(Tail(f)) <= MaxFrames
  BY <1>1, SpdyClientAssumption DEF ClientInv, PushInv
<1>3. PushInv(t, p, s, Tail(f))
  BY <1>1, <1>2 DEF ClientInv, PushInv
<1>4. AnswerInv(p, s, Tail(f), v)
  <2>1. \A k \in DOMAIN Tail(f) : Tail(f)[k].body \in {"ids", "cut", "rest"} => 1 \in v.answered
    BY <1>1 DEF ClientInv, AnswerInv
  <2>2. ASSUME NEW j \in DOMAIN Tail(f), NEW k \in DOMAIN Tail(f), Tail(f)[k].body = "ids",
               Tail(f)[j].body \in {"ids", "cut", "rest"}
        PROVE  k <= j
    <3>1. k + 1 <= j + 1
      BY <1>1, <2>2 DEF ClientInv, AnswerInv
    <3> QED
      BY <1>1, <3>1
  <2>3. (\E k \in DOMAIN Tail(f) : Tail(f)[k].body = "ids") => \E k \in DOMAIN f : f[k].body = "ids"
    BY <1>1
  <2> QED
    BY <2>1, <2>2, <2>3 DEF ClientInv, AnswerInv
<1>5. Head(f).body = "ids" /\ p.pushId = None => NoListen(s)
  BY <1>1 DEF ClientInv, AnswerInv
<1>6. ASSUME Head(f).body \in {"ids", "cut", "rest"}
      PROVE  1 \in v.answered /\ \A k \in DOMAIN Tail(f) : Tail(f)[k].body # "ids"
  <2>1. ASSUME NEW k \in DOMAIN Tail(f), Tail(f)[k].body = "ids" PROVE k + 1 <= 1
    BY <1>1, <1>6, <2>1 DEF ClientInv, AnswerInv
  <2> QED
    BY <1>1, <1>6, <2>1 DEF ClientInv, AnswerInv
<1> QED
  BY <1>1, <1>3, <1>4, <1>5, <1>6 DEF ClientInv, PushInv

\* A frame comes in; an answer that starts is the first one on stream 1.
LEMMA FrameArrives ==
  ASSUME NEW t \in Threads, NEW p \in AnyThread, NEW s \in AnySession, NEW f \in Seq(AnyFrame),
         NEW v \in AnyServer, ClientInv(t, p, s, f, v), Len(f) < MaxFrames,
         NEW frame \in AnyFrame, NEW w \in AnyServer,
         frame.type = "push" => /\ frame.push \in 1 .. MaxPushes[mode][t]
                                /\ ListenStream(s, frame.id),
         v.answered \subseteq w.answered, frame.body = "ids" => 1 \notin v.answered,
         frame.body \in {"ids", "cut", "rest"} => 1 \in w.answered
  PROVE  ClientInv(t, p, s, Append(f, frame), w) /\ Append(f, frame) \in Seq(AnyFrame)
<1> DEFINE g == Append(f, frame)
<1>1. /\ g \in Seq(AnyFrame) /\ Len(g) = Len(f) + 1
      /\ DOMAIN g = DOMAIN f \cup {Len(f) + 1}
      /\ g[Len(f) + 1] = frame
      /\ \A k \in DOMAIN f : g[k] = f[k] /\ k \in Nat /\ k <= Len(f)
      /\ Len(f) \in Nat
  OBVIOUS
<1>2. Len(g) <= MaxFrames
  BY <1>1, SpdyClientAssumption
<1> HIDE DEF g
<1>3. PushInv(t, p, s, g)
  BY <1>1, <1>2 DEF ClientInv, PushInv
<1>4. AnswerInv(p, s, g, w)
  <2>1. ASSUME NEW k \in DOMAIN g, g[k].body \in {"ids", "cut", "rest"} PROVE 1 \in w.answered
    BY <1>1, <2>1 DEF ClientInv, AnswerInv
  <2>2. ASSUME NEW j \in DOMAIN g, NEW k \in DOMAIN g, g[k].body = "ids",
               g[j].body \in {"ids", "cut", "rest"}
        PROVE  k <= j
    <3>1. CASE j = Len(f) + 1
      BY <1>1, <3>1
    <3>2. CASE j \in DOMAIN f
      <4>1. k \in DOMAIN f
        BY <1>1, <2>2, <3>2 DEF ClientInv, AnswerInv
      <4> QED
        BY <1>1, <2>2, <3>2, <4>1 DEF ClientInv, AnswerInv
    <3> QED
      BY <1>1, <3>1, <3>2
  <2>3. 1 \notin w.answered \/ (\E k \in DOMAIN g : g[k].body = "ids") =>
           1 \notin v.answered \/ \E k \in DOMAIN f : f[k].body = "ids"
    BY <1>1
  <2> QED
    BY <2>1, <2>2, <2>3 DEF ClientInv, AnswerInv
<1> QED
  BY <1>1, <1>3, <1>4 DEF ClientInv, g

\* A stream is closed, a push announced, GOAWAY sent: the queue stays as it is.
LEMMA StreamsChange ==
  ASSUME NEW t \in Threads, NEW p \in AnyThread, NEW s \in AnySession, NEW f \in Seq(AnyFrame),
         NEW v \in AnyServer, ClientInv(t, p, s, f, v), NEW q \in AnySession, p.pc = "loop",
         q.queue = s.queue, q.streams = s.streams, q.open \subseteq s.open,
         q.pushes \subseteq 1 .. MaxPushes[mode][t],
         program = "spdycli" /\ q.pushes # {} => ListenStream(s, q.assoc)
  PROVE  ClientInv(t, p, q, f, v)
<1>1. IssueInv(t, p, q)
  BY DEF ClientInv, IssueInv
<1>2. QueueInv(p, q)
  BY DEF ClientInv, QueueInv, NoListen, OneListen, ComesFirst
<1>3. PushInv(t, p, q, f)
  BY DEF ClientInv, PushInv, ListenStream
<1>4. AnswerInv(p, q, f, v)
  BY DEF ClientInv, AnswerInv, NoListen
<1> QED
  BY <1>1, <1>2, <1>3, <1>4 DEF ClientInv

\* The first queued request is sent: a listen moves from the queue to the streams, and
\* what asks for ids is gone.
LEMMA SentRequest ==
  ASSUME NEW t \in Threads, NEW p \in AnyThread, NEW s \in AnySession, NEW f \in Seq(AnyFrame),
         NEW v \in AnyServer, ClientInv(t, p, s, f, v), p.pc = "loop", s.queue # <<>>,
         NEW n, n = IF Head(s.queue).kind \in {"register", "refresh"} THEN p.issued + 1
                    ELSE p.issued
  PROVE  /\ Opened(s) \in AnySession /\ [p EXCEPT !.issued = n] \in AnyThread
         /\ ClientInv(t, [p EXCEPT !.issued = n], Opened(s), f, v) /\ Opened(s).pushes = s.pushes
<1> DEFINE q == Opened(s)
           r == Head(s.queue)
           p1 == [p EXCEPT !.issued = n]
<1>0. s.queue \in Seq(AnyRequest) /\ s.streams \in Seq(Kinds) /\ s.open \subseteq Nat
  BY DEF AnySession
<1>1. /\ Tail(s.queue) \in Seq(AnyRequest) /\ r \in AnyRequest /\ r = s.queue[1]
      /\ 1 \in DOMAIN s.queue
      /\ \A k \in DOMAIN Tail(s.queue) : /\ k + 1 \in DOMAIN s.queue
                                         /\ Tail(s.queue)[k] = s.queue[k + 1]
      /\ \A k \in DOMAIN s.queue : k # 1 => k - 1 \in DOMAIN Tail(s.queue)
  BY <1>0
<1>2. /\ Append(s.streams, r.kind) \in Seq(Kinds)
      /\ DOMAIN Append(s.streams, r.kind) = DOMAIN s.streams \cup {Len(s.streams) + 1}
      /\ Append(s.streams, r.kind)[Len(s.streams) + 1] = r.kind
      /\ \A k \in DOMAIN s.streams : /\ Append(s.streams, r.kind)[k] = s.streams[k]
                                     /\ k \in Nat /\ k # Len(s.streams) + 1
      /\ Append(s.streams, r.kind) # <<>> /\ Len(s.streams) \in Nat
  <2>1. r.kind \in Kinds
    BY <1>1 DEF AnyRequest
  <2>2. ASSUME NEW seq \in Seq(Kinds), NEW k \in Kinds
        PROVE  /\ Append(seq, k) \in Seq(Kinds)
               /\ DOMAIN Append(seq, k) = DOMAIN seq \cup {Len(seq) + 1}
               /\ Append(seq, k)[Len(seq) + 1] = k
               /\ \A j \in DOMAIN seq : /\ Append(seq, k)[j] = seq[j]
                                         /\ j \in Nat /\ j # Len(seq) + 1
               /\ Append(seq, k) # <<>> /\ Len(seq) \in Nat
    OBVIOUS
  <2> QED
    BY <1>0, <2>1, <2>2
<1>3. /\ q \in AnySession /\ q.queue = Tail(s.queue) /\ q.pushes = s.pushes /\ q.assoc = s.assoc
      /\ q.streams = IF r.kind = "ping" THEN s.streams ELSE Append(s.streams, r.kind)
      /\ q.open \subseteq s.open \cup IF r.kind = "ping" THEN {} ELSE {2 * Len(s.streams) + 1}
  <2>1. CASE r.kind = "ping"
    BY <1>1, <2>1 DEF Opened, AnySession
  <2>2. CASE r.kind # "ping"
    <3> DEFINE id == 2 * Len(s.streams) + 1
    <3>1. id \in Nat
      BY <1>2
    <3>2. PICK o \in {s.open, s.open \cup {id}} :
             q = [s EXCEPT !.queue = Tail(s.queue), !.streams = Append(s.streams, r.kind), !.open = o]
      BY <2>2 DEF Opened, stream_id
    <3>3. o \subseteq Nat
      BY <1>0, <3>1, <3>2
    <3> HIDE DEF q, r, id
    <3>4. /\ q \in AnySession /\ q.queue = Tail(s.queue) /\ q.pushes = s.pushes /\ q.open = o /\ q.assoc = s.assoc
          /\ q.streams = Append(s.streams, r.kind)
      BY <1>1, <1>2, <3>2, <3>3 DEF AnySession
    <3> QED
      BY <2>2, <3>2, <3>4 DEF id
  <2> QED
    BY <2>1, <2>2
<1>4. /\ p1 \in AnyThread /\ p1.pc = p.pc /\ p1.clientId = p.clientId /\ p1.pushId = p.pushId
      /\ p1.retries = p.retries /\ p1.pushed = p.pushed /\ p1.issued = n
  BY DEF AnyThread
<1>5. IdsInv(p1)
  BY <1>4 DEF ClientInv, IdsInv
<1>6. IssueInv(t, p1, q)
  <2>1. p.issued \in Nat /\ p.retries \in Nat /\ MaxRetries[t] \in Nat
    BY Names DEF AnyThread
  <2>2. CASE r.kind \in {"register", "refresh"}
    <3>1. s.streams = <<>> /\ q.streams # <<>>
      BY <1>1, <1>2, <1>3, <2>2 DEF ClientInv, QueueInv, ComesFirst
    <3> QED
      BY <1>4, <2>1, <2>2, <3>1 DEF ClientInv, IssueInv
  <2>3. CASE r.kind \notin {"register", "refresh"}
    BY <1>2, <1>3, <1>4, <2>1, <2>3 DEF ClientInv, IssueInv
  <2> QED
    BY <2>2, <2>3
<1>7. QueueInv(p1, q)
  <2>1. q.open \subseteq {2 * k - 1 : k \in DOMAIN q.streams}
    <3>1. ASSUME NEW id \in q.open PROVE \E k \in DOMAIN q.streams : id = 2 * k - 1
      <4>1. CASE id \in s.open
        BY <1>2, <1>3, <4>1 DEF ClientInv, QueueInv
      <4>2. CASE id \notin s.open
        <5>1. id = 2 * Len(s.streams) + 1 /\ Len(s.streams) + 1 \in DOMAIN q.streams
          BY <1>2, <1>3, <3>1, <4>2
        <5> QED
          BY <1>2, <5>1, 2 * Len(s.streams) + 1 = 2 * (Len(s.streams) + 1) - 1
      <4> QED
        BY <4>1, <4>2
    <3> QED
      BY <3>1
  <2>2. \A k \in DOMAIN q.queue : q.queue[k].kind \notin {"register", "refresh"}
    <3>1. \A k \in DOMAIN q.queue : k \in Nat /\ k >= 1
      BY <1>1, <1>3
    <3> QED
      BY <1>1, <1>3, <3>1 DEF ClientInv, QueueInv, ComesFirst
  <2>3. NoListen(s) => NoListen(q)
    BY <1>1, <1>2, <1>3 DEF NoListen
  <2>4. ASSUME Whole(p.pushId) PROVE OneListen(q)
    <3>1. OneListen(s)
      BY <2>4 DEF ClientInv, QueueInv
    <3>2. CASE /\ \A k \in DOMAIN s.queue : s.queue[k].kind # "listen"
               /\ \E k \in DOMAIN s.streams : \A j \in DOMAIN s.streams :
                     s.streams[j] = "listen" <=> j = k
      <4>1. PICK k \in DOMAIN s.streams : \A j \in DOMAIN s.streams :
                     s.streams[j] = "listen" <=> j = k
        BY <3>2
      <4>2. \A j \in DOMAIN q.queue : q.queue[j].kind # "listen"
        BY <1>1, <1>3, <3>2
      <4>3. k \in DOMAIN q.streams /\ \A j \in DOMAIN q.streams : q.streams[j] = "listen" <=> j = k
        BY <1>1, <1>2, <1>3, <3>2, <4>1
      <4> QED
        BY <4>2, <4>3 DEF OneListen
    <3>3. CASE /\ \A k \in DOMAIN s.streams : s.streams[k] # "listen"
               /\ \E k \in DOMAIN s.queue : \A j \in DOMAIN s.queue :
                     s.queue[j].kind = "listen" <=> j = k
      <4>1. PICK k \in DOMAIN s.queue : \A j \in DOMAIN s.queue :
                     s.queue[j].kind = "listen" <=> j = k
        BY <3>3
      <4>2. CASE k = 1
        <5>1. \A j \in DOMAIN q.queue : q.queue[j].kind # "listen"
          <6>1. \A j \in DOMAIN q.queue : j \in Nat /\ j >= 1
            BY <1>1, <1>3
          <6> QED
            BY <1>1, <1>3, <4>1, <4>2, <6>1
        <5>2. r.kind = "listen"
          BY <1>1, <4>1, <4>2
        <5>3. /\ Len(s.streams) + 1 \in DOMAIN q.streams
              /\ \A j \in DOMAIN q.streams : q.streams[j] = "listen" <=> j = Len(s.streams) + 1
          BY <1>2, <1>3, <3>3, <5>2
        <5> QED
          BY <5>1, <5>3 DEF OneListen
      <4>3. CASE k # 1
        <5>1. r.kind # "listen"
          BY <1>1, <4>1, <4>3
        <5>2. \A j \in DOMAIN q.streams : q.streams[j] # "listen"
          BY <1>2, <1>3, <3>3, <5>1
        <5>3. /\ k - 1 \in DOMAIN q.queue
              /\ \A j \in DOMAIN q.queue : q.queue[j].kind = "listen" <=> j = k - 1
          <6>1. k \in Nat /\ \A j \in DOMAIN q.queue : j \in Nat
            BY <1>0, <1>1, <1>3
          <6> QED
            BY <1>1, <1>3, <4>1, <4>3, <6>1
        <5> QED
          BY <5>2, <5>3 DEF OneListen
      <4> QED
        BY <4>2, <4>3
    <3> QED
      BY <3>1, <3>2, <3>3 DEF OneListen
  <2>5. ASSUME NEW kinds, ComesFirst(s, kinds) PROVE ComesFirst(q, kinds)
    <3>1. ASSUME NEW k \in DOMAIN q.queue PROVE q.queue[k].kind \notin kinds
      <4>1. k \in Nat /\ k >= 1 /\ k + 1 \in DOMAIN s.queue /\ q.queue[k] = s.queue[k + 1]
        BY <1>1, <1>3, <3>1
      <4> QED
        BY <2>5, <4>1 DEF ComesFirst
    <3>2. ASSUME NEW k \in DOMAIN q.streams, q.streams[k] \in kinds PROVE k = 1
      <4>1. CASE k \in DOMAIN s.streams
        BY <1>2, <1>3, <2>5, <3>2, <4>1 DEF ComesFirst
      <4>2. CASE k \notin DOMAIN s.streams
        <5>1. k = Len(s.streams) + 1 /\ r.kind \in kinds
          BY <1>2, <1>3, <3>2, <4>2
        <5>2. s.streams = <<>>
          BY <1>1, <2>5, <5>1 DEF ComesFirst
        <5> QED
          BY <5>1, <5>2
      <4> QED
        BY <4>1, <4>2
    <3> QED
      BY <3>1, <3>2 DEF ComesFirst
  <2> QED
    BY <1>4, <2>1, <2>2, <2>3, <2>4, <2>5 DEF ClientInv, QueueInv
<1>8. PushInv(t, p1, q, f)
  <2>1. ASSUME NEW id, ListenStream(s, id) PROVE ListenStream(q, id)
    BY <1>2, <1>3, <2>1 DEF ListenStream
  <2> QED
    BY <1>3, <1>4, <2>1 DEF ClientInv, PushInv
<1>9. AnswerInv(p1, q, f, v)
  <2>1. NoListen(s) => NoListen(q)
    BY <1>1, <1>2, <1>3 DEF NoListen
  <2> QED
    BY <1>4, <2>1 DEF ClientInv, AnswerInv
<1> QED
  BY <1>3, <1>4, <1>5, <1>6, <1>7, <1>8, <1>9 DEF ClientInv

-----------------------------------------------------------------------------
(* The actions.                                                            *)

\* A new session, of a client that has not asked for ids in it.
LEMMA FreshSession ==
  /\ NewSession \in AnySession /\ NewSession.queue = <<>> /\ NewSession.streams = <<>>
  /\ NewSession.open = {} /\ NewSession.pushes = {} /\ NoListen(NewSession)
  /\ ComesFirst(NewSession, {"register", "refresh"}) /\ ComesFirst(NewSession, {"listen"})
  /\ NewServer \in AnyServer
<1>1. <<>> \in Seq(AnyRequest) /\ <<>> \in Seq(Kinds)
  OBVIOUS
<1>2. NewSession \in AnySession
  BY <1>1 DEF NewSession, AnySession
<1> QED
  BY <1>2 DEF NewSession, NewServer, AnyServer, NoListen, ComesFirst

LEMMA InitInv == Init => IndInv
<1> SUFFICES ASSUME Init PROVE IndInv
  OBVIOUS
<1>1. Typed
  <2>1. \A t \in Threads : inbox[t] = <<>> /\ <<>> \in Seq(AnyFrame)
    BY DEF Init
  <2>2. th \in [Threads -> AnyThread]
    BY DEF Init, AnyThread, AnyPushId
  <2> QED
    BY <2>1, <2>2, FreshSession, SpdyClientAssumption DEF Init, Typed
<1>2. SharedInv
  BY FreshSession DEF Init, SharedInv
<1>3. ASSUME NEW t \in Threads
      PROVE  ClientInv(t, th[t], session[t], inbox[t], srv[t])
  <2>1. /\ th[t].pc = "none" /\ th[t].clientId = None /\ th[t].pushId = None
        /\ th[t].retries = 0 /\ th[t].pushed = 0 /\ th[t].issued = 0
        /\ session[t] = NewSession /\ inbox[t] = <<>> /\ mode \in Modes
    BY DEF Init
  <2>2. MaxRetries[t] \in Nat /\ MaxPushes[mode][t] \in Nat /\ MaxFrames \in Nat
    BY <2>1, SpdyClientAssumption
  <2>3. IdsInv(th[t])
    BY <2>1 DEF IdsInv
  <2>4. IssueInv(t, th[t], session[t])
    BY <2>1, <2>2 DEF IssueInv
  <2>5. QueueInv(th[t], session[t])
    BY <2>1, FreshSession DEF QueueInv
  <2>6. PushInv(t, th[t], session[t], inbox[t])
    BY <2>1, <2>2, FreshSession DEF PushInv
  <2>7. AnswerInv(th[t], session[t], inbox[t], srv[t])
    BY <2>1, FreshSession DEF AnswerInv
  <2> QED
    BY <2>3, <2>4, <2>5, <2>6, <2>7 DEF ClientInv
<1> QED
  BY <1>1, <1>2, <1>3 DEF IndInv

\* main creates a client.
LEMMA StepCreate ==
  ASSUME IndInv, NEW t \in Threads, CreateThread(t)
  PROVE  IndInv'
<1> DEFINE ids == IF program = "spdycli" THEN spdycli_ids(t) ELSE scalecli_ids(t)
<1>1. th[t] \in AnyThread /\ session[t] = NewSession /\ th[t].pc = "none" /\ t \in Nat
  BY Names DEF IndInv, Typed, CreateThread, ClientInv, QueueInv
<1>2. /\ ids.clientId \in {None, <<t, 0>>, RefreshTestClient}
      /\ ids.pushId \in {None, <<<<t, 0>>, 0>>}
  BY DEF spdycli_ids, scalecli_ids
<1>3. /\ <<t, 0>> \in Ids /\ <<<<t, 0>>, 0>> \in Ids \X Nat /\ RefreshTestClient \in Ids
      /\ <<t, 0>> \in ClientIds(t) /\ RefreshTestClient \in ClientIds(t)
      /\ <<<<t, 0>>, 0>> \in PushIds(t)
  BY <1>1, Names DEF Ids, RefreshTestClient, ClientIds, PushIds
<1>4. PICK pc \in {"connect", "exited"} :
         th' = [th EXCEPT ![t].pc = pc, ![t].clientId = ids.clientId, ![t].pushId = ids.pushId]
  BY DEF CreateThread
<1> HIDE DEF ids
<1>5. /\ th' \in [Threads -> AnyThread]
      /\ th'[t].pc = pc /\ th'[t].clientId = ids.clientId /\ th'[t].pushId = ids.pushId
      /\ th'[t].retries = th[t].retries /\ th'[t].pushed = th[t].pushed
      /\ th'[t].issued = th[t].issued
      /\ \A u \in Threads \ {t} : th'[u] = th[u]
  <2>1. ids.clientId \in Ids \cup {None} /\ ids.pushId \in AnyPushId
    BY <1>2, <1>3 DEF AnyPushId
  <2> QED
    BY ZenonT(40), <1>1, <1>4, <2>1 DEF IndInv, Typed, AnyThread
<1>6. IdsInv(th'[t])
  BY <1>1, <1>3, <1>4, <1>5, Names DEF IdsInv, ids, spdycli_ids, scalecli_ids,
     RefreshTestClient, IndInv, SharedInv, scalecli_modes
<1>7. IssueInv(t, th'[t], session[t])
  <2>1. IssueInv(t, th[t], session[t])
    BY DEF IndInv, ClientInv
  <2> QED
    BY <1>1, <1>2, <1>3, <1>5, <2>1 DEF IssueInv
<1>8. QueueInv(th'[t], session[t])
  BY <1>1, <1>4, <1>5, FreshSession DEF QueueInv
<1>9. PushInv(t, th'[t], session[t], inbox[t])
  <2>1. PushInv(t, th[t], session[t], inbox[t])
    BY DEF IndInv, ClientInv
  <2> QED
    BY <1>5, <2>1 DEF PushInv
<1>10. AnswerInv(th'[t], session[t], inbox[t], srv[t])
  BY <1>1, FreshSession DEF IndInv, ClientInv, AnswerInv
<1>11. /\ process' \in {"main", "joining", "exited", "crashed"}
       /\ global' \in [gUri : Threads, assoc : Nat] /\ global'.assoc = global.assoc
  BY DEF CreateThread, IndInv, Typed
<1>12. session[t].pushes = {}
  BY <1>1, FreshSession
<1> QED
  BY <1>5, <1>6, <1>7, <1>8, <1>9, <1>10, <1>11, <1>12, OneClient
  DEF CreateThread, ClientInv, IndInv, Typed

\* A thread is back in createSpdyClient.
LEMMA StepOver ==
  ASSUME IndInv, NEW t \in Threads, SessionOver(t), th[t].pc \in {"connect", "loop"}
  PROVE  IndInv'
<1>1. th[t] \in AnyThread /\ ClientInv(t, th[t], session[t], inbox[t], srv[t])
  BY DEF IndInv, Typed
<1>2. /\ th[t].retries \in Nat /\ th[t].retries <= MaxRetries[t] /\ MaxRetries[t] \in Nat
      /\ th[t].issued \in Nat /\ th[t].issued <= th[t].retries + 1
  BY <1>1, Names DEF AnyThread, ClientInv, IssueInv
<1>3. PICK pc \in {"backoff", "exited"} :
         th' = [th EXCEPT ![t].pc = pc, ![t].retries = th[t].retries + 1]
  BY <1>2 DEF SessionOver, IndInv, Typed
<1>4. /\ th' \in [Threads -> AnyThread]
      /\ th'[t].pc = pc /\ th'[t].clientId = th[t].clientId /\ th'[t].pushId = th[t].pushId
      /\ th'[t].retries = th[t].retries + 1 /\ th'[t].pushed = th[t].pushed
      /\ th'[t].issued = th[t].issued
      /\ \A u \in Threads \ {t} : th'[u] = th[u]
  <2> DEFINE n == th[t].retries + 1
  <2>1. n \in Nat /\ th \in [Threads -> AnyThread]
    BY <1>2 DEF IndInv, Typed
  <2>2. th' = [th EXCEPT ![t].pc = pc, ![t].retries = n]
    BY <1>3
  <2> HIDE DEF n
  <2>3. th' \in [Threads -> AnyThread]
    BY <1>3, <2>1, <2>2 DEF AnyThread
  <2> QED
    BY <1>1, <1>3, <2>1, <2>2, <2>3 DEF AnyThread, n
<1>5. /\ session' \in [Threads -> AnySession] /\ session'[t] = NewSession
      /\ inbox' \in [Threads -> Seq(AnyFrame)] /\ inbox'[t] = <<>>
      /\ srv' \in [Threads -> AnyServer]
      /\ \A u \in Threads \ {t} : /\ session'[u] = session[u] /\ inbox'[u] = inbox[u]
                                  /\ srv'[u] = srv[u]
  BY FreshSession DEF SessionOver, IndInv, Typed
<1>6. IdsInv(th'[t])
  BY <1>1, <1>3, <1>4 DEF ClientInv, IdsInv
<1>7. IssueInv(t, th'[t], session'[t])
  BY <1>1, <1>2, <1>3, <1>4, <1>5, FreshSession DEF ClientInv, IssueInv
<1>8. QueueInv(th'[t], session'[t])
  BY <1>3, <1>4, <1>5, FreshSession DEF QueueInv
<1>9. PushInv(t, th'[t], session'[t], inbox'[t])
  <2>1. MaxFrames \in Nat /\ Len(<<>>) = 0
    BY SpdyClientAssumption
  <2> QED
    BY <1>1, <1>4, <1>5, <2>1, FreshSession DEF ClientInv, PushInv
<1>10. AnswerInv(th'[t], session'[t], inbox'[t], srv'[t])
  BY <1>5, FreshSession DEF AnswerInv
<1>11. global \in [gUri : Threads, assoc : Nat]
  BY DEF IndInv, Typed, SharedInv
<1> QED
  BY <1>4, <1>5, <1>6, <1>7, <1>8, <1>9, <1>10, <1>11, FreshSession, OneClient
  DEF SessionOver, ClientInv, IndInv, Typed

\* The process ends; every thread stays where it is.
LEMMA StepEnds ==
  ASSUME IndInv, UNCHANGED <<config, global, th, session, inbox, srv>>,
         process' \in {"main", "joining", "exited", "crashed"}
  PROVE  IndInv'
BY DEF IndInv, Typed, SharedInv, ClientInv, IdsInv, IssueInv, QueueInv, PushInv,
   AnswerInv, config

\* A session starts with the request that the ids call for.
LEMMA StepConnected ==
  ASSUME IndInv, NEW t \in Threads, NEW dead \in BOOLEAN, NEW r \in AnyRequest,
         th[t].pc = "connect", Connected(t, dead, r),
         r.kind \in {"listen", "register", "refresh", "get"},
         r.kind = "listen" <=> th[t].pushId # None
  PROVE  IndInv'
<1> DEFINE s == Queued([NewSession EXCEPT !.dead = dead], r)
<1>1. /\ th[t] \in AnyThread /\ ClientInv(t, th[t], session[t], inbox[t], srv[t])
      /\ session[t] = NewSession
  BY DEF IndInv, Typed, ClientInv, QueueInv
<1>2. /\ s \in AnySession /\ s.queue = <<r>> /\ s.streams = <<>> /\ s.open = {} /\ s.pushes = {}
  <2>1. Append(<<>>, r) = <<r>> /\ <<r>> \in Seq(AnyRequest)
    OBVIOUS
  <2>2. <<>> \in Seq(Kinds)
    OBVIOUS
  <2> QED
    BY <2>1, <2>2 DEF Queued, NewSession, AnySession
<1>3. /\ session' \in [Threads -> AnySession] /\ session'[t] = s
      /\ \A u \in Threads \ {t} : session'[u] = session[u]
  BY <1>2 DEF Connected, IndInv, Typed
<1>4. /\ th' \in [Threads -> AnyThread]
      /\ th'[t].pc = "loop" /\ th'[t].clientId = th[t].clientId /\ th'[t].pushId = th[t].pushId
      /\ th'[t].retries = th[t].retries /\ th'[t].pushed = th[t].pushed
      /\ th'[t].issued = th[t].issued
      /\ \A u \in Threads \ {t} : th'[u] = th[u]
  BY <1>1 DEF Connected, IndInv, Typed, AnyThread
<1> HIDE DEF s
<1>5. IdsInv(th'[t])
  BY <1>1, <1>4 DEF ClientInv, IdsInv
<1>6. IssueInv(t, th'[t], session'[t])
  BY <1>1, <1>2, <1>3, <1>4, FreshSession DEF ClientInv, IssueInv
<1>7. QueueInv(th'[t], session'[t])
  <2>1. DOMAIN <<r>> = {1} /\ <<r>>[1] = r /\ DOMAIN <<>> = {}
    OBVIOUS
  <2>2. r.kind # "listen" => NoListen(s)
    BY <1>2, <2>1 DEF NoListen
  <2>3. r.kind = "listen" => OneListen(s)
    BY <1>2, <2>1 DEF OneListen
  <2>4. ComesFirst(s, {"register", "refresh"}) /\ ComesFirst(s, {"listen"})
    BY <1>2, <2>1 DEF ComesFirst
  <2>5. th[t].clientId = None => th[t].pushId = None
    BY <1>1 DEF ClientInv, IdsInv
  <2> QED
    BY <1>2, <1>3, <1>4, <2>1, <2>2, <2>3, <2>4, <2>5 DEF QueueInv, Whole
<1>8. PushInv(t, th'[t], session'[t], inbox[t])
  <2>1. PushInv(t, th[t], NewSession, inbox[t])
    BY <1>1 DEF ClientInv
  <2>2. ASSUME NEW id PROVE ~ListenStream(NewSession, id)
    BY FreshSession DEF ListenStream
  <2> QED
    BY <1>2, <1>3, <1>4, <2>1, <2>2 DEF PushInv
<1>9. AnswerInv(th'[t], session'[t], inbox[t], srv[t])
  <2>1. DOMAIN <<r>> = {1} /\ <<r>>[1] = r /\ DOMAIN <<>> = {}
    OBVIOUS
  <2>2. th[t].pushId = None => NoListen(s)
    BY <1>2, <2>1 DEF NoListen
  <2> QED
    BY <1>1, <1>3, <1>4, <2>2 DEF ClientInv, AnswerInv
<1>10. global \in [gUri : Threads, assoc : Nat]
  BY DEF IndInv, Typed, SharedInv
<1> QED
  BY <1>2, <1>3, <1>4, <1>5, <1>6, <1>7, <1>8, <1>9, <1>10, OneClient
  DEF Connected, ClientInv, IndInv, Typed

\* initSpdySession and fetch_uri
LEMMA StepConnect ==
  ASSUME IndInv, NEW t \in Threads, initSpdySession(t) \/ fetch_uri(t)
  PROVE  IndInv'
<1>1. /\ th[t] \in AnyThread /\ IdsInv(th[t]) /\ th[t].pc = "connect"
      /\ th[t].clientId \in Ids \cup {None} /\ th[t].pushId \in AnyPushId
  BY DEF IndInv, Typed, ClientInv, initSpdySession, fetch_uri, AnyThread
<1>2. th[t].pushId # None => th[t].clientId # None
  BY <1>1 DEF IdsInv
<1>3. CASE initSpdySession(t)
  <2> DEFINE r == first_request(th[t])
  <2>1. r \in AnyRequest /\ r.kind \in {"listen", "register", "refresh", "get"}
    <3>1. r \in {submit_request_listenV2(th[t]), submit_request_refresh(th[t]), submit_request,
                 submit_request_registrateV2}
      BY DEF first_request
    <3> HIDE DEF r
    <3> QED
      BY <1>1, <3>1 DEF submit_request_listenV2, submit_request_refresh, submit_request,
         submit_request_registrateV2, Request, AnyRequest, Kinds, AnyPushId
  <2>2. r.kind = "listen" <=> th[t].pushId # None
    <3>1. IF th[t].pushId # None THEN r = submit_request_listenV2(th[t])
          ELSE r \in {submit_request_refresh(th[t]), submit_request, submit_request_registrateV2}
      BY <1>2 DEF first_request
    <3> HIDE DEF r
    <3> QED
      BY <3>1 DEF submit_request_listenV2, submit_request_refresh, submit_request,
         submit_request_registrateV2, Request
  <2> HIDE DEF r
  <2>3. ASSUME NEW dead \in BOOLEAN, Connected(t, dead, r) PROVE IndInv'
    BY <1>1, <2>1, <2>2, <2>3, StepConnected
  <2>4. (\E dead \in BOOLEAN : Connected(t, dead, r)) \/ SessionOver(t)
    BY <1>3 DEF initSpdySession, r
  <2> QED
    BY <1>1, <2>3, <2>4, StepOver
<1>4. CASE fetch_uri(t)
  <2> DEFINE r == scale_first_request(th[t])
  <2>1. r \in AnyRequest /\ r.kind \in {"listen", "register"}
    BY <1>1 DEF scale_first_request, scale_submit_listen, scale_submit_registrate, Request,
       AnyRequest, Kinds, AnyPushId
  <2>2. r.kind = "listen" <=> th[t].pushId # None
    BY <1>1, <1>4 DEF fetch_uri, scale_first_request, scale_submit_listen, scale_submit_registrate,
       Request, IdsInv, IndInv, SharedInv, scalecli_modes
  <2> HIDE DEF r
  <2>3. Connected(t, FALSE, r) \/ ProcessOver("exited")
    BY <1>4 DEF fetch_uri, scale_handshake_fails, r
  <2>4. CASE Connected(t, FALSE, r)
    BY <1>1, <2>1, <2>2, <2>4, StepConnected
  <2>5. CASE ProcessOver("exited")
    BY <2>5, StepEnds DEF ProcessOver
  <2> QED
    BY <2>3, <2>4, <2>5
<1> QED
  BY <1>3, <1>4

\* The pause before the next session is over.
LEMMA StepBackoff ==
  ASSUME IndInv, NEW t \in Threads, retryBackoff(t)
  PROVE  IndInv'
<1>1. /\ th[t] \in AnyThread /\ ClientInv(t, th[t], session[t], inbox[t], srv[t])
      /\ th[t].pc = "backoff" /\ th[t].retries <= MaxRetries[t]
  BY DEF IndInv, Typed, retryBackoff
<1>2. /\ th' \in [Threads -> AnyThread]
      /\ th'[t].pc = "connect" /\ th'[t].clientId = th[t].clientId /\ th'[t].pushId = th[t].pushId
      /\ th'[t].retries = th[t].retries /\ th'[t].pushed = th[t].pushed
      /\ th'[t].issued = th[t].issued
      /\ \A u \in Threads \ {t} : th'[u] = th[u]
  BY <1>1 DEF retryBackoff, IndInv, Typed, AnyThread
<1>3. IdsInv(th'[t])
  BY <1>1, <1>2 DEF ClientInv, IdsInv
<1>4. IssueInv(t, th'[t], session[t]) /\ QueueInv(th'[t], session[t])
  BY <1>1, <1>2 DEF ClientInv, IssueInv, QueueInv
<1>5. PushInv(t, th'[t], session[t], inbox[t])
  BY <1>1, <1>2 DEF ClientInv, PushInv
<1>6. AnswerInv(th'[t], session[t], inbox[t], srv[t])
  BY <1>1, <1>2 DEF ClientInv, AnswerInv
<1>7. /\ global \in [gUri : Threads, assoc : Nat]
      /\ program = "scalecli" /\ session[t].pushes # {} => global.assoc = 1
  BY <1>1 DEF IndInv, Typed, SharedInv
<1> QED
  BY <1>2, <1>3, <1>4, <1>5, <1>6, <1>7, OneClient DEF retryBackoff, ClientInv, IndInv, Typed

\* A step of exec_io that leaves the ids alone: client t gets session q and frames f.
LEMMA StepSession ==
  ASSUME IndInv, NEW t \in Threads, NEW q \in AnySession, NEW f \in Seq(AnyFrame),
         th[t].pc = "loop", ClientInv(t, th[t], q, f, srv[t]), UNCHANGED <<config, srv>>,
         session' = [session EXCEPT ![t] = q], inbox' = [inbox EXCEPT ![t] = f], UNCHANGED th,
         process' \in {"main", "joining", "exited", "crashed"},
         \/ UNCHANGED global /\ q.pushes = session[t].pushes
         \/ \E n \in Nat : /\ global' = [global EXCEPT !.assoc = n]
                           /\ program = "scalecli" => n = 1
         \/ UNCHANGED global /\ program = "spdycli"
  PROVE  IndInv'
<1>1. /\ global' \in [gUri : Threads, assoc : Nat]
      /\ program = "scalecli" => /\ global'.assoc \in {global.assoc, 1}
                                 /\ q.pushes # {} => global'.assoc = 1
  <2>1. /\ global \in [gUri : Threads, assoc : Nat]
        /\ program = "scalecli" /\ session[t].pushes # {} => global.assoc = 1
    BY DEF IndInv, Typed, SharedInv
  <2>2. CASE UNCHANGED global
    BY <2>1, <2>2
  <2>3. ASSUME NEW n \in Nat, global' = [global EXCEPT !.assoc = n], program = "scalecli" => n = 1
        PROVE  /\ global' \in [gUri : Threads, assoc : Nat]
               /\ program = "scalecli" => global'.assoc = 1
    BY <2>1, <2>3
  <2> QED
    BY <2>2, <2>3
<1>2. /\ session' \in [Threads -> AnySession] /\ inbox' \in [Threads -> Seq(AnyFrame)]
      /\ session'[t] = q /\ inbox'[t] = f
      /\ \A u \in Threads \ {t} : session'[u] = session[u] /\ inbox'[u] = inbox[u]
  BY DEF IndInv, Typed
<1> QED
  BY <1>1, <1>2, OneClient DEF IndInv, Typed

\* spdycli, a chunk on one of its streams: the ids are taken from the answer, and the
\* listen they are for is queued.  A whole push id comes to a client that does not listen.
LEMMA StepData ==
  ASSUME IndInv, NEW t \in Threads, NEW frame \in AnyFrame, NEW f \in Seq(AnyFrame),
         ClientInv(t, th[t], session[t], f, srv[t]), th[t].pc = "loop", program = "spdycli",
         frame.type = "data", DataChunk(t, frame), inbox' = [inbox EXCEPT ![t] = f],
         UNCHANGED <<config, srv>>,
         frame.body = "ids" /\ th[t].pushId = None => NoListen(session[t]),
         frame.body \in {"ids", "cut", "rest"} =>
             1 \in srv[t].answered /\ \A k \in DOMAIN f : f[k].body # "ids"
  PROVE  IndInv'
<1> DEFINE what == IF frame.id \in session[t].open THEN updateClientPushId(t) ELSE "nothing"
           id == AnsweredId(t)
           s == session[t]
<1>0. /\ th[t] \in AnyThread /\ s \in AnySession /\ t \in Nat
      /\ process \in {"main", "joining", "exited", "crashed"}
      /\ th \in [Threads -> AnyThread] /\ session \in [Threads -> AnySession]
  BY Names DEF IndInv, Typed
<1>1. process' \in {"main", "joining", "exited", "crashed"} /\ UNCHANGED global
  BY <1>0 DEF DataChunk
<1>2. CASE UNCHANGED <<session, th>>
  <2>1. session' = [session EXCEPT ![t] = s] /\ s.pushes = session[t].pushes
    BY <1>0, <1>2
  <2> QED
    BY <1>0, <1>1, <1>2, <2>1, StepSession
<1>3. ASSUME what = "parse", KeysFound(frame.body), NEW new \in getPushId(t, frame.body),
             th' = [th EXCEPT ![t] = [th[t] EXCEPT !.clientId = AnsweredId(t), !.pushId = new]],
             session' = [session EXCEPT ![t] =
                Queued(session[t], submit_request_listenV2(
                          [th[t] EXCEPT !.clientId = AnsweredId(t), !.pushId = new]))]
      PROVE  IndInv'
  <2> DEFINE known == [th[t] EXCEPT !.clientId = id, !.pushId = new]
             r == submit_request_listenV2(known)
             q == Queued(s, r)
  <2>1. /\ frame.id \in s.open /\ th[t].pushId = None
        /\ mode = "full" \/ mode = "refresh"
    <3>1. frame.id \in s.open /\ updateClientPushId(t) = "parse"
      BY <1>3
    <3>2. (mode = "full" /\ th[t].clientId = None) \/ (mode = "refresh" /\ th[t].pushId = None)
      BY <3>1 DEF updateClientPushId
    <3> QED
      BY <3>1, <3>2 DEF ClientInv, IdsInv
  <2>2. s.streams # <<>>
    BY <2>1 DEF ClientInv, QueueInv
  <2>3. /\ id \in Ids /\ id \in ClientIds(t) /\ id # None /\ <<id, th[t].issued>> \in PushIds(t)
        /\ (mode = "refresh" => id = RefreshTestClient)
    <3>1. th[t].issued \in 0 .. MaxRetries[t] + 1
      BY <1>0, Names DEF AnyThread, ClientInv, IssueInv
    <3>2. id = IF mode = "refresh" THEN RefreshTestClient ELSE <<t, th[t].issued>>
      BY DEF AnsweredId, ClientInv, IdsInv
    <3>3. id \in ClientIds(t)
      BY <3>1, <3>2 DEF ClientIds, RefreshTestClient
    <3> QED
      BY <3>1, <3>2, <3>3, Names DEF PushIds
  <2>4. /\ new \in PushIds(t) \cup {None, Cut} /\ new \in AnyPushId
        /\ Whole(new) => frame.body = "ids"
    <3>1. new \in {<<id, th[t].issued>>, None, Cut} /\ (Whole(new) => frame.body = "ids")
      BY <1>3 DEF getPushId, Whole
    <3> QED
      BY <2>3, <3>1, Names DEF AnyPushId
  <2>5. /\ known \in AnyThread /\ known.pc = "loop" /\ known.clientId = id
        /\ known.pushId = new /\ known.retries = th[t].retries
        /\ known.pushed = th[t].pushed /\ known.issued = th[t].issued
    <3> HIDE DEF id
    <3> QED
      BY <1>0, <2>3, <2>4 DEF AnyThread
  <2>6. r \in AnyRequest /\ r.kind = "listen"
    <3>1. known.clientId \in Ids /\ known.pushId \in AnyPushId
      BY <2>3, <2>4, <2>5
    <3> HIDE DEF known
    <3> QED
      BY <3>1 DEF submit_request_listenV2, Request, AnyRequest, Kinds
  <2>7. /\ q \in AnySession /\ q.queue = Append(s.queue, r) /\ q.streams = s.streams
        /\ q.open = s.open /\ q.pushes = s.pushes /\ q.assoc = s.assoc
    <3>1. Append(s.queue, r) \in Seq(AnyRequest)
      BY <1>0, <2>6 DEF AnySession
    <3> HIDE DEF r, s
    <3> QED
      BY <1>0, <3>1 DEF Queued, AnySession
  <2>8. /\ DOMAIN q.queue = DOMAIN s.queue \cup {Len(s.queue) + 1}
        /\ q.queue[Len(s.queue) + 1] = r
        /\ \A k \in DOMAIN s.queue : q.queue[k] = s.queue[k] /\ k # Len(s.queue) + 1
    <3>1. s.queue \in Seq(AnyRequest)
      BY <1>0 DEF AnySession
    <3> HIDE DEF r, s, q
    <3> QED
      BY <2>6, <2>7, <3>1
  <2>9. session' = [session EXCEPT ![t] = q] /\ th' = [th EXCEPT ![t] = known]
    BY <1>3
  <2> HIDE DEF what, id, known, r, q
  <2>10. IdsInv(known)
    BY <2>1, <2>3, <2>5 DEF ClientInv, IdsInv
  <2>11. IssueInv(t, known, q)
    BY <2>2, <2>3, <2>4, <2>5, <2>7 DEF ClientInv, IssueInv
  <2>12. QueueInv(known, q)
    <3>1. Whole(new) => OneListen(q)
      <4>1. Whole(new) => NoListen(s)
        BY <2>1, <2>4
      <4>2. ASSUME NoListen(s)
            PROVE  /\ \A k \in DOMAIN q.streams : q.streams[k] # "listen"
                   /\ Len(s.queue) + 1 \in DOMAIN q.queue
                   /\ \A j \in DOMAIN q.queue : q.queue[j].kind = "listen" <=> j = Len(s.queue) + 1
        BY <2>6, <2>7, <2>8, <4>2 DEF NoListen
      <4> QED
        BY <4>1, <4>2 DEF OneListen
    <3>2. /\ ComesFirst(q, {"register", "refresh"})
          /\ \A k \in DOMAIN q.queue : q.queue[k].kind \notin {"register", "refresh"}
      BY <2>2, <2>6, <2>7, <2>8 DEF ClientInv, QueueInv, ComesFirst
    <3> QED
      BY <2>3, <2>5, <2>7, <3>1, <3>2 DEF ClientInv, QueueInv
  <2>13. PushInv(t, known, q, f)
    BY <2>5, <2>7 DEF ClientInv, PushInv, ListenStream
  <2>14. AnswerInv(known, q, f, srv[t])
    <3>1. frame.body \in {"ids", "cut", "rest"}
      BY <1>3 DEF KeysFound
    <3> QED
      BY <3>1 DEF ClientInv, AnswerInv
  <2>15. /\ global' \in [gUri : Threads, assoc : Nat] /\ program # "scalecli"
    BY <1>1 DEF IndInv, Typed, SharedInv
  <2>16. /\ session' \in [Threads -> AnySession] /\ session'[t] = q
         /\ th' \in [Threads -> AnyThread] /\ th'[t] = known
         /\ inbox' \in [Threads -> Seq(AnyFrame)] /\ inbox'[t] = f
         /\ \A u \in Threads \ {t} : /\ session'[u] = session[u] /\ inbox'[u] = inbox[u]
                                     /\ th'[u] = th[u]
    BY <2>5, <2>7, <2>9 DEF IndInv, Typed
  <2> QED
    BY <1>1, <2>10, <2>11, <2>12, <2>13, <2>14, <2>15, <2>16, OneClient
    DEF ClientInv, IndInv, Typed
<1> QED
  BY <1>2, <1>3 DEF DataChunk

\* spdycli, a chunk on a push stream is acknowledged, or ends the thread.
LEMMA StepPush ==
  ASSUME IndInv, NEW t \in Threads, NEW frame \in AnyFrame, NEW f \in Seq(AnyFrame),
         ClientInv(t, th[t], session[t], f, srv[t]), th[t].pc = "loop", program = "spdycli",
         PushChunk(t, frame), inbox' = [inbox EXCEPT ![t] = f], UNCHANGED <<config, srv>>
  PROVE  IndInv'
<1> DEFINE ack == Acknowledges(session[t], session[t].assoc, frame)
           s == session[t]
           r == submit_request_pushack(pushack_sender(t), frame.push)
<1>0. /\ th[t] \in AnyThread /\ s \in AnySession /\ frame.push \in Nat
      /\ process' \in {"main", "joining", "exited", "crashed"} /\ UNCHANGED global
  BY DEF IndInv, Typed, AnyFrame, PushChunk
<1>1. CASE ack /\ frame.body = "diehard"
  <2>1. session' = session /\ th' = [th EXCEPT ![t].pc = "exited"]
    BY <1>1 DEF PushChunk, IndInv, Typed
  <2>2. /\ th' \in [Threads -> AnyThread] /\ th'[t].pc = "exited"
        /\ th'[t].clientId = th[t].clientId /\ th'[t].pushId = th[t].pushId
        /\ th'[t].retries = th[t].retries /\ th'[t].pushed = th[t].pushed
        /\ th'[t].issued = th[t].issued
        /\ \A u \in Threads \ {t} : th'[u] = th[u]
    BY <1>0, <2>1 DEF IndInv, Typed, AnyThread
  <2>3. IdsInv(th'[t]) /\ IssueInv(t, th'[t], s)
    BY <2>2 DEF ClientInv, IdsInv, IssueInv
  <2>4. QueueInv(th'[t], s) /\ PushInv(t, th'[t], s, f) /\ AnswerInv(th'[t], s, f, srv[t])
    BY <2>2 DEF ClientInv, QueueInv, PushInv, AnswerInv
  <2>5. global' \in [gUri : Threads, assoc : Nat]
    BY <1>0 DEF IndInv, Typed, SharedInv
  <2>6. /\ inbox' \in [Threads -> Seq(AnyFrame)] /\ inbox'[t] = f
        /\ \A u \in Threads \ {t} : inbox'[u] = inbox[u]
    BY DEF IndInv, Typed
  <2> QED
    BY <1>0, <2>1, <2>2, <2>3, <2>4, <2>5, <2>6, OneClient DEF ClientInv, IndInv, Typed
<1>2. CASE ~(ack /\ frame.body = "diehard")
  <2>1. th' = th
    <3>1. th' = [th EXCEPT ![t].pc = "loop"]
      BY <1>2 DEF PushChunk
    <3> QED
      BY <1>0, <3>1 DEF IndInv, Typed, AnyThread
  <2>2. CASE ~ack
    <3>1. session' = [session EXCEPT ![t] = s]
      BY <2>2 DEF PushChunk
    <3> QED
      BY <1>0, <2>1, <3>1, StepSession
  <2>3. CASE ack
    <3>3. r \in AnyRequest /\ r.kind = "ack"
      <4>1. th[t].clientId \in Ids \cup {None}
        BY <1>0 DEF AnyThread
      <4> QED
        BY <1>0, <4>1 DEF submit_request_pushack, pushack_sender, Request, AnyRequest, Kinds,
           AnyPushId
    <3>4. session' = [session EXCEPT ![t] = Queued(s, r)]
      BY <1>2, <2>3 DEF PushChunk
    <3> HIDE DEF r
    <3>5. /\ ClientInv(t, th[t], Queued(s, r), f, srv[t]) /\ Queued(s, r) \in AnySession
          /\ srv[t] \in AnyServer
      <4>1. srv[t] \in AnyServer
        BY DEF IndInv, Typed
      <4> QED
        BY <1>0, <3>3, <4>1, AppendedRequest
    <3> QED
      BY <1>0, <2>1, <3>4, <3>5, StepSession
  <2> QED
    BY <2>2, <2>3
<1> QED
  BY <1>1, <1>2

\* recv_callback delivers a frame.
LEMMA StepRecv ==
  ASSUME IndInv, NEW t \in Threads, RecvFrame(t)
  PROVE  IndInv'
<1> DEFINE frame == Head(inbox[t])
           f == Tail(inbox[t])
           s == session[t]
<1>0. /\ th[t] \in AnyThread /\ s \in AnySession /\ inbox[t] \in Seq(AnyFrame) /\ inbox[t] # <<>>
      /\ th[t].pc = "loop" /\ inbox' = [inbox EXCEPT ![t] = f] /\ UNCHANGED <<config, srv>>
      /\ process \in {"main", "joining", "exited", "crashed"} /\ global.gUri \in Threads
      /\ ClientInv(t, th[t], s, inbox[t], srv[t]) /\ srv[t] \in AnyServer
      /\ program = "scalecli" /\ s.pushes # {} => global.assoc = 1
  BY DEF IndInv, Typed, SharedInv, RecvFrame, InLoop
<1>1. /\ f \in Seq(AnyFrame) /\ frame \in AnyFrame /\ ClientInv(t, th[t], s, f, srv[t])
      /\ frame.type = "push" => /\ frame.push \in 1 .. MaxPushes[mode][t]
                                /\ ListenStream(s, frame.id)
      /\ frame.body = "ids" /\ th[t].pushId = None => NoListen(s)
      /\ frame.body \in {"ids", "cut", "rest"} =>
            1 \in srv[t].answered /\ \A k \in DOMAIN f : f[k].body # "ids"
  BY <1>0, ReadFrame
<1>2. frame.id \in Nat /\ frame.push \in Nat
  BY <1>1 DEF AnyFrame
<1> HIDE DEF f, frame
<1>3. ASSUME NEW q \in AnySession, ClientInv(t, th[t], q, f, srv[t]), session' = [session EXCEPT ![t] = q],
             UNCHANGED <<process, th>>,
             \/ UNCHANGED global /\ q.pushes = s.pushes
             \/ \E n \in Nat : /\ global' = [global EXCEPT !.assoc = n]
                               /\ program = "scalecli" => n = 1
             \/ UNCHANGED global /\ program = "spdycli"
      PROVE  IndInv'
  BY <1>0, <1>1, <1>3, StepSession
<1>4. CASE program = "spdycli" /\ frame.type = "data" /\ DataChunk(t, frame)
  BY <1>0, <1>1, <1>4, StepData
<1>5. CASE program = "spdycli" /\ PushChunk(t, frame)
  BY <1>0, <1>1, <1>5, StepPush
<1>6. CASE program = "scalecli" /\ scale_data_chunk(t, frame)
  <2> DEFINE r == scale_submit_pushack(scale_pushack_sender, frame.push)
  <2>1. r \in AnyRequest /\ r.kind = "ack"
    <3>1. <<global.gUri, 0>> \in Ids
      <4>1. global.gUri \in Nat
        BY <1>0, Names
      <4> QED
        BY <4>1 DEF Ids
    <3>2. r = [kind |-> "ack", clientId |-> <<global.gUri, 0>>, pushId |-> None, push |-> frame.push]
      BY DEF scale_submit_pushack, scale_pushack_sender, Request
    <3> HIDE DEF r
    <3> QED
      BY <1>2, <3>1, <3>2 DEF AnyRequest, Kinds, AnyPushId
  <2>2. \/ session' = [session EXCEPT ![t] = s]
        \/ session' = [session EXCEPT ![t] = Queued(s, r)]
    BY <1>6 DEF scale_data_chunk
  <2> HIDE DEF r
  <2>3. /\ ClientInv(t, th[t], Queued(s, r), f, srv[t]) /\ Queued(s, r) \in AnySession
        /\ Queued(s, r).pushes = s.pushes
    BY <1>0, <1>1, <2>1, AppendedRequest
  <2> QED
    BY <1>0, <1>1, <1>3, <1>6, <2>2, <2>3 DEF scale_data_chunk
<1>7. CASE program = "spdycli" /\ frame.type = "push" /\ on_ctrl_recv_callback(t, frame)
  <2> DEFINE q == [s EXCEPT !.assoc = frame.id, !.pushes = s.pushes \cup {frame.push}]
  <2>1. /\ q \in AnySession /\ q.queue = s.queue /\ q.streams = s.streams /\ q.open = s.open
        /\ q.pushes = s.pushes \cup {frame.push} /\ q.assoc = frame.id
    BY <1>0, <1>2 DEF AnySession
  <2>2. session' = [session EXCEPT ![t] = q]
    BY <1>0, <1>7 DEF on_ctrl_recv_callback, IndInv, Typed
  <2> HIDE DEF q
  <2>3. ClientInv(t, th[t], q, f, srv[t])
    <3>1. q.pushes \subseteq 1 .. MaxPushes[mode][t] /\ ListenStream(s, q.assoc)
      BY <1>1, <1>7, <2>1 DEF ClientInv, PushInv
    <3> QED
      BY <1>0, <1>1, <2>1, <3>1, StreamsChange
  <2> QED
    BY <1>3, <1>7, <2>1, <2>2, <2>3 DEF on_ctrl_recv_callback
<1>8. CASE program = "scalecli" /\ frame.type = "push" /\ scale_on_ctrl_recv(t, frame)
  <2> DEFINE q == [s EXCEPT !.pushes = s.pushes \cup {frame.push}]
  <2>1. CASE s.goaway
    <3>1. session' = [session EXCEPT ![t] = s]
      BY <1>8, <2>1 DEF scale_on_ctrl_recv, IndInv, Typed
    <3> QED
      BY <1>0, <1>1, <1>3, <1>8, <2>1, <3>1 DEF scale_on_ctrl_recv
  <2>2. CASE ~s.goaway
    <3>1. /\ q \in AnySession /\ q.queue = s.queue /\ q.streams = s.streams /\ q.open = s.open
          /\ q.pushes = s.pushes \cup {frame.push}
      BY <1>0, <1>2 DEF AnySession
    <3>2. session' = [session EXCEPT ![t] = q]
      BY <1>0, <1>8, <2>2 DEF scale_on_ctrl_recv, IndInv, Typed
    <3> HIDE DEF q
    <3>3. ClientInv(t, th[t], q, f, srv[t])
      <4>1. q.pushes \subseteq 1 .. MaxPushes[mode][t]
        BY <1>1, <1>8, <3>1 DEF ClientInv, PushInv
      <4> QED
        BY <1>0, <1>1, <1>8, <3>1, <4>1, StreamsChange
    <3>4. frame.id = 1
      <4>1. PICK k \in DOMAIN s.streams : s.streams[k] = "listen" /\ frame.id = 2 * k - 1
        BY <1>1, <1>8 DEF ListenStream
      <4>2. k = 1
        BY <1>1, <1>8, <4>1 DEF ClientInv, QueueInv, ComesFirst
      <4> QED
        BY <4>1, <4>2
    <3> QED
      BY <1>2, <1>3, <1>8, <2>2, <3>1, <3>2, <3>3, <3>4 DEF scale_on_ctrl_recv
  <2> QED
    BY <2>1, <2>2
<1>9. CASE StreamClosed(t, frame)
  <2> DEFINE q == IF program = "spdycli" THEN on_stream_close_callback(s, frame.id)
                  ELSE scale_on_stream_close(s, frame.id)
  <2>1. /\ q \in AnySession /\ q.queue = s.queue /\ q.streams = s.streams
        /\ q.open \subseteq s.open /\ q.pushes = s.pushes /\ q.assoc = s.assoc
    BY <1>0 DEF AnySession, on_stream_close_callback, scale_on_stream_close
  <2>2. session' = [session EXCEPT ![t] = q]
    BY <1>9 DEF StreamClosed
  <2> HIDE DEF q
  <2>3. ClientInv(t, th[t], q, f, srv[t])
    <3>1. /\ q.pushes \subseteq 1 .. MaxPushes[mode][t]
          /\ program = "spdycli" /\ q.pushes # {} => ListenStream(s, q.assoc)
      BY <1>1, <2>1 DEF ClientInv, PushInv
    <3> QED
      BY <1>0, <1>1, <2>1, <3>1, StreamsChange
  <2> QED
    BY <1>3, <1>9, <2>1, <2>2, <2>3 DEF StreamClosed
<1> QED
  BY <1>4, <1>5, <1>6, <1>7, <1>8, <1>9 DEF RecvFrame, frame

\* session_send sends a request.
LEMMA StepSend ==
  ASSUME IndInv, NEW t \in Threads, SendFrame(t)
  PROVE  IndInv'
<1> DEFINE s == session[t]
           r == Head(s.queue)
           n == IF r.kind \in {"register", "refresh"} THEN th[t].issued + 1 ELSE th[t].issued
           p == [th[t] EXCEPT !.issued = n]
<1>0. /\ th[t] \in AnyThread /\ s \in AnySession /\ inbox[t] \in Seq(AnyFrame)
      /\ th[t].pc = "loop" /\ s.queue # <<>> /\ ClientInv(t, th[t], s, inbox[t], srv[t])
      /\ UNCHANGED <<config, process, global, inbox, srv>> /\ srv[t] \in AnyServer
  BY DEF IndInv, Typed, SendFrame, InLoop
<1>1. /\ p \in AnyThread /\ Opened(s) \in AnySession
      /\ ClientInv(t, p, Opened(s), inbox[t], srv[t]) /\ Opened(s).pushes = s.pushes
  BY <1>0, SentRequest
<1>2. session' = [session EXCEPT ![t] = Opened(s)] /\ th' = [th EXCEPT ![t] = p]
  BY <1>0 DEF SendFrame, IndInv, Typed
<1> HIDE DEF r, p
<1>3. /\ session' \in [Threads -> AnySession] /\ session'[t] = Opened(s)
      /\ th' \in [Threads -> AnyThread] /\ th'[t] = p
      /\ \A u \in Threads \ {t} : session'[u] = session[u] /\ th'[u] = th[u]
  BY <1>1, <1>2 DEF IndInv, Typed
<1>4. /\ global' \in [gUri : Threads, assoc : Nat] /\ global' = global
      /\ program = "scalecli" /\ s.pushes # {} => global.assoc = 1
  BY <1>0 DEF IndInv, Typed, SharedInv
<1> QED
  BY <1>0, <1>1, <1>3, <1>4, OneClient DEF IndInv, Typed

\* submitPingOrRefresh
LEMMA StepPing ==
  ASSUME IndInv, NEW t \in Threads, submitPingOrRefresh(t)
  PROVE  IndInv'
<1> DEFINE r == Request("ping", None, None)
<1>0. /\ th[t] \in AnyThread /\ session[t] \in AnySession /\ inbox[t] \in Seq(AnyFrame)
      /\ th[t].pc = "loop" /\ ClientInv(t, th[t], session[t], inbox[t], srv[t])
      /\ UNCHANGED <<config, srv, th, global>>
      /\ process' \in {"main", "joining", "exited", "crashed"} /\ srv[t] \in AnyServer
  BY DEF IndInv, Typed, submitPingOrRefresh, InLoop
<1>1. r \in AnyRequest /\ r.kind = "ping"
  BY DEF Request, AnyRequest, Kinds, AnyPushId
<1>2. session' = [session EXCEPT ![t] = Queued(session[t], r)]
  BY DEF submitPingOrRefresh
<1>3. inbox' = [inbox EXCEPT ![t] = inbox[t]]
  BY DEF submitPingOrRefresh, IndInv, Typed
<1> HIDE DEF r
<1>4. /\ ClientInv(t, th[t], Queued(session[t], r), inbox[t], srv[t])
      /\ Queued(session[t], r) \in AnySession /\ Queued(session[t], r).pushes = session[t].pushes
  BY <1>0, <1>1, AppendedRequest
<1> QED
  BY <1>0, <1>2, <1>3, <1>4, StepSession

\* The server sends a frame: a push only on a listen stream, whole ids only when stream 1
\* has no answer yet.
LEMMA StepFrame ==
  ASSUME IndInv, NEW t \in Threads, th[t].pc = "loop", NEW frame \in AnyFrame,
         Len(inbox[t]) < MaxFrames, inbox' = [inbox EXCEPT ![t] = Append(inbox[t], frame)],
         UNCHANGED <<config, process, global, session>>,
         NEW v \in AnyServer, srv' = [srv EXCEPT ![t] = v],
         srv[t].answered \subseteq v.answered, frame.body = "ids" => 1 \notin srv[t].answered,
         frame.body \in {"ids", "cut", "rest"} => 1 \in v.answered,
         \/ UNCHANGED th /\ frame.type # "push"
         \/ /\ th' = [th EXCEPT ![t].pushed = @ + 1] /\ th[t].pushed < MaxPushes[mode][t]
            /\ frame.push = th[t].pushed + 1 /\ ListenStream(session[t], frame.id)
  PROVE  IndInv'
<1> DEFINE f == Append(inbox[t], frame)
<1>0. /\ th[t] \in AnyThread /\ session[t] \in AnySession /\ inbox[t] \in Seq(AnyFrame)
      /\ ClientInv(t, th[t], session[t], inbox[t], srv[t]) /\ srv[t] \in AnyServer
      /\ inbox' = [inbox EXCEPT ![t] = f] /\ mode \in Modes
  BY DEF IndInv, Typed
<1>2. MaxPushes[mode][t] \in Nat /\ th[t].pushed \in Nat
  BY <1>0, SpdyClientAssumption DEF AnyThread
<1>3. /\ th' \in [Threads -> AnyThread] /\ th'[t].pc = th[t].pc
      /\ th'[t].clientId = th[t].clientId /\ th'[t].pushId = th[t].pushId
      /\ th'[t].retries = th[t].retries /\ th'[t].issued = th[t].issued
      /\ th'[t].pushed <= MaxPushes[mode][t]
      /\ \A u \in Threads \ {t} : th'[u] = th[u]
  <2>1. CASE UNCHANGED th
    BY <1>0, <2>1 DEF IndInv, Typed, ClientInv, PushInv
  <2>2. CASE th' = [th EXCEPT ![t].pushed = @ + 1] /\ th[t].pushed < MaxPushes[mode][t]
    <3> DEFINE n == th[t].pushed + 1
    <3>1. n \in Nat /\ n <= MaxPushes[mode][t] /\ th' = [th EXCEPT ![t].pushed = n]
      BY <1>2, <2>2
    <3> HIDE DEF n
    <3> QED
      BY <1>0, <3>1 DEF IndInv, Typed, AnyThread
  <2> QED
    BY <2>1, <2>2
<1>4. frame.type = "push" => /\ frame.push \in 1 .. MaxPushes[mode][t]
                             /\ ListenStream(session[t], frame.id)
  BY <1>2
<1>5. ClientInv(t, th[t], session[t], f, v) /\ f \in Seq(AnyFrame)
  BY <1>0, <1>4, FrameArrives
<1> HIDE DEF f
<1>6. IdsInv(th'[t]) /\ IssueInv(t, th'[t], session[t]) /\ QueueInv(th'[t], session[t])
  BY <1>3, <1>5 DEF ClientInv, IdsInv, IssueInv, QueueInv
<1>7. PushInv(t, th'[t], session[t], f) /\ AnswerInv(th'[t], session[t], f, v)
  BY <1>3, <1>5 DEF ClientInv, PushInv, AnswerInv
<1>8. /\ inbox' \in [Threads -> Seq(AnyFrame)] /\ inbox'[t] = f
      /\ srv' \in [Threads -> AnyServer] /\ srv'[t] = v
      /\ \A u \in Threads \ {t} : inbox'[u] = inbox[u] /\ srv'[u] = srv[u]
  BY <1>0, <1>5 DEF IndInv, Typed
<1>9. /\ global' \in [gUri : Threads, assoc : Nat] /\ global' = global
      /\ program = "scalecli" /\ session[t].pushes # {} => global.assoc = 1
  BY <1>0 DEF IndInv, Typed, SharedInv
<1>10. ClientInv(t, th'[t], session'[t], inbox'[t], srv'[t])
  BY <1>0, <1>6, <1>7, <1>8 DEF ClientInv
<1>11. /\ process' \in {"main", "joining", "exited", "crashed"} /\ session' \in [Threads -> AnySession]
       /\ \A u \in Threads \ {t} : th'[u] = th[u] /\ session'[u] = session[u]
  BY <1>0, <1>3 DEF IndInv, Typed
<1> QED
  BY <1>0, <1>3, <1>8, <1>9, <1>10, <1>11, OneClient

\* The streams of a session by their ids.
LEMMA StreamOf ==
  ASSUME IndInv, NEW t \in Threads, NEW id \in StreamIds(t)
  PROVE  /\ id \in Nat
         /\ \E k \in DOMAIN session[t].streams : id = 2 * k - 1 /\ Kind(t, id) = session[t].streams[k]
<1>1. PICK k \in DOMAIN session[t].streams : id = 2 * k - 1
  BY DEF StreamIds
<1>2. k \in Nat /\ k >= 1
  <2>1. session[t].streams \in Seq(Kinds)
    BY DEF IndInv, Typed, AnySession
  <2> QED
    BY <2>1
<1>3. (id + 1) \div 2 = k /\ id \in Nat
  BY <1>1, <1>2
<1> QED
  BY <1>1, <1>3 DEF Kind

\* The server.
LEMMA StepServer ==
  ASSUME IndInv, NEW t \in Threads, Server(t)
  PROVE  IndInv'
<1>0. /\ th[t] \in AnyThread /\ session[t] \in AnySession /\ srv[t] \in AnyServer
      /\ srv \in [Threads -> AnyServer]
      /\ \A id \in StreamIds(t) : id \in Nat
      /\ \A push \in srv[t].announced : push \in Nat
  <2>1. th[t] \in AnyThread /\ session[t] \in AnySession /\ srv \in [Threads -> AnyServer]
    BY DEF IndInv, Typed
  <2> QED
    BY <2>1, StreamOf DEF AnyServer
<1>1. ASSUME NEW id \in StreamIds(t), NEW body \in {"ids", "cut", "error", "rest"},
             ServerAnswer(t, id, body)
      PROVE  IndInv'
  <2> DEFINE e == IF body = "rest" THEN srv[t].ended \cup {id} ELSE srv[t].ended
             v == [srv[t] EXCEPT !.answered = srv[t].answered \cup {id}, !.ended = e]
             frame == [type |-> "data", id |-> id, push |-> 0, body |-> body]
  <2>1. /\ th[t].pc = "loop" /\ Len(inbox[t]) < MaxFrames
        /\ inbox' = [inbox EXCEPT ![t] = Append(inbox[t], frame)]
        /\ UNCHANGED <<config, process, global, session>>
        /\ srv' = [srv EXCEPT ![t] = v] /\ UNCHANGED th
    BY <1>0, <1>1 DEF ServerAnswer, InLoop, Frame
  <2>2. v \in AnyServer /\ v.answered = srv[t].answered \cup {id}
    <3>1. e \subseteq Nat
      BY <1>0 DEF AnyServer
    <3> HIDE DEF e
    <3> QED
      BY <1>0, <3>1 DEF AnyServer
  <2>3. frame \in AnyFrame /\ frame.type = "data" /\ frame.body = body
    BY <1>0, <1>1 DEF AnyFrame
  <2>4. body \in {"ids", "cut", "rest"} => id = 1
    <3>1. body \in {"ids", "cut", "rest"} => Kind(t, id) \in {"register", "refresh"}
      BY <1>1 DEF ServerAnswer
    <3> QED
      BY <1>1, <3>1, StreamOf DEF IndInv, ClientInv, QueueInv, ComesFirst
  <2>5. body = "ids" => id \notin srv[t].answered
    BY <1>1 DEF ServerAnswer
  <2> HIDE DEF v, e, frame
  <2>6. /\ srv[t].answered \subseteq v.answered /\ (frame.body = "ids" => 1 \notin srv[t].answered)
        /\ frame.body \in {"ids", "cut", "rest"} => 1 \in v.answered
        /\ frame.type # "push"
    BY <2>2, <2>3, <2>4, <2>5
  <2> QED
    BY <2>1, <2>2, <2>3, <2>6, StepFrame
<1>2. ASSUME NEW id \in StreamIds(t), ServerPush(t, id)
      PROVE  IndInv'
  <2> DEFINE n == th[t].pushed + 1
             v == [srv[t] EXCEPT !.announced = srv[t].announced \cup {n}]
             frame == [type |-> "push", id |-> id, push |-> n, body |-> "none"]
  <2>1. /\ th[t].pc = "loop" /\ Len(inbox[t]) < MaxFrames
        /\ inbox' = [inbox EXCEPT ![t] = Append(inbox[t], frame)]
        /\ UNCHANGED <<config, process, global, session>>
        /\ n \in Nat /\ th[t].pushed < MaxPushes[mode][t]
        /\ th' = [th EXCEPT ![t].pushed = @ + 1] /\ srv' = [srv EXCEPT ![t] = v]
    BY <1>0, <1>2 DEF ServerPush, InLoop, AnyThread, Frame
  <2>2. v \in AnyServer /\ v.answered = srv[t].answered
    BY <1>0, <2>1 DEF AnyServer
  <2>3. /\ frame \in AnyFrame /\ frame.id = id /\ frame.push = th[t].pushed + 1
        /\ frame.body = "none"
    BY <1>0, <1>2, <2>1 DEF AnyFrame
  <2>4. ListenStream(session[t], id)
    BY <1>2, StreamOf DEF ServerPush, ListenStream
  <2> HIDE DEF v, frame, n
  <2>5. /\ srv[t].answered \subseteq v.answered /\ (frame.body = "ids" => 1 \notin srv[t].answered)
        /\ frame.body \in {"ids", "cut", "rest"} => 1 \in v.answered
    BY <2>2, <2>3
  <2> QED
    BY <2>1, <2>2, <2>3, <2>4, <2>5, StepFrame
<1>3. ASSUME NEW frame \in AnyFrame, frame.type # "push", frame.body \notin {"ids", "cut", "rest"},
             NEW v \in AnyServer, v.answered = srv[t].answered, th[t].pc = "loop",
             Len(inbox[t]) < MaxFrames, inbox' = [inbox EXCEPT ![t] = Append(inbox[t], frame)],
             UNCHANGED <<config, process, global, session, th>>, srv' = [srv EXCEPT ![t] = v]
      PROVE  IndInv'
  BY <1>3, StepFrame
<1>4. ASSUME NEW id \in StreamIds(t), ServerClose(t, id)
      PROVE  IndInv'
  <2> DEFINE v == [srv[t] EXCEPT !.closing = srv[t].closing \cup {id}]
             frame == [type |-> "close", id |-> id, push |-> 0, body |-> "none"]
  <2>1. /\ th[t].pc = "loop" /\ Len(inbox[t]) < MaxFrames
        /\ inbox' = [inbox EXCEPT ![t] = Append(inbox[t], frame)]
        /\ UNCHANGED <<config, process, global, session, th>> /\ srv' = [srv EXCEPT ![t] = v]
    BY <1>0, <1>4 DEF ServerClose, InLoop, Frame
  <2>2. v \in AnyServer /\ v.answered = srv[t].answered
    BY <1>0 DEF AnyServer
  <2>3. /\ frame \in AnyFrame /\ frame.type # "push"
        /\ frame.body \notin {"ids", "cut", "rest"}
    BY <1>0, <1>4 DEF AnyFrame
  <2> HIDE DEF v, frame
  <2> QED
    BY <1>3, <2>1, <2>2, <2>3
<1>5. ASSUME NEW push \in srv[t].announced, NEW body \in {"msg", "diehard", "empty"},
             ServerPushData(t, push, body)
      PROVE  IndInv'
  <2> DEFINE v == [srv[t] EXCEPT !.announced = srv[t].announced \ {push}]
             frame == [type |-> "pdata", id |-> 0, push |-> push, body |-> body]
  <2>1. /\ th[t].pc = "loop" /\ Len(inbox[t]) < MaxFrames
        /\ inbox' = [inbox EXCEPT ![t] = Append(inbox[t], frame)]
        /\ UNCHANGED <<config, process, global, session, th>> /\ srv' = [srv EXCEPT ![t] = v]
    BY <1>0, <1>5 DEF ServerPushData, InLoop, Frame
  <2>2. v \in AnyServer /\ v.answered = srv[t].answered
    BY <1>0 DEF AnyServer
  <2>3. /\ frame \in AnyFrame /\ frame.type # "push"
        /\ frame.body \notin {"ids", "cut", "rest"}
    BY <1>0, <1>5 DEF AnyFrame
  <2> HIDE DEF v, frame
  <2> QED
    BY <1>3, <2>1, <2>2, <2>3
<1>6. CASE ServerEof(t)
  <2> DEFINE frame == [type |-> "eof", id |-> 0, push |-> 0, body |-> "none"]
  <2>1. /\ th[t].pc = "loop" /\ Len(inbox[t]) < MaxFrames
        /\ inbox' = [inbox EXCEPT ![t] = Append(inbox[t], frame)]
        /\ UNCHANGED <<config, process, global, session, th>> /\ srv' = [srv EXCEPT ![t] = srv[t]]
    BY <1>0, <1>6 DEF ServerEof, InLoop, Frame
  <2>2. /\ frame \in AnyFrame /\ frame.type # "push"
        /\ frame.body \notin {"ids", "cut", "rest"}
    BY DEF AnyFrame
  <2> HIDE DEF frame
  <2> QED
    BY <1>0, <1>3, <2>1, <2>2
<1> QED
  BY <1>1, <1>2, <1>4, <1>5, <1>6 DEF Server

\* Every step keeps the invariant.
LEMMA StepInv == IndInv /\ [Next]_vars => IndInv'
<1> SUFFICES ASSUME IndInv, [Next]_vars PROVE IndInv'
  OBVIOUS
<1>1. CASE UNCHANGED vars
  BY <1>1, StepEnds DEF vars, config, IndInv, Typed
<1>2. CASE JoinAll
  BY <1>2, StepEnds DEF JoinAll
<1>3. ASSUME NEW t \in Threads, CreateThread(t) PROVE IndInv'
  BY <1>3, StepCreate
<1>4. ASSUME NEW t \in Threads, initSpdySession(t) \/ fetch_uri(t) PROVE IndInv'
  BY <1>4, StepConnect
<1>5. ASSUME NEW t \in Threads, retryBackoff(t) PROVE IndInv'
  BY <1>5, StepBackoff
<1>6. ASSUME NEW t \in Threads, RecvFrame(t) PROVE IndInv'
  BY <1>6, StepRecv
<1>7. ASSUME NEW t \in Threads, exec_io(t) \/ LoopEnds(t) PROVE IndInv'
  BY <1>7, StepOver DEF exec_io, LoopEnds, InLoop
<1>8. ASSUME NEW t \in Threads, scale_exec_io(t) PROVE IndInv'
  BY <1>8, StepEnds DEF scale_exec_io, ProcessOver
<1>9. ASSUME NEW t \in Threads, SendFrame(t) PROVE IndInv'
  BY <1>9, StepSend
<1>10. ASSUME NEW t \in Threads, submitPingOrRefresh(t) PROVE IndInv'
  BY <1>10, StepPing
<1>11. ASSUME NEW t \in Threads, Server(t) PROVE IndInv'
  BY <1>11, StepServer
<1> QED
  BY <1>1, <1>2, <1>3, <1>4, <1>5, <1>6, <1>7, <1>8, <1>9, <1>10, <1>11 DEF Next, ThreadStep

-----------------------------------------------------------------------------
(* The theorems.                                                           *)

\* The inductive invariant holds in every reachable state, for both programs, every
\* mode, and any number of threads, reconnections, pushes and unread frames.
THEOREM Invariance == Spec => []IndInv
<1> QED
  BY InitInv, StepInv, PTL DEF Spec

\* A bounded number of registrations per client is enough to name every id; the open
\* streams of a session are among those it has used (ThreadUri, spdylay session).
THEOREM ClientTypes == Spec => []TypeOK
<1>1. IndInv => TypeOK
  <2> SUFFICES ASSUME IndInv PROVE TypeOK
    OBVIOUS
  <2>1. ASSUME NEW t \in Threads
        PROVE  /\ th[t].pc \in {"none", "connect", "loop", "backoff", "exited"}
               /\ th[t].retries \in 0 .. MaxRetries[t] + 1
               /\ th[t].pushed \in 0 .. MaxPushes[mode][t]
    <3>1. th[t] \in AnyThread /\ mode \in Modes
      BY DEF IndInv, Typed
    <3>2. /\ th[t].retries \in Nat /\ th[t].pushed \in Nat
          /\ th[t].pc \in {"none", "connect", "loop", "backoff", "exited"}
          /\ MaxRetries[t] \in Nat /\ MaxPushes[mode][t] \in Nat
      BY <3>1, Names, SpdyClientAssumption DEF AnyThread
    <3>3. th[t].retries <= MaxRetries[t] + 1 /\ th[t].pushed <= MaxPushes[mode][t]
      BY DEF IndInv, ClientInv, IssueInv, PushInv
    <3> QED
      BY <3>2, <3>3
  <2>2. ASSUME NEW t \in Threads
        PROVE  /\ th[t].clientId \in ClientIds(t) \cup {None}
               /\ th[t].pushId \in PushIds(t) \cup {None, Cut}
               /\ session[t].open \subseteq StreamIds(t)
               /\ session[t].pushes \subseteq 1 .. MaxPushes[mode][t]
               /\ Len(inbox[t]) <= MaxFrames
    BY DEF IndInv, ClientInv, IssueInv, QueueInv, PushInv, StreamIds
  <2> QED
    BY <2>1, <2>2 DEF TypeOK, IndInv, Typed
<1> QED
  BY <1>1, Invariance, PTL

\* A session of a client with a whole push id listens exactly once, whatever chunks,
\* answers and pushes arrive in it (updateClientPushId, initSpdySession, fetch_uri).
THEOREM ListensOnce == Spec => []ExactlyOneListen
<1>1. IndInv => ExactlyOneListen
  <2> SUFFICES ASSUME IndInv, NEW t \in Threads, InLoop(t), Whole(th[t].pushId)
               PROVE  Count(session[t].queue, LAMBDA r : r.kind = "listen")
                        + Count(session[t].streams, LAMBDA kind : kind = "listen") = 1
    BY DEF ExactlyOneListen
  <2> DEFINE q == {k \in DOMAIN session[t].queue : session[t].queue[k].kind = "listen"}
             s == {k \in DOMAIN session[t].streams : session[t].streams[k] = "listen"}
  <2>1. OneListen(session[t])
    BY DEF IndInv, ClientInv, QueueInv, InLoop
  <2>2. \/ s = {} /\ \E k \in DOMAIN session[t].queue : q = {k}
        \/ q = {} /\ \E k \in DOMAIN session[t].streams : s = {k}
    BY <2>1 DEF OneListen
  <2>3. Cardinality(q) + Cardinality(s) = 1
    <3> HIDE DEF q, s
    <3>1. Cardinality({}) = 0 /\ \A k : Cardinality({k}) = 1
      BY FS_EmptySet, FS_Singleton
    <3>2. CASE s = {} /\ \E k \in DOMAIN session[t].queue : q = {k}
      <4>1. Cardinality(q) = 1 /\ Cardinality(s) = 0
        BY <3>1, <3>2, Zenon
      <4> QED
        BY <4>1
    <3>3. CASE q = {} /\ \E k \in DOMAIN session[t].streams : s = {k}
      <4>1. Cardinality(q) = 0 /\ Cardinality(s) = 1
        BY <3>1, <3>3, Zenon
      <4> QED
        BY <4>1
    <3> QED
      BY <2>2, <3>2, <3>3
  <2> QED
    BY <2>3 DEF Count
<1> QED
  BY <1>1, Invariance, PTL

\* initSpdySession registers or refreshes only without a push id, as the first request
\* of a session, and no part of a push id arrives before that request has left the queue.
THEOREM RegistersOnce == Spec => []NeverRegistersAgain
<1>1. IndInv => NeverRegistersAgain
  <2> SUFFICES ASSUME IndInv, NEW t \in Threads, th[t].pushId # None
               PROVE  Count(session[t].queue, LAMBDA r : r.kind \in {"register", "refresh"}) = 0
    BY DEF NeverRegistersAgain
  <2>1. {k \in DOMAIN session[t].queue : session[t].queue[k].kind \in {"register", "refresh"}} = {}
    BY DEF IndInv, ClientInv, QueueInv
  <2> QED
    BY <2>1, FS_EmptySet DEF Count
<1> QED
  BY <1>1, Invariance, PTL

\* A push is looked up under the listen request of its own session: a session of a client
\* with a whole push id has only one, and that of every client of scalecli, which keep it
\* in one global, is stream 1 (on_ctrl_recv_callback, on_data_chunk_recv_callback).
THEOREM PushLookup == Spec => []PushFindsListen
<1>1. IndInv => PushFindsListen
  <2> SUFFICES ASSUME IndInv, NEW t \in Threads, InLoop(t), session[t].pushes # {},
                      Whole(th[t].pushId), NEW id \in session[t].open, Kind(t, id) = "listen"
               PROVE  Assoc(t) = id
    BY DEF PushFindsListen
  <2>1. id \in StreamIds(t)
    BY DEF IndInv, ClientInv, QueueInv, StreamIds
  <2>2. PICK k \in DOMAIN session[t].streams : id = 2 * k - 1 /\ session[t].streams[k] = "listen"
    BY <2>1, StreamOf
  <2>3. CASE program = "spdycli"
    <3>1. PICK j \in DOMAIN session[t].streams :
             session[t].streams[j] = "listen" /\ session[t].assoc = 2 * j - 1
      BY <2>3 DEF IndInv, ClientInv, PushInv, ListenStream
    <3>2. OneListen(session[t])
      BY DEF IndInv, ClientInv, QueueInv, InLoop
    <3>3. j = k
      BY <2>2, <3>1, <3>2 DEF OneListen
    <3> QED
      BY <2>2, <2>3, <3>1, <3>3 DEF Assoc
  <2>4. CASE program = "scalecli"
    <3>1. k = 1 /\ global.assoc = 1
      BY <2>2, <2>4 DEF IndInv, SharedInv, ClientInv, QueueInv, ComesFirst
    <3> QED
      BY <2>2, <2>4, <3>1 DEF Assoc
  <2> QED
    BY <2>3, <2>4 DEF IndInv, Typed
<1> QED
  BY <1>1, Invariance, PTL

=============================================================================
