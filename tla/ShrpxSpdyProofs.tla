--------------------------- MODULE ShrpxSpdyProofs ---------------------------
(***************************************************************************)
(* For any number of streams and backend connections, any window, buffer    *)
(* limits and amounts of data, and every order of frames, answers, failures *)
(* and resets: the pointers between downstreams and connections are alive,  *)
(* only a connection whose answer was read is pooled, a backend that is not *)
(* read is read again, and flow control conserves its credit.              *)
(***************************************************************************)
EXTENDS ShrpxSpdy, TLAPS

-----------------------------------------------------------------------------
(* The inductive invariant, on a record of the whole state.                *)

StateType ==
    [pc : {"loop", "recv", "read", "send", "deleted"}, reading : Conns \cup {None},
     stream : [Streams -> StreamType], down : [Streams -> DownstreamType \cup {None}],
     conn : [Conns -> ConnType], pool : SUBSET Conns, out : Nat]

\* How far a response has been forwarded is how far the backend's answer was read.
Match(response_state, backend) ==
    \/ response_state = "INITIAL" /\ backend = "silent"
    \/ response_state = "HEADER_COMPLETE" /\ backend = "headed"
    \/ response_state = "MSG_COMPLETE" /\ backend \in {"ended", "interim"}

\* The answers still to be read on a connection: without interim heads exactly that of the
\* request it carries, and at least that while the backend is in the middle of it.
Accounted(x) ==
    /\ x.backend \in {"silent", "interim", "headed"} => x.owed > 0
    /\ x.backend = "interim" => x.interim
    /\ x.interim \/ x.owed = IF x.backend \in {"silent", "headed"} THEN 1 ELSE 0

\* A stream has a downstream exactly while it is open; the downstream's connection points
\* back, and the window is divided between the client, the downstream and the update.
StreamGood(s, i) ==
    LET x == s.stream[i]
        d == s.down[i]
    IN  /\ d # None <=> x.state = "open"
        /\ x.state = "idle" => x.credit = InitialWindow /\ x.update = 0
        /\ d # None =>
              /\ d.dconn # None => /\ s.conn[d.dconn].downstream = i
                                   /\ Match(d.response_state, s.conn[d.dconn].backend)
              /\ d.paused => d.body > 0
              /\ x.credit + d.window + x.update = InitialWindow

\* A connection is attached, pooled between two messages, or free.
ConnGood(s, c) ==
    LET i == s.conn[c].downstream
    IN  /\ i # None => s.down[i] # None /\ s.down[i].dconn = c /\ c \notin s.pool
        /\ c \in s.pool => s.conn[c].backend \in {"ended", "interim"}
        /\ Accounted(s.conn[c])

\* The connection that is being read is attached.
ReadGood(s) == s.pc = "read" => s.reading \in Conns /\ s.conn[s.reading].downstream # None

Good(s) == /\ s \in StateType /\ ReadGood(s)
           /\ \A i \in Streams : StreamGood(s, i)
           /\ \A c \in Conns : ConnGood(s, c)

IndInv == Good(State)

-----------------------------------------------------------------------------
(* The parts of the state.                                                 *)

\* What s \in StateType says of the fields of s.
LEMMA Fields ==
  ASSUME NEW s \in StateType
  PROVE  /\ s.stream \in [Streams -> StreamType]
         /\ s.down \in [Streams -> DownstreamType \cup {None}]
         /\ s.conn \in [Conns -> ConnType] /\ s.pool \subseteq Conns /\ s.out \in Nat
         /\ s.pc \in {"loop", "recv", "read", "send", "deleted"} /\ s.reading \in Conns \cup {None}
         /\ s = [pc |-> s.pc, reading |-> s.reading, stream |-> s.stream, down |-> s.down,
                 conn |-> s.conn, pool |-> s.pool, out |-> s.out]
BY DEF StateType

\* A deleted connection owes nothing.
LEMMA FreeFacts == FreeConn \in ConnType /\ FreeConn.downstream = None /\ Accounted(FreeConn)
BY DEF FreeConn, ConnType, Accounted

\* A connection whose answers are left alone stays accounted for.
LEMMA AccountKept ==
  ASSUME NEW x, Accounted(x), NEW y, y.backend = x.backend, y.owed = x.owed, y.interim = x.interim
  PROVE  Accounted(y)
BY DEF Accounted

\* A step that touches stream i and connection c, which is free, pooled or that of i.
LEMMA Change ==
  ASSUME NEW s, Good(s), NEW t \in StateType, NEW i \in Streams \cup {None}, NEW c \in Conns \cup {None},
         \A j \in Streams \ {i} : t.stream[j] = s.stream[j] /\ t.down[j] = s.down[j],
         \A e \in Conns \ {c} : t.conn[e] = s.conn[e] /\ (e \in t.pool <=> e \in s.pool),
         c # None => s.conn[c].downstream \in {None, i},
         i # None /\ s.down[i] # None => s.down[i].dconn \in {None, c},
         i # None => StreamGood(t, i), c # None => ConnGood(t, c), ReadGood(t)
  PROVE  Good(t)
<1>0. None \notin Streams /\ None \notin Conns
  BY ShrpxSpdyAssumption
<1>1. ASSUME NEW j \in Streams, j # i PROVE StreamGood(t, j)
  <2>1. StreamGood(s, j) /\ t.stream[j] = s.stream[j] /\ t.down[j] = s.down[j]
    BY <1>1 DEF Good
  <2>2. ASSUME s.down[j] # None, s.down[j].dconn # None
        PROVE  t.conn[s.down[j].dconn] = s.conn[s.down[j].dconn]
    <3>1. s.down[j].dconn \in Conns
      <4>1. s.down[j] \in DownstreamType
        BY <2>2, Fields DEF Good
      <4> QED
        BY <2>2, <4>1 DEF DownstreamType
    <3>2. s.conn[s.down[j].dconn].downstream = j
      BY <2>1, <2>2 DEF StreamGood
    <3>3. s.down[j].dconn # c
      BY <1>0, <1>1, <3>1, <3>2
    <3> QED
      BY <3>1, <3>3
  <2> QED
    BY <2>1, <2>2 DEF StreamGood
<1>2. ASSUME NEW e \in Conns, e # c PROVE ConnGood(t, e)
  <2>1. ConnGood(s, e) /\ t.conn[e] = s.conn[e] /\ (e \in t.pool <=> e \in s.pool)
    BY <1>2 DEF Good
  <2>2. ASSUME s.conn[e].downstream # None
        PROVE  t.down[s.conn[e].downstream] = s.down[s.conn[e].downstream]
    <3>1. s.conn[e].downstream \in Streams
      <4>1. s.conn[e] \in ConnType
        BY Fields DEF Good
      <4> QED
        BY <2>2, <4>1 DEF ConnType
    <3>2. s.conn[e].downstream # i
      BY <1>0, <1>2, <2>1, <2>2 DEF ConnGood
    <3> QED
      BY <3>1, <3>2
  <2> QED
    BY <2>1, <2>2 DEF ConnGood
<1>3. (\A j \in Streams : StreamGood(t, j)) /\ (\A e \in Conns : ConnGood(t, e))
  BY <1>0, <1>1, <1>2
<1> QED
  BY <1>3 DEF Good

\* The downstream of stream i becomes d, and the stream keeps its state and its credit.
Moves(s, t, i, d) ==
    /\ t \in StateType /\ t.pc = s.pc /\ t.reading = s.reading
    /\ t.conn = s.conn /\ t.pool = s.pool
    /\ \A j \in Streams \ {i} : t.stream[j] = s.stream[j] /\ t.down[j] = s.down[j]
    /\ t.down[i] = d /\ t.stream[i].state = s.stream[i].state
    /\ t.stream[i].credit = s.stream[i].credit /\ t.stream[i].update = s.stream[i].update

\* Two such changes are one.
LEMMA MovesTwice ==
  ASSUME NEW s, NEW t, NEW u, NEW i, NEW d, NEW e, Moves(s, t, i, d), Moves(t, u, i, e)
  PROVE  Moves(s, u, i, e)
BY DEF Moves

\* The session's part of stream i changes: RST_STREAM, a response or data are queued.
LEMMA StreamMoves ==
  ASSUME NEW s \in StateType, NEW i \in Streams, NEW x \in StreamType,
         x.state = s.stream[i].state, x.credit = s.stream[i].credit, x.update = s.stream[i].update
  PROVE  Moves(s, [s EXCEPT !.stream[i] = x], i, s.down[i])
<1> DEFINE t == [s EXCEPT !.stream[i] = x]
<1>1. /\ t.pc = s.pc /\ t.reading = s.reading /\ t.down = s.down /\ t.conn = s.conn
      /\ t.pool = s.pool /\ t.stream = [s.stream EXCEPT ![i] = x] /\ t \in StateType
  BY DEF StateType
<1>2. t.stream[i] = x /\ \A j \in Streams \ {i} : t.stream[j] = s.stream[j]
  BY <1>1, Fields
<1> HIDE DEF t
<1>3. Moves(s, t, i, s.down[i])
  BY <1>1, <1>2 DEF Moves
<1> QED
  BY <1>3 DEF t

\* The downstream changes.
LEMMA DownMoves ==
  ASSUME NEW s \in StateType, NEW i \in Streams, NEW d \in DownstreamType
  PROVE  Moves(s, [s EXCEPT !.down[i] = d], i, d)
<1> DEFINE t == [s EXCEPT !.down[i] = d]
<1>1. /\ t.pc = s.pc /\ t.reading = s.reading /\ t.stream = s.stream /\ t.conn = s.conn
      /\ t.pool = s.pool /\ t.down = [s.down EXCEPT ![i] = d] /\ t \in StateType
  BY DEF StateType
<1>2. t.down[i] = d /\ \A j \in Streams \ {i} : t.down[j] = s.down[j]
  BY <1>1, Fields
<1> HIDE DEF t
<1>3. Moves(s, t, i, d)
  BY <1>1, <1>2 DEF Moves
<1> QED
  BY <1>3 DEF t

\* RST_STREAM is queued.
LEMMA RstMoves ==
  ASSUME NEW s \in StateType, NEW i \in Streams
  PROVE  Moves(s, rst_stream(s, i), i, s.down[i])
<1> DEFINE x == [s.stream[i] EXCEPT !.rst = TRUE]
<1>1. s.stream[i] \in StreamType
  BY Fields
<1>2. /\ x \in StreamType /\ x.state = s.stream[i].state /\ x.credit = s.stream[i].credit
      /\ x.update = s.stream[i].update
  BY <1>1 DEF StreamType
<1>3. rst_stream(s, i) = [s EXCEPT !.stream[i] = x]
  BY DEF rst_stream
<1> QED
  BY <1>2, <1>3, StreamMoves

\* A response is queued, or refused with RST_STREAM.
LEMMA SubmitMoves ==
  ASSUME NEW s \in StateType, NEW i \in Streams
  PROVE  Moves(s, submit_response(s, i), i, s.down[i])
<1> DEFINE x == [s.stream[i] EXCEPT !.reply = "queued", !.data = "active"]
<1>1. s.stream[i] \in StreamType
  BY Fields
<1>2. /\ x \in StreamType /\ x.state = s.stream[i].state /\ x.credit = s.stream[i].credit
      /\ x.update = s.stream[i].update
  BY <1>1 DEF StreamType
<1>3. CASE s.stream[i].reply # "none"
  BY <1>3, RstMoves DEF submit_response, on_ctrl_not_send_callback
<1>4. CASE s.stream[i].reply = "none"
  <2>1. submit_response(s, i) = [s EXCEPT !.stream[i] = x]
    BY <1>1, <1>4, Fields DEF submit_response, StateType, StreamType
  <2> QED
    BY <1>2, <2>1, StreamMoves
<1> QED
  BY <1>3, <1>4

\* Deferred data are sent again.
LEMMA ResumeMoves ==
  ASSUME NEW s \in StateType, NEW i \in Streams
  PROVE  Moves(s, resume_data(s, i), i, s.down[i])
<1> DEFINE x == [s.stream[i] EXCEPT !.data = IF @ = "deferred" THEN "active" ELSE @]
<1>1. s.stream[i] \in StreamType
  BY Fields
<1>2. /\ x \in StreamType /\ x.state = s.stream[i].state /\ x.credit = s.stream[i].credit
      /\ x.update = s.stream[i].update
  BY <1>1 DEF StreamType
<1>3. resume_data(s, i) = [s EXCEPT !.stream[i] = x]
  BY DEF resume_data
<1> QED
  BY ZenonT(40), <1>2, <1>3, StreamMoves

\* error_reply: a body is put into the downstream, and the response is complete.
LEMMA ErrorMoves ==
  ASSUME NEW s \in StateType, NEW i \in Streams, s.down[i] # None
  PROVE  \E d \in DownstreamType :
            /\ Moves(s, error_reply(s, i), i, d)
            /\ d.dconn = s.down[i].dconn /\ d.window = s.down[i].window
            /\ d.response_state = "MSG_COMPLETE" /\ d.body > 0
<1> DEFINE e == [s.down[i] EXCEPT !.body = @ + 1]
           u == [s EXCEPT !.down[i] = e]
           d == [e EXCEPT !.response_state = "MSG_COMPLETE"]
           t == [u EXCEPT !.down[i] = d]
<1>1. s.down[i] \in DownstreamType
  BY Fields
<1>2. /\ e \in DownstreamType /\ e.dconn = s.down[i].dconn /\ e.window = s.down[i].window
      /\ e.body > 0
  BY <1>1 DEF DownstreamType
<1>3. [s EXCEPT !.down[i].body = @ + 1] = u
  BY <1>1, Fields DEF StateType, DownstreamType
<1>4. error_reply(s, i) = submit_response([u EXCEPT !.down[i].response_state = "MSG_COMPLETE"], i)
  BY <1>3 DEF error_reply
<1> HIDE DEF e
<1>5. Moves(s, u, i, e)
  BY <1>2, DownMoves
<1>6. u \in StateType /\ u.down[i] = e
  BY <1>5 DEF Moves
<1> HIDE DEF u
<1>7. /\ d \in DownstreamType /\ d.dconn = e.dconn /\ d.window = e.window /\ d.body = e.body
      /\ d.response_state = "MSG_COMPLETE"
  BY <1>2 DEF DownstreamType
<1>8. [u EXCEPT !.down[i].response_state = "MSG_COMPLETE"] = t
  BY <1>6, Fields DEF StateType
<1> HIDE DEF d
<1>9. Moves(s, t, i, d)
  BY <1>5, <1>6, <1>7, DownMoves, MovesTwice
<1>10. t \in StateType /\ t.down[i] = d
  BY <1>9 DEF Moves
<1> HIDE DEF t
<1>11. Moves(s, submit_response(t, i), i, d)
  BY <1>9, <1>10, SubmitMoves, MovesTwice
<1> QED
  BY <1>2, <1>4, <1>7, <1>8, <1>11

\* on_downstream_body: the downstream has one more piece, and is paused only with a body.
LEMMA BodyMoves ==
  ASSUME NEW s \in StateType, NEW i \in Streams, s.down[i] # None
  PROVE  \E d \in DownstreamType :
            /\ Moves(s, on_downstream_body(s, i), i, d)
            /\ d.dconn = s.down[i].dconn /\ d.window = s.down[i].window
            /\ d.response_state = s.down[i].response_state /\ d.body > 0
<1> DEFINE d == [s.down[i] EXCEPT !.body = @ + 1]
           t == [s EXCEPT !.down[i] = d]
           added == resume_data(t, i)
           e == [d EXCEPT !.paused = TRUE]
<1>1. s.down[i] \in DownstreamType
  BY Fields
<1>2. /\ d \in DownstreamType /\ d.dconn = s.down[i].dconn /\ d.window = s.down[i].window
      /\ d.response_state = s.down[i].response_state /\ d.body > 0
  BY <1>1 DEF DownstreamType
<1>3. [s EXCEPT !.down[i].body = @ + 1] = t
  BY <1>1, Fields DEF StateType, DownstreamType
<1>4. on_downstream_body(s, i) = IF added.down[i].body > OutThres
                                 THEN [added EXCEPT !.down[i].paused = TRUE] ELSE added
  BY <1>3 DEF on_downstream_body
<1> HIDE DEF d
<1>5. Moves(s, t, i, d)
  BY <1>2, DownMoves
<1>6. t \in StateType /\ t.down[i] = d
  BY <1>5 DEF Moves
<1> HIDE DEF t
<1>7. Moves(s, added, i, d)
  BY <1>5, <1>6, ResumeMoves, MovesTwice
<1>8. added \in StateType /\ added.down[i] = d
  BY <1>7 DEF Moves
<1> HIDE DEF added
<1>9. /\ e \in DownstreamType /\ e.dconn = d.dconn /\ e.window = d.window
      /\ e.response_state = d.response_state /\ e.body = d.body
  BY <1>2 DEF DownstreamType
<1>10. [added EXCEPT !.down[i].paused = TRUE] = [added EXCEPT !.down[i] = e]
  BY <1>8, Fields DEF StateType
<1> HIDE DEF e
<1>11. Moves(s, [added EXCEPT !.down[i] = e], i, e)
  BY <1>7, <1>8, <1>9, DownMoves, MovesTwice
<1> QED
  BY <1>2, <1>4, <1>7, <1>9, <1>10, <1>11

\* A change of an open stream that keeps the invariant.
LEMMA MovesGood ==
  ASSUME NEW s, Good(s), NEW i \in Streams, s.down[i] # None, NEW t, NEW d \in DownstreamType,
         Moves(s, t, i, d), d.dconn = s.down[i].dconn, d.window = s.down[i].window,
         d.dconn # None => Match(d.response_state, s.conn[d.dconn].backend),
         d.paused => d.body > 0
  PROVE  Good(t)
<1>1. s \in StateType /\ t \in StateType /\ StreamGood(s, i) /\ d # None
  BY NullAssumption DEF Good, Moves
<1>2. StreamGood(t, i)
  BY <1>1 DEF StreamGood, Moves
<1>3. d.dconn \in Conns \cup {None}
  BY DEF DownstreamType
<1>4. ASSUME d.dconn # None
      PROVE  ConnGood(t, d.dconn) /\ s.conn[d.dconn].downstream \in {None, i}
  <2>1. d.dconn \in Conns /\ s.conn[d.dconn].downstream = i
    BY <1>1, <1>3, <1>4 DEF StreamGood
  <2>2. ConnGood(s, d.dconn)
    BY <2>1 DEF Good
  <2>3. ConnGood(t, d.dconn)
    BY <1>1, <2>1, <2>2 DEF ConnGood, Moves
  <2> QED
    BY <2>1, <2>3
<1>5. ReadGood(t)
  BY DEF Good, ReadGood, Moves
<1>6. /\ \A j \in Streams \ {i} : t.stream[j] = s.stream[j] /\ t.down[j] = s.down[j]
      /\ \A e \in Conns \ {d.dconn} : t.conn[e] = s.conn[e] /\ (e \in t.pool <=> e \in s.pool)
  BY DEF Moves
<1> QED
  BY <1>1, <1>2, <1>3, <1>4, <1>5, <1>6, Change

\* A change of the session's part alone.
LEMMA TouchGood ==
  ASSUME NEW s, Good(s), NEW i \in Streams, s.down[i] # None, NEW t, Moves(s, t, i, s.down[i])
  PROVE  Good(t) /\ t.down[i] = s.down[i]
<1>1. s.down[i] \in DownstreamType /\ StreamGood(s, i)
  BY Fields DEF Good
<1>2. /\ s.down[i].dconn # None => Match(s.down[i].response_state, s.conn[s.down[i].dconn].backend)
      /\ s.down[i].paused => s.down[i].body > 0
  BY <1>1 DEF StreamGood
<1> QED
  BY <1>1, <1>2, MovesGood DEF Moves

\* Only the program counter and the output buffer change.
LEMMA ControlGood ==
  ASSUME NEW s, Good(s), NEW t \in StateType, t.stream = s.stream, t.down = s.down,
         t.conn = s.conn, t.pool = s.pool, ReadGood(t)
  PROVE  Good(t)
BY DEF Good, StreamGood, ConnGood

\* "delete dconn": the downstream of stream i has no connection any more.
LEMMA DeleteDconn ==
  ASSUME NEW s, Good(s), NEW i \in Streams, s.down[i] # None, s.pc # "read"
  PROVE  /\ Good(delete_dconn(s, i))
         /\ delete_dconn(s, i).down[i] \in DownstreamType
         /\ delete_dconn(s, i).down[i].dconn = None
         /\ delete_dconn(s, i).pc = s.pc
<1> DEFINE c == s.down[i].dconn
           d == [s.down[i] EXCEPT !.dconn = None]
           t == [s EXCEPT !.down[i] = d, !.conn[c] = FreeConn]
<1>1. s \in StateType /\ s.down[i] \in DownstreamType /\ StreamGood(s, i)
  BY Fields DEF Good
<1>2. CASE c = None
  BY <1>1, <1>2 DEF delete_dconn
<1>3. CASE c # None
  <2>1. c \in Conns /\ s.conn[c].downstream = i /\ ConnGood(s, c) /\ i # None
    BY <1>1, <1>3, ShrpxSpdyAssumption DEF DownstreamType, StreamGood, Good
  <2>2. c \notin s.pool
    BY <2>1 DEF ConnGood
  <2>3. FreeConn \in ConnType /\ FreeConn.downstream = None /\ Accounted(FreeConn)
    BY FreeFacts
  <2>4. /\ d \in DownstreamType /\ d.dconn = None /\ d.window = s.down[i].window
        /\ d.paused = s.down[i].paused /\ d.body = s.down[i].body /\ d # None
    BY <1>1, NullAssumption DEF DownstreamType
  <2>5. delete_dconn(s, i) = t
    BY <1>1, <1>3, Fields DEF delete_dconn, StateType
  <2> HIDE DEF d
  <2>6. /\ t.pc = s.pc /\ t.stream = s.stream /\ t.pool = s.pool
        /\ t.down = [s.down EXCEPT ![i] = d] /\ t.conn = [s.conn EXCEPT ![c] = FreeConn]
        /\ t \in StateType
    BY <1>1, <2>1, <2>3, <2>4 DEF StateType
  <2> HIDE DEF t, c
  <2>7. /\ t.down[i] = d /\ t.conn[c] = FreeConn
        /\ \A j \in Streams \ {i} : t.stream[j] = s.stream[j] /\ t.down[j] = s.down[j]
        /\ \A e \in Conns \ {c} : t.conn[e] = s.conn[e] /\ (e \in t.pool <=> e \in s.pool)
    BY <1>1, <2>1, <2>6, Fields
  <2>8. StreamGood(t, i)
    BY <1>1, <2>4, <2>6, <2>7 DEF StreamGood
  <2>9. ConnGood(t, c)
    BY <2>2, <2>3, <2>6, <2>7 DEF ConnGood
  <2>10. Good(t)
    <3>1. s.conn[c].downstream \in {None, i} /\ s.down[i].dconn \in {None, c} /\ ReadGood(t)
      BY <2>1, <2>6 DEF ReadGood, c
    <3> QED
      BY ZenonT(40), <2>1, <2>6, <2>7, <2>8, <2>9, <3>1, Change
  <2> QED
    BY <2>4, <2>5, <2>6, <2>7, <2>10
<1> QED
  BY <1>2, <1>3

-----------------------------------------------------------------------------
(* A stream closes.                                                        *)

\* ~Downstream
LEMMA DeleteFacts ==
  ASSUME NEW s \in StateType, NEW i \in Streams, s.down[i] \in DownstreamType,
         NEW c, c = s.down[i].dconn, NEW t, t = delete_downstream(s, i)
  PROVE  /\ t \in StateType /\ t.pc = s.pc /\ t.reading = s.reading /\ t.stream = s.stream
         /\ t.pool = s.pool /\ t.out = s.out /\ t.down = [s.down EXCEPT ![i] = None]
         /\ t.conn = IF c = None THEN s.conn ELSE [s.conn EXCEPT ![c] = FreeConn]
<1> DEFINE free == IF c = None THEN s.conn ELSE [s.conn EXCEPT ![c] = FreeConn]
<1>1. free \in [Conns -> ConnType]
  <2>1. c \in Conns \cup {None} /\ FreeConn \in ConnType
    BY FreeFacts DEF DownstreamType
  <2> QED
    BY <2>1, Fields
<1>2. t = [s EXCEPT !.conn = free, !.down[i] = None]
  BY DEF delete_downstream
<1> HIDE DEF free
<1>3. /\ t.pc = s.pc /\ t.reading = s.reading /\ t.stream = s.stream /\ t.pool = s.pool
      /\ t.out = s.out /\ t.down = [s.down EXCEPT ![i] = None] /\ t.conn = free
  BY <1>2 DEF StateType
<1>4. t \in StateType
  <2>1. [s.down EXCEPT ![i] = None] \in [Streams -> DownstreamType \cup {None}]
    BY Fields
  <2>2. t = [pc |-> t.pc, reading |-> t.reading, stream |-> t.stream, down |-> t.down,
             conn |-> t.conn, pool |-> t.pool, out |-> t.out]
    BY <1>2, Fields
  <2> QED
    BY <1>1, <1>3, <2>1, <2>2, Fields DEF StateType
<1> QED
  BY <1>3, <1>4 DEF free

\* The connection goes to the pool.
LEMMA DetachFacts ==
  ASSUME NEW s \in StateType, NEW i \in Streams, s.down[i] \in DownstreamType,
         NEW c \in Conns, c = s.down[i].dconn, c # None, NEW t, t = detach_downstream(s, i)
  PROVE  /\ t \in StateType /\ t.pc = s.pc /\ t.reading = s.reading /\ t.stream = s.stream
         /\ t.pool = s.pool \cup {c} /\ t.out = s.out
         /\ t.down[i] \in DownstreamType /\ t.down[i].dconn = None
         /\ t.conn[c].downstream = None /\ t.conn[c].backend = s.conn[c].backend
         /\ Accounted(s.conn[c]) => Accounted(t.conn[c])
         /\ \A j \in Streams \ {i} : t.down[j] = s.down[j]
         /\ \A e \in Conns \ {c} : t.conn[e] = s.conn[e]
<1> DEFINE d == [s.down[i] EXCEPT !.dconn = None]
           y == [s.conn[c] EXCEPT !.downstream = None, !.pieces = 0]
<1>1. /\ d \in DownstreamType /\ d.dconn = None /\ y \in ConnType /\ y.downstream = None
      /\ y.backend = s.conn[c].backend /\ y.owed = s.conn[c].owed /\ y.interim = s.conn[c].interim
  <2>1. s.conn[c] \in ConnType
    BY Fields
  <2> QED
    BY <2>1 DEF DownstreamType, ConnType
<1>2. t = [s EXCEPT !.down[i] = d, !.conn[c] = y, !.pool = @ \cup {c}]
  BY ZenonT(40), Fields DEF detach_downstream, StateType
<1> HIDE DEF d, y
<1>3. /\ t.pc = s.pc /\ t.reading = s.reading /\ t.stream = s.stream /\ t.pool = s.pool \cup {c}
      /\ t.out = s.out /\ t.down = [s.down EXCEPT ![i] = d] /\ t.conn = [s.conn EXCEPT ![c] = y]
  BY <1>2 DEF StateType
<1>4. /\ t.down \in [Streams -> DownstreamType \cup {None}] /\ t.conn \in [Conns -> ConnType]
      /\ t.pool \subseteq Conns
  BY <1>1, <1>3, Fields
<1>5. t = [pc |-> t.pc, reading |-> t.reading, stream |-> t.stream, down |-> t.down,
           conn |-> t.conn, pool |-> t.pool, out |-> t.out]
  BY <1>2, Fields
<1>6. t \in StateType
  BY <1>3, <1>4, <1>5, Fields DEF StateType
<1>7. Accounted(s.conn[c]) => Accounted(y)
  BY <1>1, AccountKept
<1> QED
  BY <1>1, <1>3, <1>6, <1>7, Fields

\* on_stream_close_callback: only a connection between two messages is pooled.
LEMMA CloseGood ==
  ASSUME NEW s0, Good(s0), NEW i \in Streams, s0.down[i] # None, s0.pc # "read"
  PROVE  /\ Good(on_stream_close_callback(s0, i))
         /\ on_stream_close_callback(s0, i).pc = s0.pc
<1> DEFINE s == CloseStream(s0, i)
           x == [NewStream EXCEPT !.state = "closed"]
           d == s.down[i]
           c == d.dconn
           reusable == /\ d.response_state = "MSG_COMPLETE" /\ d.request_state # "CONNECT_FAIL"
                       /\ ~tunnel_established(d) /\ ~d.close
           t == on_stream_close_callback(s0, i)
<1>0. None \notin Streams /\ None \notin Conns
  BY ShrpxSpdyAssumption
<1>1. /\ s0 \in StateType /\ s0.down[i] \in DownstreamType /\ StreamGood(s0, i)
      /\ \A e \in Conns : ConnGood(s0, e)
  BY Fields DEF Good
<1>2. x \in StreamType /\ x.state = "closed"
  BY ShrpxSpdyAssumption DEF NewStream, StreamType
<1>3. /\ s \in StateType /\ s.pc = s0.pc /\ s.reading = s0.reading /\ s.down = s0.down
      /\ s.conn = s0.conn /\ s.pool = s0.pool /\ s.stream = [s0.stream EXCEPT ![i] = x]
  BY <1>1, <1>2 DEF CloseStream, StateType
<1>4. d = s0.down[i] /\ d \in DownstreamType /\ d # None /\ c \in Conns \cup {None}
  BY <1>1, <1>3 DEF DownstreamType
<1>5. /\ reusable => t = delete_downstream(detach_downstream(s, i), i)
      /\ ~reusable => t = delete_downstream(s, i)
  BY <1>4 DEF on_stream_close_callback
<1>6. reusable => d.response_state = "MSG_COMPLETE"
  OBVIOUS
<1> HIDE DEF reusable, t, s, x, d
<1>7. s.stream[i] = x /\ \A j \in Streams \ {i} : s.stream[j] = s0.stream[j]
  BY <1>1, <1>3, Fields
<1>8. s0.down[i].dconn = c /\ s.down[i] = d
  BY <1>4 DEF d
<1> HIDE DEF c
<1>9. c # None => /\ s0.conn[c].downstream = i /\ c \notin s0.pool
                  /\ Match(d.response_state, s0.conn[c].backend) /\ Accounted(s0.conn[c])
  BY <1>0, <1>1, <1>4, <1>8 DEF StreamGood, ConnGood
<1>10. ASSUME NEW u \in StateType, u.pc = s.pc, u.stream = s.stream,
              u.down[i] = None, \A j \in Streams \ {i} : u.down[j] = s.down[j],
              \A e \in Conns \ {c} : u.conn[e] = s.conn[e] /\ (e \in u.pool <=> e \in s.pool),
              c # None => /\ u.conn[c].downstream = None /\ Accounted(u.conn[c])
                          /\ c \in u.pool => u.conn[c].backend \in {"ended", "interim"}
       PROVE  Good(u)
  <2>1. StreamGood(u, i)
    BY <1>2, <1>7, <1>10 DEF StreamGood
  <2>2. c # None => ConnGood(u, c)
    BY <1>10 DEF ConnGood
  <2>3. ReadGood(u)
    BY <1>3, <1>10 DEF ReadGood
  <2>4. /\ \A j \in Streams \ {i} : u.stream[j] = s0.stream[j] /\ u.down[j] = s0.down[j]
        /\ \A e \in Conns \ {c} : u.conn[e] = s0.conn[e] /\ (e \in u.pool <=> e \in s0.pool)
    BY <1>3, <1>7, <1>10
  <2>5. c # None => s0.conn[c].downstream \in {None, i}
    BY <1>9
  <2>6. s0.down[i].dconn \in {None, c} /\ i \in Streams \cup {None} /\ c \in Conns \cup {None}
    BY <1>4, <1>8
  <2> QED
    BY <2>1, <2>2, <2>3, <2>4, <2>5, <2>6, Change
<1>11. CASE reusable /\ c # None
  <2> DEFINE v == detach_downstream(s, i)
  <2>1. c \in Conns
    BY <1>4, <1>11
  <2>2. /\ v \in StateType /\ v.pc = s.pc /\ v.stream = s.stream /\ v.pool = s.pool \cup {c}
        /\ v.down[i] \in DownstreamType /\ v.down[i].dconn = None
        /\ v.conn[c].downstream = None /\ v.conn[c].backend = s.conn[c].backend
        /\ Accounted(s.conn[c]) => Accounted(v.conn[c])
        /\ \A j \in Streams \ {i} : v.down[j] = s.down[j]
        /\ \A e \in Conns \ {c} : v.conn[e] = s.conn[e]
    BY <1>3, <1>4, <1>8, <1>11, <2>1, DetachFacts
  <2>3. t = delete_downstream(v, i)
    BY <1>5, <1>11
  <2> HIDE DEF v
  <2>4. /\ t \in StateType /\ t.pc = v.pc /\ t.stream = v.stream /\ t.pool = v.pool
        /\ t.down = [v.down EXCEPT ![i] = None] /\ t.conn = v.conn
    <3>1. v \in StateType /\ v.down[i] \in DownstreamType
      BY <2>2
    <3>2. /\ t \in StateType /\ t.pc = v.pc /\ t.stream = v.stream /\ t.pool = v.pool
          /\ t.down = [v.down EXCEPT ![i] = None]
          /\ t.conn = IF v.down[i].dconn = None THEN v.conn
                      ELSE [v.conn EXCEPT ![v.down[i].dconn] = FreeConn]
      BY <2>3, <3>1, DeleteFacts
    <3> QED
      BY <2>2, <3>2
  <2>5. t.down[i] = None /\ \A j \in Streams \ {i} : t.down[j] = s.down[j]
    BY <2>2, <2>4, Fields
  <2>6. t.conn[c].backend \in {"ended", "interim"} /\ Accounted(t.conn[c])
    BY <1>3, <1>6, <1>9, <1>11, <2>2, <2>4 DEF Match
  <2>7. Good(t) /\ t.pc = s0.pc
    BY ZenonT(40), <1>3, <1>10, <2>2, <2>4, <2>5, <2>6
  <2> QED
    BY <2>7 DEF t
<1>12. CASE ~(reusable /\ c # None)
  <2>1. t = delete_downstream(s, i)
    <3>1. c = None => detach_downstream(s, i) = s
      BY <1>8 DEF detach_downstream, c, d
    <3> QED
      BY <1>5, <1>12, <3>1
  <2>2. /\ t \in StateType /\ t.pc = s.pc /\ t.stream = s.stream /\ t.pool = s.pool
        /\ t.down = [s.down EXCEPT ![i] = None]
        /\ t.conn = IF c = None THEN s.conn ELSE [s.conn EXCEPT ![c] = FreeConn]
    <3>1. c = s.down[i].dconn /\ s.down[i] \in DownstreamType
      BY <1>4, <1>8 DEF c
    <3> QED
      BY <1>3, <2>1, <3>1, DeleteFacts
  <2>3. t.down[i] = None /\ \A j \in Streams \ {i} : t.down[j] = s.down[j]
    BY <1>3, <2>2, Fields
  <2>4. /\ \A e \in Conns \ {c} : t.conn[e] = s.conn[e] /\ (e \in t.pool <=> e \in s.pool)
        /\ c # None => t.conn[c].downstream = None /\ c \notin t.pool /\ Accounted(t.conn[c])
    <3>1. FreeConn.downstream = None /\ Accounted(FreeConn)
      BY FreeFacts
    <3>2. s.conn \in [Conns -> ConnType]
      BY <1>3, Fields
    <3> QED
      BY <1>3, <1>4, <1>9, <2>2, <3>1, <3>2
  <2>5. Good(t) /\ t.pc = s0.pc
    BY <1>3, <1>10, <2>2, <2>3, <2>4
  <2> QED
    BY <2>5 DEF t
<1> QED
  BY <1>11, <1>12

\* The session closes a stream once both sides have sent FIN.
LEMMA CloseIfDoneGood ==
  ASSUME NEW s, Good(s), NEW i \in Streams, s.down[i] # None, s.pc # "read"
  PROVE  Good(CloseIfDone(s, i)) /\ CloseIfDone(s, i).pc = s.pc
BY CloseGood DEF CloseIfDone

-----------------------------------------------------------------------------
(* Frames to the client.                                                   *)

\* A frame is written to the output buffer.
LEMMA OutGood ==
  ASSUME NEW s, Good(s), NEW t, t = [s EXCEPT !.out = @ + 1]
  PROVE  /\ Good(t) /\ t.pc = s.pc /\ t.stream = s.stream /\ t.down = s.down
         /\ t.conn = s.conn /\ t.pool = s.pool /\ t.reading = s.reading
<1>1. s \in StateType
  BY DEF Good
<1>2. /\ t.pc = s.pc /\ t.reading = s.reading /\ t.stream = s.stream /\ t.down = s.down
      /\ t.conn = s.conn /\ t.pool = s.pool /\ t \in StateType
  BY <1>1 DEF StateType
<1>3. ReadGood(t)
  BY <1>2 DEF Good, ReadGood
<1> QED
  BY <1>2, <1>3, ControlGood

\* spdy_data_read_callback: the buffer that is emptied is read into again, and what ends
\* the response may close the stream.
LEMMA DataReadGood ==
  ASSUME NEW s, Good(s), NEW i \in Streams, s.down[i] # None, s.pc # "read"
  PROVE  Good(spdy_data_read_callback(s, i))
<1> DEFINE d == s.down[i]
           o == [s EXCEPT !.out = @ + 1]
<1>1. /\ s \in StateType /\ d \in DownstreamType /\ StreamGood(s, i) /\ s.stream[i] \in StreamType
      /\ d.body \in Nat
  BY Fields DEF Good, DownstreamType
<1>2. /\ Good(o) /\ o.pc = s.pc /\ o.stream = s.stream /\ o.down = s.down /\ o.conn = s.conn
      /\ o \in StateType
  BY OutGood DEF Good
<1>3. CASE d.body > 0
  <2> DEFINE e == [d EXCEPT !.body = @ - 1]
             u == [o EXCEPT !.down[i] = e]
             f == [e EXCEPT !.paused = IF d.body = 1 THEN FALSE ELSE @]
  <2>1. /\ e \in DownstreamType /\ e.dconn = d.dconn /\ e.window = d.window /\ e.body = d.body - 1
        /\ e.paused = d.paused /\ e.response_state = d.response_state
    BY <1>1, <1>3 DEF DownstreamType
  <2>2. [s EXCEPT !.out = @ + 1, !.down[i].body = @ - 1] = u
    BY <1>1, Fields DEF StateType, DownstreamType
  <2>3. spdy_data_read_callback(s, i) = [u EXCEPT !.down[i].paused = IF d.body = 1 THEN FALSE ELSE @]
    <3> DEFINE z == IF d.body = 1 THEN FALSE ELSE d.paused
    <3>1. u.down[i].paused = d.paused
      BY <1>1, <1>2, <2>1, Fields DEF StateType
    <3>2. spdy_data_read_callback(s, i) =
             [s EXCEPT !.out = @ + 1, !.down[i].body = @ - 1, !.down[i].paused = z]
      BY <1>1, <1>3, Fields DEF spdy_data_read_callback, StateType, DownstreamType
    <3>3. [u EXCEPT !.down[i].paused = IF d.body = 1 THEN FALSE ELSE @] = [u EXCEPT !.down[i].paused = z]
      BY <3>1
    <3> HIDE DEF z, u
    <3>4. [s EXCEPT !.out = @ + 1, !.down[i].body = @ - 1, !.down[i].paused = z] = [u EXCEPT !.down[i].paused = z]
      BY <2>2
    <3> QED
      BY <3>2, <3>3, <3>4
  <2> HIDE DEF e, o
  <2>4. Moves(o, u, i, e)
    BY <1>2, <2>1, DownMoves
  <2>5. u \in StateType /\ u.down[i] = e
    BY <2>4 DEF Moves
  <2>6. /\ f \in DownstreamType /\ f.dconn = d.dconn /\ f.window = d.window /\ f.body = d.body - 1
        /\ f.response_state = d.response_state /\ (f.paused => d.paused /\ d.body # 1)
    BY <1>1, <2>1 DEF DownstreamType
  <2> HIDE DEF u
  <2>7. [u EXCEPT !.down[i].paused = IF d.body = 1 THEN FALSE ELSE @] = [u EXCEPT !.down[i] = f]
    BY <2>5, Fields DEF StateType
  <2> HIDE DEF f
  <2>8. Moves(o, [u EXCEPT !.down[i] = f], i, f)
    BY <2>4, <2>5, <2>6, DownMoves, MovesTwice
  <2>9. f.paused => f.body > 0
    BY <1>1, <1>3, <2>6
  <2>10. f.dconn # None => Match(f.response_state, o.conn[f.dconn].backend)
    BY <1>1, <1>2, <2>6 DEF StreamGood
  <2>11. o.down[i] # None /\ f.dconn = o.down[i].dconn /\ f.window = o.down[i].window
    BY <1>2, <2>6
  <2>12. Good([u EXCEPT !.down[i] = f])
    BY <1>2, <2>6, <2>8, <2>9, <2>10, <2>11, MovesGood
  <2> QED
    BY <2>3, <2>7, <2>12
<1>4. CASE /\ ~(d.body > 0) /\ d.response_state = "MSG_COMPLETE" /\ ~tunnel_established(d)
  <2> DEFINE x == [s.stream[i] EXCEPT !.data = "done"]
             u == [o EXCEPT !.stream[i] = x]
  <2>1. /\ x \in StreamType /\ x.state = s.stream[i].state /\ x.credit = s.stream[i].credit
        /\ x.update = s.stream[i].update
    BY <1>1 DEF StreamType
  <2>2. [s EXCEPT !.out = @ + 1, !.stream[i].data = "done"] = u
    BY <1>1, Fields DEF StateType
  <2>3. spdy_data_read_callback(s, i) = CloseIfDone(u, i)
    BY <1>4, <2>2 DEF spdy_data_read_callback
  <2> HIDE DEF x, o
  <2>4. Moves(o, u, i, o.down[i])
    BY <1>2, <2>1, StreamMoves
  <2> HIDE DEF u
  <2>5. Good(u) /\ u.down[i] # None /\ u.pc # "read"
    BY <1>2, <2>4, TouchGood DEF Moves
  <2> QED
    BY <2>3, <2>5, CloseIfDoneGood
<1>5. CASE ~(d.body > 0) /\ ~(d.response_state = "MSG_COMPLETE" /\ ~tunnel_established(d))
  <2> DEFINE x == [s.stream[i] EXCEPT !.data = "deferred"]
             u == [s EXCEPT !.stream[i] = x]
  <2>1. /\ x \in StreamType /\ x.state = s.stream[i].state /\ x.credit = s.stream[i].credit
        /\ x.update = s.stream[i].update
    BY <1>1 DEF StreamType
  <2>2. spdy_data_read_callback(s, i) = u
    BY <1>5 DEF spdy_data_read_callback
  <2> HIDE DEF x
  <2>3. Moves(s, u, i, s.down[i])
    BY <1>1, <2>1, StreamMoves
  <2> QED
    BY <2>2, <2>3, TouchGood
<1> QED
  BY <1>3, <1>4, <1>5

\* A callback returns: session_send may have nothing left to send.
LEMMA BecomesGood ==
  ASSUME NEW s, Good(s), Becomes(s)
  PROVE  IndInv'
<1>1. /\ s \in StateType /\ pc' = Settled(s) /\ reading' = s.reading /\ stream' = s.stream
      /\ down' = s.down /\ conn' = s.conn /\ pool' = s.pool /\ out' = s.out
  BY DEF Good, Becomes
<1>2. Settled(s) \in {"loop", s.pc}
  BY DEF Settled
<1> DEFINE t == [pc |-> pc', reading |-> reading', stream |-> stream', down |-> down', conn |-> conn',
                 pool |-> pool', out |-> out']
<1>3. /\ t.pc \in {"loop", s.pc} /\ t.reading = s.reading /\ t.stream = s.stream /\ t.down = s.down
      /\ t.conn = s.conn /\ t.pool = s.pool /\ t \in StateType
  BY <1>1, <1>2, Fields DEF StateType
<1> HIDE DEF t
<1>4. ReadGood(t)
  BY <1>3 DEF Good, ReadGood
<1>5. Good(t)
  BY <1>3, <1>4, ControlGood
<1> QED
  BY <1>5 DEF IndInv, State, t

\* The fields of the state.
LEMMA StateFields ==
  ASSUME IndInv
  PROVE  /\ Good(State) /\ State \in StateType /\ State.pc = pc /\ State.reading = reading
         /\ State.stream = stream /\ State.down = down /\ State.conn = conn /\ State.pool = pool
         /\ State.out = out
BY DEF IndInv, Good, State

\* The initial state, and that of a deleted handler.
LEMMA EmptyGood ==
  ASSUME NEW s \in StateType, s.pc # "read", s.stream = [i \in Streams |-> NewStream],
         s.down = [i \in Streams |-> None], s.conn = [c \in Conns |-> FreeConn], s.pool = {}
  PROVE  Good(s)
<1>1. /\ NewStream.state = "idle" /\ NewStream.credit = InitialWindow /\ NewStream.update = 0
      /\ FreeConn.downstream = None /\ Accounted(FreeConn)
  BY FreeFacts DEF NewStream
<1> QED
  BY <1>1 DEF Good, StreamGood, ConnGood, ReadGood

\* The initial state satisfies the invariant.
LEMMA InitInv ==
  ASSUME Init
  PROVE  IndInv
<1>1. NewStream \in StreamType /\ FreeConn \in ConnType
  BY ShrpxSpdyAssumption, FreeFacts DEF NewStream, StreamType
<1>2. State \in StateType
  BY <1>1 DEF Init, State, StateType
<1>3. /\ State.pc # "read" /\ State.stream = [i \in Streams |-> NewStream]
      /\ State.down = [i \in Streams |-> None] /\ State.conn = [c \in Conns |-> FreeConn]
      /\ State.pool = {}
  BY DEF Init, State
<1> QED
  BY <1>2, <1>3, EmptyGood DEF IndInv

\* The handler is deleted.
LEMMA DeletedGood == Good(DeletedState)
<1>1. NewStream \in StreamType /\ FreeConn \in ConnType
  BY ShrpxSpdyAssumption, FreeFacts DEF NewStream, StreamType
<1>2. /\ DeletedState \in StateType /\ DeletedState.pc # "read"
      /\ DeletedState.stream = [i \in Streams |-> NewStream]
      /\ DeletedState.down = [i \in Streams |-> None]
      /\ DeletedState.conn = [c \in Conns |-> FreeConn] /\ DeletedState.pool = {}
  BY <1>1 DEF DeletedState, StateType
<1> QED
  BY <1>2, EmptyGood

\* Only the program counter changes.
LEMMA PcGood ==
  ASSUME IndInv, NEW q \in {"loop", "recv", "send"}, NEW t, t = [State EXCEPT !.pc = q]
  PROVE  /\ Good(t) /\ t \in StateType /\ t.pc = q /\ t.stream = stream /\ t.down = down
         /\ t.conn = conn /\ t.pool = pool /\ t.reading = reading
<1>1. /\ t.pc = q /\ t.reading = reading /\ t.stream = stream /\ t.down = down
      /\ t.conn = conn /\ t.pool = pool /\ t \in StateType
  BY StateFields DEF State, StateType
<1>2. ReadGood(t)
  BY <1>1 DEF ReadGood
<1> QED
  BY <1>1, <1>2, StateFields, ControlGood

-----------------------------------------------------------------------------
(* The actions.                                                            *)

\* A step of an open stream and of the connection it keeps.
LEMMA OpenGood ==
  ASSUME NEW s, Good(s), NEW i \in Streams, s.down[i] # None, NEW c, c = s.down[i].dconn,
         NEW t \in StateType, t.down[i] \in DownstreamType, t.down[i].dconn = c,
         \A j \in Streams \ {i} : t.stream[j] = s.stream[j] /\ t.down[j] = s.down[j],
         \A e \in Conns \ {c} : t.conn[e] = s.conn[e], t.pool = s.pool,
         c # None => t.conn[c].downstream = i,
         c # None => Match(t.down[i].response_state, t.conn[c].backend) /\ Accounted(t.conn[c]),
         t.stream[i].state = "open", t.down[i].paused => t.down[i].body > 0,
         t.stream[i].credit + t.down[i].window + t.stream[i].update = InitialWindow,
         ReadGood(t)
  PROVE  Good(t)
<1>1. s \in StateType /\ s.down[i] \in DownstreamType /\ StreamGood(s, i) /\ t.down[i] # None
  BY Fields, NullAssumption DEF Good
<1>2. c \in Conns \cup {None} /\ i # None
  BY <1>1, ShrpxSpdyAssumption DEF DownstreamType
<1>3. c # None => s.conn[c].downstream = i /\ ConnGood(s, c)
  BY <1>1, <1>2 DEF StreamGood, Good
<1>4. StreamGood(t, i)
  BY <1>1 DEF StreamGood
<1>5. c # None => ConnGood(t, c) /\ s.conn[c].downstream \in {None, i}
  BY <1>1, <1>2, <1>3 DEF ConnGood
<1>6. \A e \in Conns \ {c} : t.conn[e] = s.conn[e] /\ (e \in t.pool <=> e \in s.pool)
  OBVIOUS
<1> QED
  BY <1>2, <1>4, <1>5, <1>6, Change

\* An open stream has a downstream.
LEMMA OpenHasDownstream ==
  ASSUME IndInv, NEW i \in Streams
  PROVE  /\ stream[i].state = "open" <=> down[i] # None
         /\ stream[i] \in StreamType /\ down[i] \in DownstreamType \cup {None}
         /\ down[i] # None => /\ stream[i].credit + down[i].window + stream[i].update = InitialWindow
                              /\ down[i].paused => down[i].body > 0
                              /\ down[i].dconn \in Conns \cup {None}
                              /\ down[i].dconn # None =>
                                    /\ conn[down[i].dconn].downstream = i
                                    /\ Match(down[i].response_state, conn[down[i].dconn].backend)
                                    /\ Accounted(conn[down[i].dconn])
<1>1. /\ StreamGood(State, i) /\ State.stream = stream /\ State.down = down /\ State.conn = conn
      /\ \A c \in Conns : Accounted(conn[c])
  BY StateFields DEF Good, ConnGood
<1>2. stream[i] \in StreamType /\ down[i] \in DownstreamType \cup {None}
  BY StateFields, Fields
<1> QED
  BY <1>1, <1>2 DEF StreamGood, DownstreamType

\* An attached connection belongs to an open stream.
LEMMA AttachedFacts ==
  ASSUME IndInv, NEW c \in Conns, Attached(c), NEW i, i = conn[c].downstream
  PROVE  /\ i \in Streams /\ down[i] # None /\ down[i] \in DownstreamType /\ down[i].dconn = c
         /\ stream[i].state = "open" /\ stream[i] \in StreamType /\ conn[c] \in ConnType
         /\ c \notin pool /\ c # None
         /\ stream[i].credit + down[i].window + stream[i].update = InitialWindow
         /\ down[i].paused => down[i].body > 0
         /\ Match(down[i].response_state, conn[c].backend) /\ Accounted(conn[c])
<1>1. ConnGood(State, c) /\ State.conn = conn /\ State.down = down /\ State.pool = pool
  BY StateFields DEF Good
<1>2. conn[c] \in ConnType
  BY <1>1, StateFields, Fields
<1>3. i \in Streams
  BY <1>2 DEF ConnType, Attached
<1>4. down[i] # None /\ down[i].dconn = c /\ c \notin pool /\ c # None
  BY <1>1, ShrpxSpdyAssumption DEF ConnGood, Attached
<1>5. Accounted(conn[c])
  BY <1>1 DEF ConnGood
<1> QED
  BY <1>2, <1>3, <1>4, <1>5, OpenHasDownstream

\* RST_STREAM from the client, the end of session_recv and the end of the client.
LEMMA RecvInv ==
  ASSUME IndInv,
         \/ \E i \in Streams : RstStream(i)
         \/ RecvDone \/ RecvFails \/ upstream_eventcb
  PROVE  IndInv'
<1>1. ASSUME NEW i \in Streams, RstStream(i) PROVE IndInv'
  <2>1. Good(Receiving) /\ Receiving.pc = "recv" /\ Receiving.down = down
    BY PcGood DEF Receiving
  <2>2. Receiving.down[i] # None
    BY <1>1, <2>1, OpenHasDownstream DEF RstStream
  <2>3. Good(on_stream_close_callback(Receiving, i))
    BY <2>1, <2>2, CloseGood
  <2> QED
    BY <1>1, <2>3, BecomesGood DEF RstStream
<1>2. CASE RecvDone
  BY <1>2, PcGood, BecomesGood DEF RecvDone
<1>3. CASE RecvFails \/ upstream_eventcb
  BY <1>3, DeletedGood, BecomesGood DEF RecvFails, upstream_eventcb
<1> QED
  BY <1>1, <1>2, <1>3

\* The client's output buffer has been written.
LEMMA WritecbInv ==
  ASSUME IndInv, upstream_writecb
  PROVE  IndInv'
<1> DEFINE t == [State EXCEPT !.out = 0, !.pc = "send"]
<1>1. /\ t.pc = "send" /\ t.stream = State.stream /\ t.down = State.down
      /\ t.conn = State.conn /\ t.pool = State.pool /\ t \in StateType
  BY StateFields DEF State, StateType
<1>2. Becomes(t)
  BY DEF upstream_writecb
<1> HIDE DEF t
<1>3. Good(t)
  BY <1>1, StateFields, ControlGood DEF ReadGood
<1> QED
  BY <1>2, <1>3, BecomesGood

\* session_send writes a frame.
LEMMA SendInv ==
  ASSUME IndInv, NEW i \in Streams, SendFrame(i)
  PROVE  IndInv'
<1> DEFINE o == [State EXCEPT !.out = @ + 1]
           x == [stream[i] EXCEPT !.reply = "sent"]
           y == [stream[i] EXCEPT !.update = 0]
           z == [y EXCEPT !.credit = @ + stream[i].update]
<1>1. pc = "send" /\ stream[i].state = "open"
  BY StateFields DEF SendFrame, Sendable
<1>2. /\ down[i] # None /\ stream[i] \in StreamType /\ down[i] \in DownstreamType
      /\ stream[i].credit + down[i].window + stream[i].update = InitialWindow
  BY <1>1, OpenHasDownstream
<1>3. /\ Good(State) /\ State \in StateType /\ State.pc = "send" /\ State.down[i] # None
      /\ State.stream = stream /\ State.down = down /\ State.conn = conn /\ State.pool = pool
  BY <1>1, <1>2, StateFields
<1>4. /\ Good(o) /\ o.pc = "send" /\ o.down = down /\ o.stream = stream /\ o.conn = conn
      /\ o.pool = pool /\ o \in StateType
  BY <1>3, OutGood DEF Good
<1>5. CASE Becomes(on_stream_close_callback(o, i))
  BY <1>2, <1>4, <1>5, CloseGood, BecomesGood
<1>6. CASE Becomes([State EXCEPT !.out = @ + 1, !.stream[i].reply = "sent"])
  <2>1. /\ x \in StreamType /\ x.state = stream[i].state /\ x.credit = stream[i].credit
        /\ x.update = stream[i].update
    BY <1>2 DEF StreamType
  <2>2. [State EXCEPT !.out = @ + 1, !.stream[i].reply = "sent"] = [o EXCEPT !.stream[i] = x]
    BY <1>3, Fields DEF StateType
  <2> HIDE DEF x, o
  <2>3. Good([o EXCEPT !.stream[i] = x])
    BY <1>2, <1>4, <2>1, StreamMoves, TouchGood
  <2> QED
    BY <1>6, <2>2, <2>3, BecomesGood
<1>7. CASE Becomes(spdy_data_read_callback(State, i))
  BY <1>3, <1>7, DataReadGood, BecomesGood
<1>8. CASE Becomes([State EXCEPT !.out = @ + 1, !.stream[i].update = 0,
                                 !.stream[i].credit = @ + stream[i].update])
  <2> DEFINE u == [o EXCEPT !.stream[i] = y]
             t == [u EXCEPT !.stream[i] = z]
  <2>1. /\ y \in StreamType /\ y.state = "open" /\ y.credit = stream[i].credit /\ y.update = 0
    BY <1>1, <1>2 DEF StreamType
  <2>2. [State EXCEPT !.out = @ + 1, !.stream[i].update = 0] = u
    BY <1>3, Fields DEF StateType
  <2>3. [State EXCEPT !.out = @ + 1, !.stream[i].update = 0,
                      !.stream[i].credit = @ + stream[i].update]
           = [u EXCEPT !.stream[i].credit = @ + stream[i].update]
    <3> HIDE DEF u, o, y
    <3> QED
      BY <2>2
  <2> HIDE DEF y, o
  <2>4. /\ u \in StateType /\ u.pc = "send" /\ u.down = down /\ u.conn = conn /\ u.pool = pool
        /\ u.stream = [stream EXCEPT ![i] = y]
    BY <1>4, <2>1 DEF StateType
  <2>5. /\ u.stream[i] = y /\ \A j \in Streams \ {i} : u.stream[j] = stream[j]
    BY <1>3, <2>4, Fields
  <2> HIDE DEF u
  <2>6. /\ z \in StreamType /\ z.state = "open" /\ z.update = 0
        /\ z.credit = stream[i].credit + stream[i].update
    BY <1>2, <2>1 DEF StreamType
  <2>7. [u EXCEPT !.stream[i].credit = @ + stream[i].update] = t
    BY <2>4, <2>5, Fields DEF StateType
  <2> HIDE DEF z
  <2>8. /\ t \in StateType /\ t.pc = "send" /\ t.down = down /\ t.conn = conn /\ t.pool = pool
        /\ t.stream = [u.stream EXCEPT ![i] = z]
    BY <2>4, <2>6 DEF StateType
  <2>9. /\ t.stream[i] = z /\ \A j \in Streams \ {i} : t.stream[j] = stream[j]
    BY <2>4, <2>5, <2>8, Fields
  <2> HIDE DEF t
  <2>10. z.credit + down[i].window + z.update = InitialWindow
    BY <1>2, <2>6, ShrpxSpdyAssumption DEF StreamType, DownstreamType
  <2>11. /\ down[i].paused => down[i].body > 0
         /\ down[i].dconn # None => /\ conn[down[i].dconn].downstream = i
                                    /\ Match(down[i].response_state, conn[down[i].dconn].backend)
                                    /\ Accounted(conn[down[i].dconn])
    BY <1>2, OpenHasDownstream
  <2>12. ReadGood(t)
    BY <2>8 DEF ReadGood
  <2>13. /\ t.down[i] \in DownstreamType /\ t.down[i].dconn = State.down[i].dconn
         /\ \A j \in Streams \ {i} : t.stream[j] = State.stream[j] /\ t.down[j] = State.down[j]
         /\ t.conn = State.conn /\ t.pool = State.pool
    BY <1>2, <1>3, <2>8, <2>9
  <2>14. /\ t.down[i].paused => t.down[i].body > 0
         /\ t.down[i].dconn # None => /\ t.conn[t.down[i].dconn].downstream = i
                                      /\ Match(t.down[i].response_state, t.conn[t.down[i].dconn].backend)
                                      /\ Accounted(t.conn[t.down[i].dconn])
         /\ t.stream[i].credit + t.down[i].window + t.stream[i].update = InitialWindow
         /\ t.stream[i].state = "open"
    BY <2>6, <2>8, <2>9, <2>10, <2>11
  <2>15. Good(t)
    BY ZenonT(40), <1>3, <2>8, <2>12, <2>13, <2>14, OpenGood
  <2> QED
    BY <1>8, <2>3, <2>7, <2>15, BecomesGood
<1> QED
  BY <1>5, <1>6, <1>7, <1>8 DEF SendFrame

\* A pooled connection is closed.
LEMMA IdleInv ==
  ASSUME IndInv, NEW c \in Conns, idle_eventcb(c)
  PROVE  IndInv'
<1> DEFINE t == [State EXCEPT !.pool = @ \ {c}, !.conn[c] = FreeConn]
<1>1. FreeConn \in ConnType /\ FreeConn.downstream = None /\ Accounted(FreeConn)
  BY FreeFacts
<1>2. /\ t \in StateType /\ t.pc = pc /\ t.stream = stream /\ t.down = down
      /\ t.pool = pool \ {c} /\ t.conn = [conn EXCEPT ![c] = FreeConn] /\ t.reading = reading
  BY <1>1, StateFields DEF StateType
<1>3. Becomes(t) /\ pc = "loop" /\ c \in pool
  BY DEF idle_eventcb
<1> HIDE DEF t
<1>4. conn[c].downstream = None
  <2>1. ConnGood(State, c) /\ State.conn = conn /\ State.pool = pool
    BY StateFields DEF Good
  <2> QED
    BY <1>3, <2>1 DEF ConnGood
<1>5. /\ t.conn[c] = FreeConn /\ c \notin t.pool
      /\ \A e \in Conns \ {c} : t.conn[e] = State.conn[e] /\ (e \in t.pool <=> e \in State.pool)
      /\ \A j \in Streams \ {None} : t.stream[j] = State.stream[j] /\ t.down[j] = State.down[j]
  BY <1>2, StateFields, Fields
<1>6. ConnGood(t, c) /\ ReadGood(t) /\ State.conn[c].downstream \in {None}
  BY <1>1, <1>2, <1>3, <1>4, <1>5, StateFields DEF ConnGood, ReadGood
<1>7. Good(t)
  <2>1. Good(State)
    BY StateFields
  <2> QED
    BY <1>2, <1>5, <1>6, <2>1, Change
<1> QED
  BY <1>3, <1>7, BecomesGood

\* Everything has been written to the backend.
LEMMA DrainedInv ==
  ASSUME IndInv, NEW c \in Conns, spdy_downstream_writecb(c)
  PROVE  IndInv'
<1> DEFINE i == conn[c].downstream
           y == [conn[c] EXCEPT !.tx = FALSE]
           s == [State EXCEPT !.conn[c].tx = FALSE]
<1>1. pc = "loop" /\ Attached(c)
  BY DEF spdy_downstream_writecb
<1>2. /\ i \in Streams /\ down[i] # None /\ down[i] \in DownstreamType /\ down[i].dconn = c
      /\ stream[i].state = "open" /\ stream[i] \in StreamType /\ conn[c] \in ConnType
      /\ stream[i].credit + down[i].window + stream[i].update = InitialWindow
      /\ down[i].paused => down[i].body > 0
      /\ Match(down[i].response_state, conn[c].backend) /\ Accounted(conn[c])
  BY <1>1, AttachedFacts
<1>3. Becomes(IF down[i].window >= InitialWindow \div 2 THEN window_update(s, i) ELSE s)
  BY DEF spdy_downstream_writecb
<1>4. y \in ConnType /\ y.downstream = i /\ y.backend = conn[c].backend /\ Accounted(y)
  <2>1. /\ y \in ConnType /\ y.downstream = i /\ y.backend = conn[c].backend
        /\ y.owed = conn[c].owed /\ y.interim = conn[c].interim
    BY <1>2 DEF ConnType
  <2> HIDE DEF y
  <2> QED
    BY <1>2, <2>1, AccountKept
<1>5. s = [State EXCEPT !.conn[c] = y]
  BY StateFields, Fields DEF StateType
<1> HIDE DEF y
<1>6. /\ s \in StateType /\ s.pc = "loop" /\ s.stream = stream /\ s.down = down
      /\ s.pool = pool /\ s.conn = [conn EXCEPT ![c] = y]
  BY <1>1, <1>4, <1>5, StateFields DEF StateType
<1>7. s.conn[c] = y /\ \A e \in Conns \ {c} : s.conn[e] = conn[e]
  BY <1>6, StateFields, Fields
<1> HIDE DEF s, i
<1>8. Good(s)
  <2>1. /\ s.conn[c].downstream = i /\ Match(s.down[i].response_state, s.conn[c].backend)
        /\ Accounted(s.conn[c]) /\ ReadGood(s) /\ s.down[i] \in DownstreamType /\ s.down[i].dconn = c /\ s.stream[i].state = "open"
        /\ s.down[i].paused => s.down[i].body > 0
        /\ s.stream[i].credit + s.down[i].window + s.stream[i].update = InitialWindow
    BY <1>2, <1>4, <1>6, <1>7 DEF ReadGood
  <2>2. /\ Good(State) /\ State.down[i] # None /\ c = State.down[i].dconn /\ s.pool = State.pool
        /\ \A j \in Streams \ {i} : s.stream[j] = State.stream[j] /\ s.down[j] = State.down[j]
        /\ \A e \in Conns \ {c} : s.conn[e] = State.conn[e]
    BY <1>2, <1>6, <1>7, StateFields
  <2>3. i \in Streams /\ s \in StateType
    BY <1>2, <1>6
  <2> QED
    BY ONLY <2>1, <2>2, <2>3, OpenGood
<1>9. CASE down[i].window >= InitialWindow \div 2
  <2> DEFINE x == [stream[i] EXCEPT !.update = @ + down[i].window]
             d == [down[i] EXCEPT !.window = 0]
             t == window_update(s, i)
  <2>1. x \in StreamType /\ x.state = "open" /\ x.credit = stream[i].credit
        /\ x.update = stream[i].update + down[i].window
    BY <1>2 DEF StreamType, DownstreamType
  <2>2. /\ d \in DownstreamType /\ d.dconn = c /\ d.response_state = down[i].response_state
        /\ d.body = down[i].body /\ d.paused = down[i].paused /\ d.window = 0
    BY <1>2 DEF DownstreamType
  <2>3. t = [s EXCEPT !.stream[i] = x, !.down[i] = d]
    BY <1>6, Fields DEF window_update, StateType
  <2> HIDE DEF x, d
  <2>4. /\ t \in StateType /\ t.pc = "loop" /\ t.conn = s.conn /\ t.pool = s.pool
        /\ t.stream = [s.stream EXCEPT ![i] = x] /\ t.down = [s.down EXCEPT ![i] = d]
    <3>1. i \in Streams /\ s \in StateType /\ s.pc = "loop" /\ x \in StreamType /\ d \in DownstreamType
      BY <1>2, <1>6, <2>1, <2>2
    <3> HIDE DEF t
    <3> QED
      BY <2>3, <3>1 DEF StateType
  <2>5. /\ t.stream[i] = x /\ t.down[i] = d
        /\ \A j \in Streams \ {i} : t.stream[j] = s.stream[j] /\ t.down[j] = s.down[j]
    BY <1>2, <1>6, <2>4, Fields
  <2> HIDE DEF t
  <2>6. x.credit + d.window + x.update = InitialWindow
    BY <1>2, <2>1, <2>2, ShrpxSpdyAssumption DEF StreamType, DownstreamType
  <2>7. /\ t.down[i] \in DownstreamType /\ t.down[i].dconn = c
        /\ t.conn[c].downstream = i /\ Match(t.down[i].response_state, t.conn[c].backend)
        /\ Accounted(t.conn[c]) /\ t.stream[i].state = "open"
        /\ t.down[i].paused => t.down[i].body > 0
        /\ t.stream[i].credit + t.down[i].window + t.stream[i].update = InitialWindow
        /\ ReadGood(t)
    BY <1>2, <1>4, <1>7, <2>1, <2>2, <2>4, <2>5, <2>6 DEF ReadGood
  <2>8. s.down[i] # None /\ c = s.down[i].dconn /\ \A e \in Conns \ {c} : t.conn[e] = s.conn[e]
    BY <1>2, <1>6, <2>4
  <2>9. Good(t)
    <3>1. i \in Streams /\ t \in StateType /\ t.pool = s.pool
      BY <1>2, <2>4
    <3> QED
      BY <1>8, <2>5, <2>7, <2>8, <3>1, OpenGood
  <2> QED
    BY <1>3, <1>9, <2>9, BecomesGood DEF t
<1>10. CASE ~(down[i].window >= InitialWindow \div 2)
  BY <1>3, <1>8, <1>10, BecomesGood
<1> QED
  BY <1>9, <1>10

\* error_reply for a downstream that has lost its connection.
LEMMA ErrorGood ==
  ASSUME NEW s, Good(s), NEW i \in Streams, s.down[i] # None, s.down[i].dconn = None
  PROVE  Good(error_reply(s, i))
<1>1. s \in StateType
  BY DEF Good
<1>2. PICK d \in DownstreamType :
            /\ Moves(s, error_reply(s, i), i, d)
            /\ d.dconn = s.down[i].dconn /\ d.window = s.down[i].window
            /\ d.response_state = "MSG_COMPLETE" /\ d.body > 0
  BY <1>1, ErrorMoves
<1> QED
  BY <1>2, MovesGood

\* The response of a downstream that has lost its connection is complete.
LEMMA CompleteGood ==
  ASSUME NEW s, Good(s), NEW i \in Streams, s.down[i] # None, s.down[i].dconn = None,
         NEW t, t = [s EXCEPT !.down[i].response_state = "MSG_COMPLETE"]
  PROVE  Good(t) /\ t \in StateType /\ t.down[i] # None
<1> DEFINE d == [s.down[i] EXCEPT !.response_state = "MSG_COMPLETE"]
<1>1. s \in StateType /\ s.down[i] \in DownstreamType /\ StreamGood(s, i)
  BY Fields DEF Good
<1>2. /\ d \in DownstreamType /\ d.dconn = None /\ d.window = s.down[i].window
      /\ d.body = s.down[i].body /\ d.paused = s.down[i].paused
  BY <1>1 DEF DownstreamType
<1>3. t = [s EXCEPT !.down[i] = d]
  BY <1>1, Fields DEF StateType
<1> HIDE DEF d
<1>4. Moves(s, t, i, d)
  BY <1>1, <1>2, <1>3, DownMoves
<1>5. d.paused => d.body > 0
  BY <1>1, <1>2 DEF StreamGood
<1>6. Good(t)
  BY <1>2, <1>4, <1>5, MovesGood
<1> QED
  BY <1>2, <1>4, <1>6, NullAssumption DEF Moves

\* RST_STREAM is queued for an open stream.
LEMMA RstGood ==
  ASSUME NEW s, Good(s), NEW i \in Streams, s.down[i] # None
  PROVE  Good(rst_stream(s, i)) /\ rst_stream(s, i).down[i] = s.down[i] /\ rst_stream(s, i).pc = s.pc
<1>1. Moves(s, rst_stream(s, i), i, s.down[i])
  BY RstMoves DEF Good
<1> QED
  BY <1>1, TouchGood DEF Moves

\* Deferred data of an open stream are sent again.
LEMMA ResumeGood ==
  ASSUME NEW s, Good(s), NEW i \in Streams, s.down[i] # None
  PROVE  Good(resume_data(s, i))
<1>1. Moves(s, resume_data(s, i), i, s.down[i])
  BY ResumeMoves DEF Good
<1> QED
  BY <1>1, TouchGood

\* The end of an answer, or its failure, after the connection was deleted.
LEMMA EventGood ==
  ASSUME NEW s, Good(s), NEW i \in Streams, s.down[i] # None, s.down[i].dconn = None
  PROVE  Good(on_eof(s, i)) /\ Good(on_error(s, i))
<1> DEFINE ended == [s EXCEPT !.down[i].response_state = "MSG_COMPLETE"]
<1>1. Good(ended) /\ ended.down[i] # None
  BY CompleteGood
<1>2. Good(rst_stream(ended, i)) /\ Good(resume_data(ended, i))
  <2> HIDE DEF ended
  <2> QED
    BY <1>1, RstGood, ResumeGood
<1>3. Good(rst_stream(s, i)) /\ Good(error_reply(s, i))
  BY RstGood, ErrorGood
<1>4. on_eof(s, i) \in {rst_stream(ended, i), resume_data(ended, i), rst_stream(s, i), error_reply(s, i)}
  BY DEF on_eof
<1>5. on_error(s, i) \in {rst_stream(ended, i), rst_stream(s, i), error_reply(s, i)}
  BY DEF on_error
<1> HIDE DEF ended
<1> QED
  BY <1>2, <1>3, <1>4, <1>5

\* The backend has closed or broken the connection.
LEMMA EventInv ==
  ASSUME IndInv, NEW c \in Conns, spdy_downstream_eventcb(c)
  PROVE  IndInv'
<1> DEFINE i == conn[c].downstream
           v == delete_dconn(State, i)
           s == [v EXCEPT !.pc = "send"]
<1>1. pc = "loop" /\ Attached(c)
  BY DEF spdy_downstream_eventcb
<1>2. i \in Streams /\ down[i] # None
  BY <1>1, AttachedFacts
<1>3. Becomes(on_eof(s, i)) \/ Becomes(on_error(s, i))
  BY DEF spdy_downstream_eventcb
<1>4. Good(State) /\ State.down[i] # None /\ State.pc # "read"
  BY <1>1, <1>2, StateFields
<1> HIDE DEF i
<1>5. Good(v) /\ v.down[i] \in DownstreamType /\ v.down[i].dconn = None
  BY <1>2, <1>4, DeleteDconn
<1> HIDE DEF v
<1>6. /\ s \in StateType /\ s.pc = "send" /\ s.stream = v.stream /\ s.down = v.down
      /\ s.conn = v.conn /\ s.pool = v.pool
  BY <1>5 DEF Good, StateType
<1> HIDE DEF s
<1>7. Good(s) /\ s.down[i] # None /\ s.down[i].dconn = None
  BY <1>5, <1>6, ControlGood, NullAssumption DEF ReadGood
<1> QED
  BY <1>2, <1>3, <1>7, EventGood, BecomesGood

\* The parser is given the bytes of connection c, which becomes x.
Reading(c, x) == [State EXCEPT !.pc = "read", !.reading = c, !.conn[c] = x]

\* What that changes.
LEMMA ReadFacts ==
  ASSUME IndInv, NEW c \in Conns, NEW x \in ConnType, NEW r, r = Reading(c, x)
  PROVE  /\ r \in StateType /\ r.pc = "read" /\ r.reading = c /\ r.stream = stream /\ r.down = down
         /\ r.pool = pool /\ r.conn[c] = x
         /\ \A e \in Conns \ {c} : r.conn[e] = conn[e]
<1>1. /\ r \in StateType /\ r.pc = "read" /\ r.reading = c /\ r.stream = stream /\ r.down = down
      /\ r.pool = pool /\ r.conn = [conn EXCEPT ![c] = x]
  BY StateFields DEF Reading, StateType
<1> QED
  BY <1>1, StateFields, Fields

\* A piece has been forwarded as far as it was read.
LEMMA ForwardGood ==
  ASSUME IndInv, NEW c \in Conns, Attached(c), NEW i, i = conn[c].downstream, NEW r \in StateType,
         r.pc = "read", r.reading = c, r.stream = stream, r.down = down, r.pool = pool,
         r.conn[c].downstream = i, \A e \in Conns \ {c} : r.conn[e] = conn[e],
         NEW d \in DownstreamType, NEW t, Moves(r, t, i, d), d.dconn = c, d.window = down[i].window,
         Match(d.response_state, r.conn[c].backend), Accounted(r.conn[c]), d.paused => d.body > 0
  PROVE  Good(t)
<1>1. /\ i \in Streams /\ down[i] # None /\ down[i].dconn = c /\ c # None /\ i # None
      /\ stream[i].state = "open"
      /\ stream[i].credit + down[i].window + stream[i].update = InitialWindow
  BY AttachedFacts, ShrpxSpdyAssumption DEF Attached
<1>2. /\ t \in StateType /\ t.pc = "read" /\ t.reading = c /\ t.conn = r.conn /\ t.pool = pool
      /\ t.down[i] = d /\ t.stream[i].state = "open"
      /\ t.stream[i].credit = stream[i].credit /\ t.stream[i].update = stream[i].update
      /\ \A j \in Streams \ {i} : t.stream[j] = stream[j] /\ t.down[j] = down[j]
  BY <1>1 DEF Moves
<1>3. /\ Good(State) /\ State.down[i] # None /\ c = State.down[i].dconn /\ t.pool = State.pool
      /\ \A j \in Streams \ {i} : t.stream[j] = State.stream[j] /\ t.down[j] = State.down[j]
      /\ \A e \in Conns \ {c} : t.conn[e] = State.conn[e]
  BY <1>1, <1>2, StateFields
<1>4. /\ t.down[i] \in DownstreamType /\ t.down[i].dconn = c
      /\ c # None => t.conn[c].downstream = i
      /\ c # None => Match(t.down[i].response_state, t.conn[c].backend) /\ Accounted(t.conn[c])
      /\ t.stream[i].state = "open"
      /\ t.down[i].paused => t.down[i].body > 0
      /\ t.stream[i].credit + t.down[i].window + t.stream[i].update = InitialWindow
  BY <1>1, <1>2
<1>5. ReadGood(t)
  BY <1>1, <1>2, <1>4 DEF ReadGood
<1>6. i \in Streams /\ t \in StateType
  BY <1>1, <1>2
<1> QED
  BY ONLY <1>3, <1>4, <1>5, <1>6, OpenGood

\* The parser has failed: the downstream is left without a connection.
LEMMA FailureGood ==
  ASSUME IndInv, NEW c \in Conns, Attached(c), NEW i, i = conn[c].downstream, NEW r \in StateType,
         r.stream = stream, r.down = down, r.pool = pool, \A e \in Conns \ {c} : r.conn[e] = conn[e]
  PROVE  Good(parser_failure(r, i))
<1> DEFINE failed == IF r.down[i].response_state = "HEADER_COMPLETE" THEN rst_stream(r, i)
                     ELSE error_reply(r, i)
           w == [failed EXCEPT !.pc = "send", !.reading = None,
                               !.down[i].response_state = "MSG_COMPLETE"]
           t == delete_dconn(w, i)
<1>1. /\ i \in Streams /\ down[i] # None /\ down[i] \in DownstreamType /\ down[i].dconn = c
      /\ c # None /\ i # None /\ stream[i].state = "open" /\ c \notin pool
      /\ stream[i].credit + down[i].window + stream[i].update = InitialWindow
      /\ down[i].paused => down[i].body > 0
  BY AttachedFacts, ShrpxSpdyAssumption DEF Attached
<1>2. PICK d \in DownstreamType :
         /\ Moves(r, failed, i, d) /\ d.dconn = c /\ d.window = down[i].window
         /\ d.paused => d.body > 0
  <2>1. CASE r.down[i].response_state = "HEADER_COMPLETE"
    BY <1>1, <2>1, RstMoves
  <2>2. CASE r.down[i].response_state # "HEADER_COMPLETE"
    BY <1>1, <2>2, ErrorMoves
  <2> QED
    BY <2>1, <2>2
<1>3. /\ failed \in StateType /\ failed.conn = r.conn /\ failed.pool = pool /\ failed.down[i] = d
      /\ failed.stream[i].state = "open" /\ failed.stream[i].credit = stream[i].credit
      /\ failed.stream[i].update = stream[i].update
      /\ \A j \in Streams \ {i} : failed.stream[j] = stream[j] /\ failed.down[j] = down[j]
  <2> HIDE DEF failed
  <2> QED
    BY <1>1, <1>2 DEF Moves
<1>4. parser_failure(r, i) = t
  BY DEF parser_failure
<1> HIDE DEF failed
<1> DEFINE e == [d EXCEPT !.response_state = "MSG_COMPLETE"]
           f == [e EXCEPT !.dconn = None]
<1>5. /\ e \in DownstreamType /\ e.dconn = c /\ e.window = d.window /\ e.body = d.body
      /\ e.paused = d.paused
  BY <1>2 DEF DownstreamType
<1>6. w = [failed EXCEPT !.pc = "send", !.reading = None, !.down[i] = e]
  BY <1>1, <1>3, Fields DEF StateType
<1> HIDE DEF e
<1>7. /\ w \in StateType /\ w.pc = "send" /\ w.conn = r.conn /\ w.pool = pool
      /\ w.stream = failed.stream /\ w.down = [failed.down EXCEPT ![i] = e]
  <2> HIDE DEF w
  <2> QED
    BY <1>3, <1>5, <1>6 DEF StateType
<1>8. w.down[i] = e /\ \A j \in Streams \ {i} : w.down[j] = down[j]
  <2>1. failed.down \in [Streams -> DownstreamType \cup {None}] /\ i \in Streams
    BY <1>1, <1>3, Fields
  <2> QED
    BY ONLY <1>3, <1>7, <2>1
<1> HIDE DEF w
<1>9. /\ f \in DownstreamType /\ f.dconn = None /\ f.window = d.window /\ f.body = d.body
      /\ f.paused = d.paused /\ f # None
  BY <1>5, NullAssumption DEF DownstreamType
<1>10. t = [w EXCEPT !.down[i] = f, !.conn[c] = FreeConn]
  BY <1>1, <1>5, <1>7, <1>8, Fields DEF delete_dconn, StateType
<1> HIDE DEF f
<1>11. FreeConn \in ConnType /\ FreeConn.downstream = None /\ Accounted(FreeConn)
  BY FreeFacts
<1>12. /\ t \in StateType /\ t.pc = "send" /\ t.pool = pool /\ t.stream = failed.stream
       /\ t.down = [w.down EXCEPT ![i] = f] /\ t.conn = [r.conn EXCEPT ![c] = FreeConn]
  <2> HIDE DEF t
  <2> QED
    BY <1>1, <1>7, <1>9, <1>10, <1>11 DEF StateType
<1>13. /\ t.down[i] = f /\ t.conn[c] = FreeConn
       /\ \A j \in Streams \ {i} : t.stream[j] = stream[j] /\ t.down[j] = down[j]
       /\ \A g \in Conns \ {c} : t.conn[g] = conn[g]
  <2> HIDE DEF t
  <2> QED
    BY <1>1, <1>3, <1>7, <1>8, <1>12, Fields
<1> HIDE DEF t
<1>14. StreamGood(t, i)
  BY <1>1, <1>2, <1>3, <1>9, <1>12, <1>13 DEF StreamGood
<1>15. ConnGood(t, c) /\ ReadGood(t)
  BY <1>1, <1>11, <1>12, <1>13 DEF ConnGood, ReadGood
<1>16. /\ Good(State) /\ State.conn[c].downstream \in {None, i} /\ State.down[i].dconn \in {None, c}
       /\ \A j \in Streams \ {i} : t.stream[j] = State.stream[j] /\ t.down[j] = State.down[j]
       /\ \A g \in Conns \ {c} : t.conn[g] = State.conn[g] /\ (g \in t.pool <=> g \in State.pool)
  BY <1>1, <1>12, <1>13, StateFields
<1>17. i \in Streams \cup {None} /\ c \in Conns \cup {None} /\ t \in StateType
  BY <1>1, <1>12
<1>18. Good(t)
  BY <1>14, <1>15, <1>16, <1>17, Change
<1> QED
  BY <1>4, <1>18

\* The head of an answer is forwarded.
LEMMA HeadMoves ==
  ASSUME NEW r \in StateType, NEW i \in Streams, r.down[i] \in DownstreamType,
         NEW piece \in {"interim", "head", "headclose"}
  PROVE  \E d \in DownstreamType :
            /\ Moves(r, HeadersComplete(r, i, piece), i, d)
            /\ d.dconn = r.down[i].dconn /\ d.window = r.down[i].window /\ d.body = r.down[i].body
            /\ d.paused = r.down[i].paused /\ d.response_state = "HEADER_COMPLETE"
<1> DEFINE d == [r.down[i] EXCEPT !.response_state = "HEADER_COMPLETE", !.close = (piece = "headclose"),
                                  !.tunnel = (piece # "interim" /\ r.down[i].method = "CONNECT")]
           u == [r EXCEPT !.down[i] = d]
<1>1. /\ d \in DownstreamType /\ d.dconn = r.down[i].dconn /\ d.window = r.down[i].window
      /\ d.body = r.down[i].body /\ d.paused = r.down[i].paused /\ d.response_state = "HEADER_COMPLETE"
  BY DEF DownstreamType
<1>2. HeadersComplete(r, i, piece) = submit_response(u, i)
  BY DEF HeadersComplete
<1> HIDE DEF d
<1>3. Moves(r, u, i, d)
  BY <1>1, DownMoves
<1> HIDE DEF u
<1>4. u \in StateType /\ u.down[i] = d
  BY <1>3 DEF Moves
<1>5. Moves(r, submit_response(u, i), i, d)
  BY <1>1, <1>3, <1>4, SubmitMoves, MovesTwice
<1> QED
  BY <1>1, <1>2, <1>5

\* The message is complete.
LEMMA MessageMoves ==
  ASSUME NEW r \in StateType, NEW i \in Streams, r.down[i] \in DownstreamType
  PROVE  \E d \in DownstreamType :
            /\ Moves(r, MessageComplete(r, i), i, d)
            /\ d.dconn = r.down[i].dconn /\ d.window = r.down[i].window /\ d.body = r.down[i].body
            /\ d.paused = r.down[i].paused /\ d.response_state = "MSG_COMPLETE"
<1> DEFINE d == [r.down[i] EXCEPT !.response_state = "MSG_COMPLETE"]
           u == [r EXCEPT !.down[i].response_state = "MSG_COMPLETE"]
<1>1. /\ d \in DownstreamType /\ d.dconn = r.down[i].dconn /\ d.window = r.down[i].window
      /\ d.body = r.down[i].body /\ d.paused = r.down[i].paused /\ d.response_state = "MSG_COMPLETE"
  BY DEF DownstreamType
<1>2. MessageComplete(r, i) = resume_data(u, i)
  BY DEF MessageComplete
<1>3. u = [r EXCEPT !.down[i] = d]
  BY Fields DEF StateType, DownstreamType
<1> HIDE DEF d, u
<1>4. Moves(r, u, i, d)
  BY <1>1, <1>3, DownMoves
<1>5. u \in StateType /\ u.down[i] = d
  BY <1>4 DEF Moves
<1>6. Moves(r, resume_data(u, i), i, d)
  BY <1>1, <1>4, <1>5, ResumeMoves, MovesTwice
<1> QED
  BY <1>1, <1>2, <1>6

\* What a piece makes of the connection it is read from.
Answered(x, piece, after, pieces) ==
    [x EXCEPT !.backend = after, !.pieces = pieces,
              !.owed = IF piece = "end" THEN @ - 1 ELSE @, !.interim = @ \/ piece = "interim"]

\* The answers stay accounted for: the end is that of an answer that was owed, and a
\* second answer for one request follows an interim head.
LEMMA AnsweredFacts ==
  ASSUME NEW x \in ConnType, Accounted(x), NEW d, NEW piece \in Pieces, NEW pieces \in Nat,
         NEW after, after = After(x, d, piece), after # "impossible", NEW y,
         y = Answered(x, piece, after, pieces)
  PROVE  /\ y \in ConnType /\ y.downstream = x.downstream /\ y.backend = after
         /\ piece # "bad" => Accounted(y)
         /\ piece = "interim" => after = "interim"
         /\ piece \in {"head", "headclose"} => after = "headed"
         /\ piece = "body" => after = "headed" /\ x.backend = "headed"
         /\ piece = "end" => after = "ended"
<1>1. /\ piece = "interim" => after = "interim"
      /\ piece \in {"head", "headclose"} => after = "headed"
      /\ piece = "body" => after = "headed"
      /\ piece \in {"body", "end"} => x.backend = "headed"
      /\ piece = "end" => after = "ended"
      /\ piece = "bad" => after = "garbled"
      /\ piece \in {"interim", "head", "headclose"} =>
            x.backend \in {"silent", "interim"} \/ (x.backend = "ended" /\ x.owed > 0)
  BY DEF After
<1>2. x.owed \in Nat /\ x.interim \in BOOLEAN
  BY DEF ConnType
<1>3. after \in {"interim", "headed", "ended", "garbled"} /\ (piece = "end" => x.owed > 0)
  BY <1>1 DEF Pieces, Accounted
<1>4. /\ y \in ConnType /\ y.downstream = x.downstream /\ y.backend = after
      /\ y.owed = IF piece = "end" THEN x.owed - 1 ELSE x.owed
      /\ y.interim = (x.interim \/ piece = "interim")
  <2> DEFINE n == IF piece = "end" THEN x.owed - 1 ELSE x.owed
             h == x.interim \/ piece = "interim"
  <2>1. y = [x EXCEPT !.backend = after, !.pieces = pieces, !.owed = n, !.interim = h]
    BY DEF Answered
  <2>2. n \in Nat /\ h \in BOOLEAN
    BY <1>2, <1>3
  <2>3. after \in {"none", "silent", "interim", "headed", "garbled", "ended"}
    BY <1>3
  <2> HIDE DEF n, h
  <2>4. y \in ConnType /\ y.downstream = x.downstream /\ y.backend = after /\ y.owed = n /\ y.interim = h
    BY <2>1, <2>2, <2>3 DEF ConnType
  <2> QED
    BY <2>4 DEF n, h
<1>5. ASSUME piece # "bad" PROVE Accounted(y)
  <2>1. CASE piece = "interim"
    BY <1>1, <1>2, <1>4, <2>1 DEF Accounted
  <2>2. CASE piece \in {"head", "headclose"}
    BY <1>1, <1>2, <1>4, <2>2 DEF Accounted
  <2>3. CASE piece = "body"
    BY <1>1, <1>2, <1>4, <2>3 DEF Accounted
  <2>4. CASE piece = "end"
    BY <1>1, <1>2, <1>4, <2>4 DEF Accounted
  <2> QED
    BY <1>5, <2>1, <2>2, <2>3, <2>4 DEF Pieces
<1> QED
  BY <1>1, <1>4, <1>5

\* A piece of the answer is read and forwarded.
LEMMA ParseInv ==
  ASSUME IndInv, NEW c \in Conns, Attached(c), NEW piece \in Pieces, parse_http_response(c, piece)
  PROVE  IndInv'
<1> DEFINE i == conn[c].downstream
           after == After(conn[c], down[i], piece)
           pieces == conn[c].pieces + (IF piece = "body" THEN 1 ELSE 0)
           y == Answered(conn[c], piece, after, pieces)
           r == Reading(c, y)
<1>1. /\ i \in Streams /\ down[i] # None /\ down[i] \in DownstreamType /\ down[i].dconn = c
      /\ conn[c] \in ConnType /\ Match(down[i].response_state, conn[c].backend)
      /\ Accounted(conn[c])
      /\ down[i].paused => down[i].body > 0
  BY AttachedFacts
<1>2. /\ after # "impossible"
      /\ Becomes(IF piece = "bad" THEN parser_failure(r, i) ELSE ResponseHook(r, i, piece))
  BY DEF parse_http_response, Reading, Answered
<1>3. /\ y \in ConnType /\ y.downstream = i /\ y.backend = after
      /\ piece # "bad" => Accounted(y)
      /\ piece = "interim" => after = "interim"
      /\ piece \in {"head", "headclose"} => after = "headed"
      /\ piece = "body" => after = "headed" /\ conn[c].backend = "headed"
      /\ piece = "end" => after = "ended"
  <2>1. pieces \in Nat
    BY <1>1 DEF ConnType
  <2> HIDE DEF pieces
  <2> QED
    BY <1>1, <1>2, <2>1, AnsweredFacts
<1> HIDE DEF after, pieces, y
<1>4. /\ r \in StateType /\ r.pc = "read" /\ r.reading = c /\ r.stream = stream /\ r.down = down
      /\ r.pool = pool /\ r.conn[c] = y
      /\ \A e \in Conns \ {c} : r.conn[e] = conn[e]
  BY <1>3, ReadFacts
<1> HIDE DEF r, i
<1>5. ASSUME NEW d \in DownstreamType, NEW t, Moves(r, t, i, d), d.dconn = c, piece # "bad",
             d.window = down[i].window, Match(d.response_state, after), d.paused => d.body > 0
      PROVE  Good(t)
  <2>1. i = conn[c].downstream
    BY DEF i
  <2> QED
    BY <1>3, <1>4, <1>5, <2>1, ForwardGood
<1>6. CASE piece \in {"interim", "head", "headclose"}
  <2> DEFINE h == HeadersComplete(r, i, piece)
  <2>1. PICK d \in DownstreamType :
            /\ Moves(r, h, i, d) /\ d.dconn = c /\ d.window = down[i].window
            /\ d.body = down[i].body /\ d.paused = down[i].paused
            /\ d.response_state = "HEADER_COMPLETE"
    BY <1>1, <1>4, <1>6, HeadMoves
  <2>2. h \in StateType /\ h.down[i] = d
    BY <2>1 DEF Moves
  <2>3. CASE piece = "interim"
    <3>1. Becomes(MessageComplete(h, i))
      BY <1>2, <2>3 DEF ResponseHook
    <3> HIDE DEF h
    <3>2. PICK e \in DownstreamType :
              /\ Moves(h, MessageComplete(h, i), i, e) /\ e.dconn = d.dconn /\ e.window = d.window
              /\ e.body = d.body /\ e.paused = d.paused /\ e.response_state = "MSG_COMPLETE"
      BY <1>1, <2>2, MessageMoves
    <3>3. Moves(r, MessageComplete(h, i), i, e)
      BY <2>1, <3>2, MovesTwice
    <3>4. Match(e.response_state, after) /\ (e.paused => e.body > 0)
      BY <1>1, <1>3, <2>1, <2>3, <3>2 DEF Match
    <3>5. Good(MessageComplete(h, i))
      BY <1>5, <2>1, <2>3, <3>2, <3>3, <3>4
    <3> QED
      BY <3>1, <3>5, BecomesGood
  <2>4. CASE piece \in {"head", "headclose"}
    <3>1. Becomes(h)
      BY <1>2, <2>4 DEF ResponseHook
    <3> HIDE DEF h
    <3>2. Match(d.response_state, after) /\ (d.paused => d.body > 0)
      BY <1>1, <1>3, <2>1, <2>4 DEF Match
    <3>3. Good(h)
      BY <1>5, <2>1, <2>4, <3>2
    <3> QED
      BY <3>1, <3>3, BecomesGood
  <2> QED
    BY <1>6, <2>3, <2>4
<1>7. CASE piece = "body"
  <2>1. Becomes(on_downstream_body(r, i))
    BY <1>2, <1>7 DEF ResponseHook
  <2>2. PICK d \in DownstreamType :
            /\ Moves(r, on_downstream_body(r, i), i, d)
            /\ d.dconn = r.down[i].dconn /\ d.window = r.down[i].window
            /\ d.response_state = r.down[i].response_state /\ d.body > 0
    BY <1>1, <1>4, BodyMoves
  <2>3. d.dconn = c /\ d.window = down[i].window /\ Match(d.response_state, after)
    BY <1>1, <1>3, <1>4, <1>7, <2>2
  <2>4. Good(on_downstream_body(r, i))
    BY <1>5, <1>7, <2>2, <2>3
  <2> QED
    BY <2>1, <2>4, BecomesGood
<1>8. CASE piece = "end"
  <2>1. Becomes(MessageComplete(r, i))
    BY <1>2, <1>8 DEF ResponseHook
  <2>2. PICK d \in DownstreamType :
            /\ Moves(r, MessageComplete(r, i), i, d) /\ d.dconn = c /\ d.window = down[i].window
            /\ d.body = down[i].body /\ d.paused = down[i].paused /\ d.response_state = "MSG_COMPLETE"
    BY <1>1, <1>4, MessageMoves
  <2>3. Match(d.response_state, after) /\ (d.paused => d.body > 0)
    BY <1>1, <1>3, <1>8, <2>2 DEF Match
  <2>4. Good(MessageComplete(r, i))
    BY <1>5, <1>8, <2>2, <2>3
  <2> QED
    BY <2>1, <2>4, BecomesGood
<1>9. CASE piece = "bad"
  <2>1. Becomes(parser_failure(r, i)) /\ i = conn[c].downstream
    BY <1>2, <1>9 DEF i
  <2> QED
    BY <1>4, <2>1, FailureGood, BecomesGood
<1> QED
  BY <1>6, <1>7, <1>8, <1>9 DEF Pieces

\* The backend's bytes are read, piece by piece.
LEMMA ReadInv ==
  ASSUME IndInv, NEW c \in Conns, spdy_downstream_readcb(c)
  PROVE  IndInv'
<1> DEFINE t == [State EXCEPT !.pc = "send", !.reading = None]
<1>1. ASSUME pc = "read", reading = c PROVE Attached(c)
  BY <1>1, StateFields DEF Good, ReadGood, Attached
<1>2. CASE Becomes(t)
  <2>1. /\ t.pc = "send" /\ t.stream = State.stream /\ t.down = State.down
        /\ t.conn = State.conn /\ t.pool = State.pool /\ t \in StateType
    BY StateFields DEF State, StateType
  <2> HIDE DEF t
  <2>2. Good(t)
    BY <2>1, StateFields, ControlGood DEF ReadGood
  <2> QED
    BY <1>2, <2>2, BecomesGood
<1>3. CASE Attached(c) /\ \E piece \in Pieces : parse_http_response(c, piece)
  BY <1>3, ParseInv
<1> QED
  BY <1>1, <1>2, <1>3 DEF spdy_downstream_readcb

\* Stream i is opened, and d is its downstream.
Opened(i, fin, d) ==
    [Receiving EXCEPT !.stream[i].state = "open", !.stream[i].fin = fin, !.down[i] = d]

\* Nothing is counted yet, and there is no connection.
LEMMA OpenedGood ==
  ASSUME IndInv, NEW i \in Streams, stream[i].state = "idle", NEW fin \in BOOLEAN,
         NEW d \in DownstreamType, d.dconn = None, d.window = 0, ~d.paused, NEW s,
         s = Opened(i, fin, d)
  PROVE  /\ Good(s) /\ s.pc = "recv" /\ s.conn = conn /\ s.pool = pool /\ s.down[i] = d
<1> DEFINE r == Receiving
           x == [stream[i] EXCEPT !.state = "open"]
           u == [r EXCEPT !.stream[i] = x]
           y == [x EXCEPT !.fin = fin]
<1>0. i \in Streams /\ d \in DownstreamType
  OBVIOUS
<1>1. /\ Good(r) /\ r \in StateType /\ r.pc = "recv" /\ r.stream = stream /\ r.down = down
      /\ r.conn = conn /\ r.pool = pool
  BY PcGood DEF Receiving
<1>2. /\ stream[i] \in StreamType /\ down[i] = None /\ d # None
      /\ stream[i].credit = InitialWindow /\ stream[i].update = 0
  <2>1. StreamGood(r, i)
    BY <1>1 DEF Good
  <2> QED
    BY <1>1, <2>1, OpenHasDownstream, NullAssumption DEF StreamGood
<1>3. s = [[u EXCEPT !.stream[i].fin = fin] EXCEPT !.down[i] = d]
  <2>1. [r EXCEPT !.stream[i].state = "open"] = u
    BY <1>1, Fields DEF StateType
  <2> HIDE DEF u, r
  <2>2. s = [[[r EXCEPT !.stream[i].state = "open"] EXCEPT !.stream[i].fin = fin] EXCEPT !.down[i] = d]
    BY DEF r, Opened
  <2> QED
    BY <2>1, <2>2
<1> HIDE DEF r
<1>4. x \in StreamType /\ x.state = "open" /\ x.credit = InitialWindow /\ x.update = 0
  BY <1>2 DEF StreamType
<1> HIDE DEF x
<1>5. /\ u \in StateType /\ u.pc = "recv" /\ u.down = down /\ u.conn = conn /\ u.pool = pool
      /\ u.stream = [stream EXCEPT ![i] = x]
  BY <1>1, <1>4 DEF StateType
<1>6. u.stream[i] = x /\ \A j \in Streams \ {i} : u.stream[j] = stream[j]
  BY <1>1, <1>5, Fields
<1> HIDE DEF u
<1>7. y \in StreamType /\ y.state = "open" /\ y.credit = InitialWindow /\ y.update = 0
  BY <1>4 DEF StreamType
<1>8. s = [u EXCEPT !.stream[i] = y, !.down[i] = d]
  BY <1>3, <1>5, <1>6, Fields DEF StateType
<1> HIDE DEF y
<1>9. /\ s \in StateType /\ s.pc = "recv" /\ s.conn = conn /\ s.pool = pool
      /\ s.stream = [u.stream EXCEPT ![i] = y] /\ s.down = [u.down EXCEPT ![i] = d]
  BY ONLY <1>0, <1>5, <1>7, <1>8 DEF StateType
<1>10. /\ s.stream[i] = y /\ s.down[i] = d
       /\ \A j \in Streams \ {i} : s.stream[j] = r.stream[j] /\ s.down[j] = r.down[j]
  BY ONLY <1>0, <1>1, <1>5, <1>6, <1>9, Fields
<1>11. StreamGood(s, i)
  BY <1>2, <1>7, <1>10, ShrpxSpdyAssumption DEF StreamGood
<1>12. ReadGood(s) /\ i \in Streams \cup {None} /\ None \in Conns \cup {None} /\ r.down[i] = None
  BY <1>1, <1>2, <1>9 DEF ReadGood
<1>13. \A e \in Conns \ {None} : s.conn[e] = r.conn[e] /\ (e \in s.pool <=> e \in r.pool)
  BY <1>1, <1>9
<1>14. s \in StateType
  BY <1>9
<1>15. Good(s)
  BY ONLY <1>1, <1>10, <1>11, <1>12, <1>13, <1>14, Change
<1> QED
  BY <1>9, <1>10, <1>15

\* The request of a new stream is given to a connection that no downstream has.
LEMMA PushedGood ==
  ASSUME NEW s, Good(s), s.pc # "read", NEW i \in Streams, s.down[i] # None, s.down[i].dconn = None,
         s.down[i].response_state = "INITIAL", NEW c \in Conns, s.conn[c].downstream = None,
         s.conn[c].backend \in {"none", "ended", "interim"}, NEW q \in {"HEADER_COMPLETE", "MSG_COMPLETE"}, NEW t,
         t = [attach_downstream(s, i, c) EXCEPT !.down[i].request_state = q]
  PROVE  Good(t)
<1> DEFINE d == [s.down[i] EXCEPT !.dconn = c]
           y == [s.conn[c] EXCEPT !.downstream = i, !.tx = TRUE, !.backend = "silent", !.owed = @ + 1]
           u == attach_downstream(s, i, c)
           e == [d EXCEPT !.request_state = q]
<1>0. i \in Streams /\ c \in Conns
  OBVIOUS
<1>1. s \in StateType /\ s.down[i] \in DownstreamType /\ StreamGood(s, i)
  BY Fields DEF Good
<1>2. y \in ConnType /\ y.downstream = i /\ y.backend = "silent" /\ Accounted(y)
  <2>1. s.conn[c] \in ConnType /\ Accounted(s.conn[c])
    BY Fields DEF Good, ConnGood
  <2>2. /\ y \in ConnType /\ y.downstream = i /\ y.backend = "silent"
        /\ y.owed = s.conn[c].owed + 1 /\ y.interim = s.conn[c].interim
    <3> DEFINE n == s.conn[c].owed + 1
    <3>1. y = [s.conn[c] EXCEPT !.downstream = i, !.tx = TRUE, !.backend = "silent", !.owed = n]
      OBVIOUS
    <3>2. n \in Nat
      BY <2>1 DEF ConnType
    <3> HIDE DEF n, y
    <3>3. y \in ConnType /\ y.downstream = i /\ y.backend = "silent" /\ y.owed = n /\ y.interim = s.conn[c].interim
      BY <2>1, <3>1, <3>2 DEF ConnType
    <3> QED
      BY <3>3 DEF n
  <2>3. s.conn[c].owed \in Nat /\ (s.conn[c].interim \/ s.conn[c].owed = 0)
    BY <2>1 DEF ConnType, Accounted
  <2> HIDE DEF y
  <2> QED
    BY <2>2, <2>3 DEF Accounted
<1>3. /\ d \in DownstreamType /\ d.dconn = c /\ d.window = s.down[i].window
      /\ d.body = s.down[i].body /\ d.paused = s.down[i].paused /\ d.response_state = "INITIAL"
  BY <1>1 DEF DownstreamType
<1>4. u = [s EXCEPT !.pool = @ \ {c}, !.down[i] = d, !.conn[c] = y]
  <2>1. u = [s EXCEPT !.pool = @ \ {c}, !.down[i].dconn = c, !.conn[c] = y]
    BY DEF attach_downstream
  <2> HIDE DEF y, u
  <2> QED
    BY <1>1, <2>1, Fields DEF StateType
<1> HIDE DEF d, y
<1>5. /\ u \in StateType /\ u.pc = s.pc /\ u.stream = s.stream /\ u.pool = s.pool \ {c}
      /\ u.down = [s.down EXCEPT ![i] = d] /\ u.conn = [s.conn EXCEPT ![c] = y]
  <2> HIDE DEF u
  <2> QED
    BY <1>1, <1>2, <1>3, <1>4 DEF StateType
<1> HIDE DEF u
<1>6. u.down[i] = d
  BY <1>1, <1>5, Fields
<1>7. /\ e \in DownstreamType /\ e.dconn = c /\ e.window = s.down[i].window
      /\ e.body = s.down[i].body /\ e.paused = s.down[i].paused /\ e.response_state = "INITIAL"
      /\ e # None
  BY <1>3, NullAssumption DEF DownstreamType
<1>8. t = [u EXCEPT !.down[i] = e]
  <2>1. t = [u EXCEPT !.down[i].request_state = q]
    BY DEF u
  <2> QED
    BY <1>5, <1>6, <2>1, Fields DEF StateType
<1> HIDE DEF e
<1>9. /\ t \in StateType /\ t.pc = s.pc /\ t.stream = s.stream /\ t.pool = s.pool \ {c}
      /\ t.down = [u.down EXCEPT ![i] = e] /\ t.conn = u.conn
  BY ONLY <1>0, <1>5, <1>7, <1>8 DEF StateType
<1>10. /\ t.down[i] = e /\ t.conn[c] = y /\ c \notin t.pool
       /\ \A j \in Streams \ {i} : t.stream[j] = s.stream[j] /\ t.down[j] = s.down[j]
       /\ \A g \in Conns \ {c} : t.conn[g] = s.conn[g] /\ (g \in t.pool <=> g \in s.pool)
  BY ONLY <1>0, <1>1, <1>5, <1>9, Fields
<1>11. StreamGood(t, i)
  <2>1. /\ s.stream[i].state = "open"
        /\ s.down[i].paused => s.down[i].body > 0
        /\ s.stream[i].credit + s.down[i].window + s.stream[i].update = InitialWindow
    BY <1>1 DEF StreamGood
  <2>2. Match("INITIAL", "silent")
    BY DEF Match
  <2> QED
    BY ONLY <1>2, <1>7, <1>9, <1>10, <2>1, <2>2 DEF StreamGood
<1>12. ConnGood(t, c) /\ ReadGood(t)
  BY ZenonT(40), <1>2, <1>7, <1>9, <1>10 DEF ConnGood, ReadGood
<1>13. /\ i \in Streams \cup {None} /\ c \in Conns \cup {None} /\ t \in StateType
       /\ s.conn[c].downstream \in {None, i} /\ s.down[i].dconn \in {None, c} /\ Good(s)
  BY <1>9
<1> QED
  BY ONLY <1>10, <1>11, <1>12, <1>13, Change

\* SYN_STREAM from the client.
LEMMA SynInv ==
  ASSUME IndInv, NEW i \in Streams, NEW method \in Methods[i], NEW fin \in BOOLEAN,
         NEW valid \in BOOLEAN, NEW ok \in BOOLEAN, SynStream(i, method, fin, valid, ok)
  PROVE  IndInv'
<1> DEFINE d == NewDownstream(method)
           s == Opened(i, fin, d)
           q == IF fin THEN "MSG_COMPLETE" ELSE "HEADER_COMPLETE"
           pushed(c) == [attach_downstream(s, i, c) EXCEPT !.down[i].request_state = q]
           u == rst_stream(s, i)
           e == [d EXCEPT !.request_state = "CONNECT_FAIL"]
           failed == [u EXCEPT !.down[i].request_state = "CONNECT_FAIL"]
<1>1. /\ d \in DownstreamType /\ d.dconn = None /\ d.window = 0 /\ ~d.paused
      /\ d.response_state = "INITIAL" /\ d # None
  <2>1. method \in {"plain", "CONNECT"}
    BY ShrpxSpdyAssumption
  <2>2. /\ d \in DownstreamType /\ d.dconn = None /\ d.window = 0 /\ ~d.paused
        /\ d.response_state = "INITIAL"
    BY <2>1 DEF NewDownstream, DownstreamType
  <2> HIDE DEF d
  <2> QED
    BY <2>2, NullAssumption
<1>2. /\ stream[i].state = "idle"
      /\ \/ Becomes(u)
         \/ \E c \in Conns : (c \in pool \/ conn[c] = FreeConn) /\ Becomes(pushed(c))
         \/ Becomes(failed)
  <2>1. pool \subseteq Conns
    BY StateFields, Fields
  <2> QED
    BY <2>1 DEF SynStream, Opened
<1> HIDE DEF d
<1>3. Good(s) /\ s.pc = "recv" /\ s.conn = conn /\ s.pool = pool /\ s.down[i] = d
  <2>1. stream[i].state = "idle"
    BY <1>2
  <2> HIDE DEF s
  <2>2. s = Opened(i, fin, d)
    BY DEF s
  <2>3. IndInv /\ i \in Streams /\ fin \in BOOLEAN /\ d \in DownstreamType
    BY <1>1
  <2>4. d.dconn = None /\ d.window = 0 /\ ~d.paused
    BY <1>1
  <2> QED
    BY ONLY <2>1, <2>2, <2>3, <2>4, OpenedGood
<1> HIDE DEF s
<1>4. Good(u) /\ u.down[i] = d
  BY <1>1, <1>3, RstGood
<1>5. ASSUME NEW c \in Conns, c \in pool \/ conn[c] = FreeConn PROVE Good(pushed(c))
  <2>1. s.conn[c].downstream = None /\ s.conn[c].backend \in {"none", "ended", "interim"}
    BY <1>3, <1>5 DEF Good, ConnGood, FreeConn
  <2>2. q \in {"HEADER_COMPLETE", "MSG_COMPLETE"} /\ s.pc # "read"
    BY <1>3
  <2>3. s.down[i] # None /\ s.down[i].dconn = None /\ s.down[i].response_state = "INITIAL"
    BY <1>1, <1>3
  <2> HIDE DEF q
  <2> QED
    BY <1>3, <2>1, <2>2, <2>3, PushedGood
<1>6. Good(failed)
  <2> HIDE DEF u
  <2>1. /\ e \in DownstreamType /\ e.dconn = None /\ e.window = d.window /\ ~e.paused
    BY <1>1 DEF DownstreamType
  <2>2. u \in StateType /\ failed = [u EXCEPT !.down[i] = e]
    BY <1>4, Fields DEF Good, StateType
  <2> HIDE DEF e, failed
  <2>3. Moves(u, failed, i, e)
    BY <2>1, <2>2, DownMoves
  <2> QED
    BY <1>1, <1>4, <2>1, <2>3, MovesGood
<1> HIDE DEF pushed, u, failed
<1> QED
  BY <1>2, <1>4, <1>5, <1>6, BecomesGood

\* len pieces of the request body come and are handed to connection c.
Taken(r, i, len, fin) ==
    [r EXCEPT !.stream[i].credit = @ - len, !.stream[i].upload = @ + len, !.stream[i].fin = fin]
Pushed(s, c) == IF c = None THEN s ELSE [s EXCEPT !.conn[c].tx = TRUE]
Grown(s, i, len) == [s EXCEPT !.down[i].window = @ + len]

\* What the client has sent is counted: credit it had is now in the window.
LEMMA GrownGood ==
  ASSUME NEW r, Good(r), r.pc # "read", NEW i \in Streams, r.down[i] # None,
         NEW c, c = r.down[i].dconn, NEW len \in Nat, len <= r.stream[i].credit,
         NEW fin \in BOOLEAN, NEW taken, NEW push, NEW grown,
         taken = Taken(r, i, len, fin), push = Pushed(taken, c), grown = Grown(push, i, len)
  PROVE  Good(grown) /\ grown.pc = r.pc /\ grown.down[i] \in DownstreamType
<1> DEFINE x == [r.stream[i] EXCEPT !.credit = @ - len]
           y == [x EXCEPT !.upload = @ + len]
           z == [y EXCEPT !.fin = fin]
           d == [r.down[i] EXCEPT !.window = @ + len]
           b == [r.conn[c] EXCEPT !.tx = TRUE]
           u == [r EXCEPT !.stream[i] = x]
           v == [u EXCEPT !.stream[i] = y]
<1>0. i \in Streams /\ len \in Nat /\ fin \in BOOLEAN
  OBVIOUS
<1>1. /\ r \in StateType /\ r.stream[i] \in StreamType /\ r.down[i] \in DownstreamType
      /\ c \in Conns \cup {None} /\ i # None
  BY Fields, ShrpxSpdyAssumption DEF Good, DownstreamType
<1>2. /\ r.stream[i].state = "open"
      /\ r.down[i].paused => r.down[i].body > 0
      /\ r.stream[i].credit + r.down[i].window + r.stream[i].update = InitialWindow
      /\ c # None => r.conn[c].downstream = i
      /\ c # None => Match(r.down[i].response_state, r.conn[c].backend) /\ Accounted(r.conn[c])
  BY <1>1 DEF Good, StreamGood, ConnGood
<1>3. /\ x \in StreamType /\ x.state = "open" /\ x.credit = r.stream[i].credit - len
      /\ x.update = r.stream[i].update
  BY <1>1, <1>2 DEF StreamType
<1>4. [r EXCEPT !.stream[i].credit = @ - len] = u
  BY <1>1, Fields DEF StateType, StreamType
<1>5. taken = [[u EXCEPT !.stream[i].upload = @ + len] EXCEPT !.stream[i].fin = fin]
  <2> HIDE DEF u
  <2> QED
    BY ZenonT(40), <1>4 DEF Taken
<1> HIDE DEF x
<1>6. /\ u \in StateType /\ u.pc = r.pc /\ u.down = r.down /\ u.conn = r.conn /\ u.pool = r.pool
      /\ u.stream = [r.stream EXCEPT ![i] = x]
  BY ONLY <1>0, <1>1, <1>3 DEF StateType, u
<1>7. u.stream[i] = x /\ \A j \in Streams \ {i} : u.stream[j] = r.stream[j]
  BY ONLY <1>0, <1>1, <1>6, Fields
<1> HIDE DEF u
<1>8. /\ y \in StreamType /\ y.state = "open" /\ y.credit = r.stream[i].credit - len
      /\ y.update = r.stream[i].update
  BY ONLY <1>0, <1>3 DEF StreamType, y
<1>9. [u EXCEPT !.stream[i].upload = @ + len] = v
  BY ONLY <1>0, <1>3, <1>6, <1>7, Fields DEF StateType, StreamType, v, y
<1> HIDE DEF y
<1>10. /\ v \in StateType /\ v.pc = r.pc /\ v.down = r.down /\ v.conn = r.conn /\ v.pool = r.pool
       /\ v.stream = [u.stream EXCEPT ![i] = y]
  BY ONLY <1>0, <1>6, <1>8 DEF StateType, v
<1>11. v.stream[i] = y /\ \A j \in Streams \ {i} : v.stream[j] = r.stream[j]
  BY ONLY <1>0, <1>6, <1>7, <1>10, Fields
<1>12. taken = [v EXCEPT !.stream[i].fin = fin]
  <2> HIDE DEF v
  <2> QED
    BY <1>5, <1>9
<1> HIDE DEF v
<1>13. /\ z \in StreamType /\ z.state = "open" /\ z.credit = r.stream[i].credit - len
       /\ z.update = r.stream[i].update
  BY ONLY <1>0, <1>8 DEF StreamType, z
<1>14. taken = [v EXCEPT !.stream[i] = z]
  BY ONLY <1>0, <1>10, <1>11, <1>12, Fields DEF StateType, z
<1> HIDE DEF z
<1>15. /\ taken \in StateType /\ taken.pc = r.pc /\ taken.down = r.down /\ taken.conn = r.conn
       /\ taken.pool = r.pool /\ taken.stream = [v.stream EXCEPT ![i] = z]
  BY ONLY <1>0, <1>10, <1>13, <1>14 DEF StateType
<1>16. taken.stream[i] = z /\ \A j \in Streams \ {i} : taken.stream[j] = r.stream[j]
  BY ONLY <1>0, <1>10, <1>11, <1>15, Fields
<1>17. /\ push \in StateType /\ push.pc = r.pc /\ push.down = r.down /\ push.pool = r.pool
       /\ push.stream = taken.stream
       /\ c # None => /\ push.conn[c].downstream = i /\ push.conn[c].backend = r.conn[c].backend
                      /\ Accounted(push.conn[c])
       /\ \A e \in Conns \ {c} : push.conn[e] = r.conn[e]
  <2>1. CASE c = None
    BY ONLY <1>15, <2>1, push = Pushed(taken, c) DEF Pushed
  <2>2. CASE c # None
    <3>1. c \in Conns /\ r.conn[c] \in ConnType
      BY <1>1, <2>2, Fields
    <3>2. /\ b \in ConnType /\ b.downstream = i /\ b.backend = r.conn[c].backend
          /\ b.owed = r.conn[c].owed /\ b.interim = r.conn[c].interim
      BY ONLY <1>2, <2>2, <3>1 DEF ConnType, b
    <3>3. push = [taken EXCEPT !.conn[c].tx = TRUE]
      BY <2>2 DEF Pushed
    <3>4. push = [taken EXCEPT !.conn[c] = b]
      BY ONLY <1>15, <3>1, <3>3, Fields DEF StateType, b
    <3> HIDE DEF b
    <3>5. /\ push \in StateType /\ push.pc = r.pc /\ push.down = r.down /\ push.pool = r.pool
          /\ push.stream = taken.stream /\ push.conn = [r.conn EXCEPT ![c] = b]
      BY ONLY <1>15, <3>1, <3>2, <3>4 DEF StateType
    <3>6. push.conn[c] = b /\ \A e \in Conns \ {c} : push.conn[e] = r.conn[e]
      BY ONLY <1>1, <3>1, <3>5, Fields
    <3>7. Accounted(b)
      BY ONLY <1>2, <2>2, <3>2, AccountKept
    <3> QED
      BY ONLY <3>2, <3>5, <3>6, <3>7
  <2> QED
    BY <2>1, <2>2
<1>18. /\ d \in DownstreamType /\ d.dconn = c /\ d.window = r.down[i].window + len
       /\ d.response_state = r.down[i].response_state /\ d.body = r.down[i].body
       /\ d.paused = r.down[i].paused
  BY <1>1 DEF DownstreamType
<1>19. grown = [push EXCEPT !.down[i] = d]
  BY ONLY <1>0, <1>1, <1>17, grown = Grown(push, i, len), Fields
     DEF StateType, DownstreamType, Grown, d
<1> HIDE DEF d
<1>20. /\ grown \in StateType /\ grown.pc = r.pc /\ grown.conn = push.conn /\ grown.pool = r.pool
       /\ grown.stream = taken.stream /\ grown.down = [push.down EXCEPT ![i] = d]
  BY ONLY <1>0, <1>17, <1>18, <1>19 DEF StateType
<1>21. /\ grown.down[i] = d /\ grown.stream[i] = z
       /\ \A j \in Streams \ {i} : grown.stream[j] = r.stream[j] /\ grown.down[j] = r.down[j]
  BY ONLY <1>0, <1>1, <1>16, <1>17, <1>20, Fields
<1>22. z.credit + d.window + z.update = InitialWindow
  BY ONLY <1>0, <1>1, <1>2, <1>13, <1>18, ShrpxSpdyAssumption DEF StreamType, DownstreamType
<1>23. /\ grown.down[i] \in DownstreamType /\ grown.down[i].dconn = c
       /\ c # None => grown.conn[c].downstream = i
       /\ c # None => Match(grown.down[i].response_state, grown.conn[c].backend) /\ Accounted(grown.conn[c])
       /\ grown.stream[i].state = "open"
       /\ grown.down[i].paused => grown.down[i].body > 0
       /\ grown.stream[i].credit + grown.down[i].window + grown.stream[i].update = InitialWindow
  BY ONLY <1>2, <1>13, <1>17, <1>18, <1>20, <1>21, <1>22
<1>24. ReadGood(grown) /\ grown.pool = r.pool /\ \A e \in Conns \ {c} : grown.conn[e] = r.conn[e]
  BY ZenonT(40), <1>17, <1>20 DEF ReadGood
<1>25. Good(r) /\ r.down[i] # None /\ c = r.down[i].dconn /\ grown \in StateType
  BY <1>20
<1>26. Good(grown)
  BY ONLY <1>0, <1>21, <1>23, <1>24, <1>25, OpenGood
<1> QED
  BY <1>20, <1>23, <1>26

\* DATA from the client.
LEMMA DataInv ==
  ASSUME IndInv, NEW i \in Streams, NEW len \in 0 .. 1, NEW fin \in BOOLEAN, DataChunk(i, len, fin)
  PROVE  IndInv'
<1> DEFINE r == Receiving
           c == IF down[i] = None THEN None ELSE down[i].dconn
           taken == Taken(r, i, len, fin)
           push == Pushed(taken, c)
           grown == Grown(push, i, len)
           counted == [grown EXCEPT !.down[i].request_state = IF fin THEN "MSG_COMPLETE" ELSE @]
           s == IF down[i] = None THEN taken
                ELSE IF grown.down[i].window > InitialWindow THEN rst_stream(grown, i)
                ELSE counted
<1>1. stream[i].state = "open" /\ len <= stream[i].credit
  BY DEF DataChunk
<1>2. down[i] # None
  BY <1>1, OpenHasDownstream
<1>3. Becomes(CloseIfDone(s, i))
  BY DEF DataChunk, Taken, Pushed, Grown
<1>4. Good(r) /\ r.pc = "recv" /\ r.stream = stream /\ r.down = down
  BY PcGood DEF Receiving
<1>5. Good(grown) /\ grown.pc = "recv" /\ grown.down[i] \in DownstreamType
  <2>1. Good(r) /\ r.pc # "read" /\ r.down[i] # None /\ c = r.down[i].dconn /\ len <= r.stream[i].credit
    BY <1>1, <1>2, <1>4
  <2>2. len \in Nat /\ i \in Streams /\ fin \in BOOLEAN
    OBVIOUS
  <2> HIDE DEF r, c
  <2>3. taken = Taken(r, i, len, fin) /\ push = Pushed(taken, c) /\ grown = Grown(push, i, len)
    OBVIOUS
  <2> HIDE DEF taken, push, grown
  <2>4. Good(grown) /\ grown.pc = r.pc /\ grown.down[i] \in DownstreamType
    BY ONLY <2>1, <2>2, <2>3, GrownGood
  <2> QED
    BY <1>4, <2>4
<1> HIDE DEF grown
<1>6. grown \in StateType /\ grown.down[i] # None /\ StreamGood(grown, i)
  BY <1>5, NullAssumption DEF Good
<1>7. Good(rst_stream(grown, i)) /\ rst_stream(grown, i).down[i] # None /\ rst_stream(grown, i).pc = "recv"
  BY <1>5, <1>6, RstGood
<1>8. Good(counted) /\ counted.down[i] # None /\ counted.pc = "recv"
  <2> DEFINE e == [grown.down[i] EXCEPT !.request_state = IF fin THEN "MSG_COMPLETE" ELSE @]
  <2>1. /\ e \in DownstreamType /\ e.dconn = grown.down[i].dconn /\ e.window = grown.down[i].window
        /\ e.body = grown.down[i].body /\ e.paused = grown.down[i].paused
        /\ e.response_state = grown.down[i].response_state
    BY <1>5 DEF DownstreamType
  <2>2. counted = [grown EXCEPT !.down[i] = e]
    BY <1>6, Fields DEF StateType
  <2> HIDE DEF e, counted
  <2>3. Moves(grown, counted, i, e)
    BY <1>6, <2>1, <2>2, DownMoves
  <2>4. /\ e.dconn # None => Match(e.response_state, grown.conn[e.dconn].backend)
        /\ e.paused => e.body > 0
    BY <1>6, <2>1 DEF StreamGood
  <2>5. Good(counted)
    BY <1>5, <1>6, <2>1, <2>3, <2>4, MovesGood
  <2> QED
    BY <1>5, <2>1, <2>3, <2>5, NullAssumption DEF Moves
<1> HIDE DEF counted
<1>9. Good(s) /\ s.down[i] # None /\ s.pc # "read"
  BY <1>2, <1>7, <1>8
<1> HIDE DEF s
<1>10. Good(CloseIfDone(s, i))
  BY <1>9, CloseIfDoneGood
<1> QED
  BY <1>3, <1>10, BecomesGood

-----------------------------------------------------------------------------
(* The theorems.                                                           *)

\* Every step keeps the invariant.
LEMMA NextInv ==
  ASSUME IndInv, [Next]_vars
  PROVE  IndInv'
<1>1. ASSUME NEW i \in Streams, ClientFrame(i) PROVE IndInv'
  BY <1>1, SynInv, DataInv, RecvInv DEF ClientFrame
<1>2. CASE RecvDone \/ RecvFails \/ upstream_eventcb
  BY <1>2, RecvInv
<1>3. CASE Sending
  BY <1>3, SendInv DEF Sending
<1>4. CASE upstream_writecb
  BY <1>4, WritecbInv
<1>5. CASE DownstreamCallback
  BY <1>5, ReadInv, DrainedInv, EventInv DEF DownstreamCallback
<1>6. CASE \E c \in Conns : idle_eventcb(c)
  BY <1>6, IdleInv
<1>7. CASE UNCHANGED vars
  BY <1>7 DEF vars, IndInv, State
<1> QED
  BY <1>1, <1>2, <1>3, <1>4, <1>5, <1>6, <1>7 DEF Next

\* The inductive invariant holds of every reachable state: every stream's downstream, its
\* connection and its credit fit together, and so do every connection's pointer and the pool.
THEOREM Invariance == Spec => []IndInv
BY InitInv, NextInv, PTL DEF Spec

\* The values of the state have their types.
THEOREM ProxyTypes == Spec => []TypeOK
<1>1. ASSUME IndInv PROVE TypeOK
  BY <1>1, StateFields, Fields DEF TypeOK
<1> QED
  BY <1>1, Invariance, PTL

\* Every pointer a callback follows is alive, whatever order streams close and backends
\* fail in: a downstream and its connection point at each other, and a pooled connection
\* belongs to no one.
THEOREM PointersAlive == Spec => []ConnectionsOwned
<1>1. ASSUME IndInv PROVE ConnectionsOwned
  <2>1. /\ \A c \in Conns : ConnGood(State, c)
        /\ State.conn = conn /\ State.down = down /\ State.pool = pool /\ pool \subseteq Conns
    BY <1>1, StateFields, Fields DEF Good
  <2>2. \A c \in Conns : LET i == conn[c].downstream IN
           i # None => down[i] # None /\ down[i].dconn = c /\ c \notin pool
    BY <2>1 DEF ConnGood
  <2>3. \A i \in Streams :
           down[i] # None /\ down[i].dconn # None => conn[down[i].dconn].downstream = i
    BY <1>1, OpenHasDownstream
  <2>4. \A c \in pool : conn[c].backend # "none"
    BY <2>1 DEF ConnGood
  <2> QED
    BY <2>2, <2>3, <2>4 DEF ConnectionsOwned
<1> QED
  BY <1>1, Invariance, PTL

\* spdy_data_read_callback never follows source->ptr to a deleted Downstream: it lives
\* exactly as long as the stream is open.
THEOREM SourceAlive == Spec => []DataSourceAlive
<1>1. ASSUME IndInv PROVE DataSourceAlive
  <2>1. \A i \in Streams : stream[i].state = "open" <=> down[i] # None
    BY <1>1, OpenHasDownstream
  <2> QED
    BY <2>1 DEF DataSourceAlive
<1> QED
  BY <1>1, Invariance, PTL

\* A connection in the pool is between two messages, and every answer on it has been read
\* unless a 1xx head came: on_stream_close_callback detaches only a complete response, and
\* a response is complete only with a message of its backend as long as it has a connection.
THEOREM PoolIsClean == Spec => []PooledAnswerRead
<1>1. ASSUME IndInv PROVE PooledAnswerRead
  <2>1. /\ \A c \in Conns : ConnGood(State, c)
        /\ State.conn = conn /\ State.pool = pool /\ pool \subseteq Conns
    BY <1>1, StateFields, Fields DEF Good
  <2>2. ASSUME NEW c \in pool
        PROVE  conn[c].backend \in {"ended", "interim"} /\ (conn[c].owed = 0 \/ conn[c].interim)
    <3>1. conn[c].backend \in {"ended", "interim"} /\ Accounted(conn[c])
      BY <2>1 DEF ConnGood
    <3> QED
      BY <3>1 DEF Accounted
  <2> QED
    BY <2>2 DEF PooledAnswerRead
<1> QED
  BY <1>1, Invariance, PTL

\* A backend that is not read has a body in its buffer whose removal resumes it.
THEOREM PausedIsResumed == Spec => []PausedHasBody
<1>1. ASSUME IndInv PROVE PausedHasBody
  BY <1>1, OpenHasDownstream DEF PausedHasBody
<1> QED
  BY <1>1, Invariance, PTL

\* Flow control neither loses nor invents credit, however uploads, writes to the backend
\* and WINDOW_UPDATEs interleave.
THEOREM CreditKept == Spec => []CreditConserved
<1>1. ASSUME IndInv PROVE CreditConserved
  BY <1>1, OpenHasDownstream DEF CreditConserved
<1> QED
  BY <1>1, Invariance, PTL

=============================================================================
