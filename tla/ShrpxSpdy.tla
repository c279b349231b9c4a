------------------------------ MODULE ShrpxSpdy ------------------------------
(***************************************************************************)
(* shrpx serving one SPDY client: SpdyUpstream with its DownstreamQueue, the *)
(* Downstream of every stream, the backend connections and their pool.       *)
(*                                                                         *)
(* One event loop runs every callback, so callbacks do not interleave.       *)
(* Three library calls do call back into the proxy more than once:           *)
(* session_recv (one callback per frame), session_send (which closes streams, *)
(* and so deletes downstreams, as it writes) and http_parser_execute (one     *)
(* callback per piece of a response).  "pc" says which of them is running;    *)
(* the other callbacks start only from "loop".                              *)
(***************************************************************************)
EXTENDS Integers

CONSTANTS
    Streams,        \* the SPDY streams the client opens
    Conns,          \* backend connections, never more than one per stream
    None,           \* the null pointer
    MaxUpload,      \* pieces of the request body, per stream
    MaxBody,        \* pieces of a response body
    OutThres,       \* SHRPX_SPDY_UPSTREAM_OUTPUT_UPPER_THRES, in pieces
    InitialWindow,  \* initial_window_size_, in pieces
    Methods         \* methods the client uses, "plain" or "CONNECT", per stream

ASSUME ShrpxSpdyAssumption ==
    /\ None \notin Streams \cup Conns
    /\ MaxUpload \in [Streams -> Nat] /\ MaxBody \in Nat
    /\ OutThres \in Nat /\ InitialWindow \in Nat \ {0}
    /\ Methods \in [Streams -> SUBSET {"plain", "CONNECT"}]

VARIABLES
    pc,       \* "loop", "recv", "read", "send", or "deleted" once the handler is gone
    reading,  \* the connection whose bytes the parser has during "read"
    stream,   \* per stream: what the SPDY session keeps
    down,     \* per stream: its Downstream in the queue, or None
    conn,     \* per connection: its state
    pool,     \* dconn_pool_
    out       \* pieces in the client's output buffer

vars == <<pc, reading, stream, down, conn, pool, out>>

\* "fin" and "upload" tell how far the client's side is, "credit" what it may still
\* send, "update" the credit of a queued WINDOW_UPDATE; "reply" and "data" follow the
\* response and its data provider, "rst" is a queued RST_STREAM.
NewStream == [state |-> "idle", fin |-> FALSE, upload |-> 0, credit |-> InitialWindow,
              update |-> 0, reply |-> "none", data |-> "none", rst |-> FALSE]

NewDownstream(method) ==
    [request_state |-> "INITIAL", response_state |-> "INITIAL", dconn |-> None,
     method |-> method, tunnel |-> FALSE, close |-> FALSE, body |-> 0, paused |-> FALSE, window |-> 0]

\* "tx" says that bytes for the backend are unwritten, "backend" how far its answer
\* has been read, "pieces" how much of the body; "owed" counts the requests whose answer
\* has not been read to its end, "interim" is a history variable: a 1xx head was read.
FreeConn == [downstream |-> None, tx |-> FALSE, backend |-> "none", pieces |-> 0, owed |-> 0,
             interim |-> FALSE]

Init == /\ pc = "loop" /\ reading = None
        /\ stream = [i \in Streams |-> NewStream]
        /\ down = [i \in Streams |-> None]
        /\ conn = [c \in Conns |-> FreeConn]
        /\ pool = {}
        /\ out = 0

-----------------------------------------------------------------------------
(* The pieces the callbacks are made of, on a record of the whole state.    *)

State == [pc |-> pc, reading |-> reading, stream |-> stream, down |-> down, conn |-> conn,
          pool |-> pool, out |-> out]

\* What session_send has for stream i: send_callback takes a frame as long as the
\* output buffer is below the threshold.
Sendable(s, i) ==
    LET x == s.stream[i] IN
    /\ x.state = "open" /\ s.out <= OutThres
    /\ x.rst \/ x.reply = "queued" \/ x.data = "active" \/ x.update > 0

\* session_send returns when nothing is left to send
Settled(s) == IF s.pc = "send" /\ \A i \in Streams : ~Sendable(s, i) THEN "loop" ELSE s.pc

Becomes(s) == /\ pc' = Settled(s) /\ reading' = s.reading /\ stream' = s.stream
              /\ down' = s.down /\ conn' = s.conn /\ pool' = s.pool /\ out' = s.out

\* ~ClientHandler deletes the upstream, its downstreams and the pool
DeletedState == [pc |-> "deleted", reading |-> None, stream |-> [i \in Streams |-> NewStream],
                 down |-> [i \in Streams |-> None], conn |-> [c \in Conns |-> FreeConn],
                 pool |-> {}, out |-> 0]

rst_stream(s, i) == [s EXCEPT !.stream[i].rst = TRUE]

\* Mutant of delete_dconn: the connection is left to the stream.
delete_dconn_skipped(s, i) == s

\* "delete dconn" after set_downstream_connection(0)
delete_dconn(s, i) ==
    LET c == s.down[i].dconn IN
    IF c = None THEN s ELSE [s EXCEPT !.down[i].dconn = None, !.conn[c] = FreeConn]

\* Mutant of delete_downstream: the connection is forgotten.
delete_downstream_keeps_dconn(s, i) == [s EXCEPT !.down[i] = None]

\* ~Downstream deletes the connection it still has
delete_downstream(s, i) ==
    LET c == s.down[i].dconn
        free == IF c = None THEN s.conn ELSE [s.conn EXCEPT ![c] = FreeConn]
    IN  [s EXCEPT !.conn = free, !.down[i] = None]

detach_downstream(s, i) ==
    LET c == s.down[i].dconn IN
    IF c = None THEN s
    ELSE [s EXCEPT !.down[i].dconn = None, !.pool = @ \cup {c},
                   !.conn[c] = [@ EXCEPT !.downstream = None, !.pieces = 0]]

attach_downstream(s, i, c) ==
    LET x == [s.conn[c] EXCEPT !.downstream = i, !.tx = TRUE, !.backend = "silent", !.owed = @ + 1]
    IN  [s EXCEPT !.pool = @ \ {c}, !.down[i].dconn = c, !.conn[c] = x]

\* a SYN_REPLY cannot be sent: the stream is reset
on_ctrl_not_send_callback(s, i) == rst_stream(s, i)

\* submit_response; a second one for a stream cannot be sent
submit_response(s, i) ==
    IF s.stream[i].reply # "none" THEN on_ctrl_not_send_callback(s, i)
    ELSE [s EXCEPT !.stream[i].reply = "queued", !.stream[i].data = "active"]

resume_data(s, i) ==
    [s EXCEPT !.stream[i].data = IF @ = "deferred" THEN "active" ELSE @]

\* SpdyUpstream::error_reply
error_reply(s, i) ==
    submit_response([s EXCEPT !.down[i].body = @ + 1,
                              !.down[i].response_state = "MSG_COMPLETE"], i)

on_downstream_body(s, i) ==
    LET added == resume_data([s EXCEPT !.down[i].body = @ + 1], i) IN
    IF added.down[i].body > OutThres THEN [added EXCEPT !.down[i].paused = TRUE] ELSE added

\* a 2xx answer to CONNECT has been read; the answer is then endless
tunnel_established(d) == d.tunnel

\* The SPDY session closes the stream and drops its queued frames.
CloseStream(s, i) == [s EXCEPT !.stream[i] = [NewStream EXCEPT !.state = "closed"]]

\* Mutant of on_stream_close_callback: a downstream whose response is incomplete is
\* left for the backend's callbacks to delete.
on_stream_close_waits(s0, i) ==
    LET s == CloseStream(s0, i) IN
    IF s.down[i] = None THEN s
    ELSE IF s.down[i].response_state = "MSG_COMPLETE" THEN delete_downstream(s, i)
    ELSE s

on_stream_close_callback(s0, i) ==
    LET s == CloseStream(s0, i)
        d == s.down[i]
        reusable == /\ d.response_state = "MSG_COMPLETE" /\ d.request_state # "CONNECT_FAIL"
                    /\ ~tunnel_established(d) /\ ~d.close
    IN  IF d = None THEN s
        ELSE IF reusable THEN delete_downstream(detach_downstream(s, i), i)
        ELSE delete_downstream(s, i)

-----------------------------------------------------------------------------
(* session_recv: frames from the client.                                    *)

\* upstream_readcb runs SpdyUpstream::on_read, and that session_recv
Receiving == [State EXCEPT !.pc = "recv"]

\* on_ctrl_recv_callback for SYN_STREAM.  The request may lack a mandatory header
\* (~valid); connecting may fail (~ok) unless a pooled connection is used.
SynStream(i, method, fin, valid, ok) ==
    /\ pc \in {"loop", "recv"} /\ stream[i].state = "idle"
    /\ LET s == [Receiving EXCEPT !.stream[i].state = "open", !.stream[i].fin = fin,
                              !.down[i] = NewDownstream(method)]
           free == {c \in Conns : conn[c] = FreeConn}
           pushed(c) == [attach_downstream(s, i, c) EXCEPT
                           !.down[i].request_state =
                               IF fin THEN "MSG_COMPLETE" ELSE "HEADER_COMPLETE"]
       IN  IF ~valid THEN Becomes(rst_stream(s, i))
           ELSE IF pool # {} THEN \E c \in pool : Becomes(pushed(c))
           ELSE IF ok THEN \E c \in free : Becomes(pushed(c))
           ELSE Becomes([rst_stream(s, i) EXCEPT !.down[i].request_state = "CONNECT_FAIL"])

\* the session closes a stream once both sides have sent FIN
CloseIfDone(s, i) == IF s.stream[i].fin /\ s.stream[i].data = "done"
                     THEN on_stream_close_callback(s, i) ELSE s

\* on_data_chunk_recv_callback, then what the session does about FIN
DataChunk(i, len, fin) ==
    /\ pc \in {"loop", "recv"} /\ stream[i].state = "open" /\ ~stream[i].fin
    /\ len <= stream[i].credit /\ stream[i].upload + len <= MaxUpload[i]
    /\ len > 0 \/ fin
    /\ LET c     == IF down[i] = None THEN None ELSE down[i].dconn
           taken == [Receiving EXCEPT !.stream[i].credit = @ - len, !.stream[i].upload = @ + len,
                                  !.stream[i].fin = fin]
           push  == IF c = None THEN taken ELSE [taken EXCEPT !.conn[c].tx = TRUE]
           grown == [push EXCEPT !.down[i].window = @ + len]
           s     == IF down[i] = None THEN taken
                    ELSE IF grown.down[i].window > InitialWindow THEN rst_stream(grown, i)
                    ELSE [grown EXCEPT !.down[i].request_state = IF fin THEN "MSG_COMPLETE" ELSE @]
       IN  Becomes(CloseIfDone(s, i))

\* RST_STREAM from the client
RstStream(i) ==
    /\ pc \in {"loop", "recv"} /\ stream[i].state = "open"
    /\ Becomes(on_stream_close_callback(Receiving, i))

RecvDone == pc = "recv" /\ Becomes([State EXCEPT !.pc = "send"])

\* the session has failed, or wants neither to read nor to write any more:
\* ClientHandler::on_read returns -1 and upstream_readcb deletes the handler
RecvFails == pc \in {"loop", "recv"} /\ Becomes(DeletedState)

-----------------------------------------------------------------------------
(* session_send: frames to the client, as long as send_callback takes them. *)

\* Mutant of spdy_data_read_callback: the backend is not read again.
data_read_never_resumes(s, i) ==
    IF s.down[i].body > 0 THEN [s EXCEPT !.out = @ + 1, !.down[i].body = @ - 1] ELSE s

\* spdy_data_read_callback, and body_buf_cb when it empties the buffer
spdy_data_read_callback(s, i) ==
    LET d == s.down[i] IN
    IF d.body > 0
    THEN [s EXCEPT !.out = @ + 1, !.down[i].body = @ - 1,
                   !.down[i].paused = IF d.body = 1 THEN FALSE ELSE @]
    ELSE IF d.response_state = "MSG_COMPLETE" /\ ~tunnel_established(d)
         THEN CloseIfDone([s EXCEPT !.out = @ + 1, !.stream[i].data = "done"], i)
         ELSE [s EXCEPT !.stream[i].data = "deferred"]

SendFrame(i) ==
    /\ pc = "send" /\ Sendable(State, i)
    /\ \/ /\ stream[i].rst
          /\ Becomes(on_stream_close_callback([State EXCEPT !.out = @ + 1], i))
       \/ /\ stream[i].reply = "queued"
          /\ Becomes([State EXCEPT !.out = @ + 1, !.stream[i].reply = "sent"])
       \/ /\ stream[i].reply = "sent" /\ stream[i].data = "active"
          /\ Becomes(spdy_data_read_callback(State, i))
       \/ /\ stream[i].update > 0
          /\ Becomes([State EXCEPT !.out = @ + 1, !.stream[i].update = 0,
                                   !.stream[i].credit = @ + stream[i].update])

\* upstream_writecb: the output buffer is empty, more may be sent
upstream_writecb == pc = "loop" /\ out > 0 /\ Becomes([State EXCEPT !.out = 0, !.pc = "send"])

\* upstream_eventcb: EOF, error or timeout of the client connection
upstream_eventcb == pc = "loop" /\ Becomes(DeletedState)
-----------------------------------------------------------------------------
(* The backend connections.                                                 *)

Attached(c) == conn[c].downstream # None

\* What a backend may send next on connection x: per request any number of interim (1xx)
\* heads, then one head, body pieces and the end (a tunnel has none), possibly before it
\* has the whole request; or garbage, also behind an answer.
After(x, d, piece) ==
    CASE /\ x.backend \in {"silent", "interim"} \/ (x.backend = "ended" /\ x.owed > 0 /\ ~d.close)
         /\ piece \in {"interim", "head", "headclose"} ->
            IF piece = "interim" THEN "interim" ELSE "headed"
      [] x.backend = "headed" /\ piece = "body" -> "headed"
      [] x.backend = "headed" /\ piece = "end" /\ (d.method # "CONNECT" \/ x.owed > 1) -> "ended"
      [] x.backend \in {"silent", "interim", "headed", "ended"} /\ piece = "bad" -> "garbled"
      [] OTHER -> "impossible"

Pieces == {"interim", "head", "headclose", "body", "end", "bad"}

\* on_message_complete of the response
MessageComplete(s, i) == resume_data([s EXCEPT !.down[i].response_state = "MSG_COMPLETE"], i)

\* on_headers_complete of the response
HeadersComplete(s, i, piece) ==
    LET d == [s.down[i] EXCEPT !.response_state = "HEADER_COMPLETE", !.close = (piece = "headclose"),
                               !.tunnel = (piece # "interim" /\ s.down[i].method = "CONNECT")]
    IN  submit_response([s EXCEPT !.down[i] = d], i)

\* The hooks of the response parser.  An interim head has no body, so that the message is
\* complete with it.
ResponseHook(s, i, piece) ==
    CASE piece = "interim" -> MessageComplete(HeadersComplete(s, i, piece), i)
      [] piece \in {"head", "headclose"} -> HeadersComplete(s, i, piece)
      [] piece = "body" -> on_downstream_body(s, i)
      [] piece = "end"  -> MessageComplete(s, i)

\* the parser has failed
parser_failure(s, i) ==
    LET failed == IF s.down[i].response_state = "HEADER_COMPLETE" THEN rst_stream(s, i)
                  ELSE error_reply(s, i)
    IN  delete_dconn([failed EXCEPT !.pc = "send", !.reading = None,
                                    !.down[i].response_state = "MSG_COMPLETE"], i)

\* The parser takes the next piece.  Bytes the proxy has not read are bytes the backend
\* has yet to send.
parse_http_response(c, piece) ==
    LET i == conn[c].downstream
        after == After(conn[c], down[i], piece)
        pieces == conn[c].pieces + (IF piece = "body" THEN 1 ELSE 0)
        x == [conn[c] EXCEPT !.backend = after, !.pieces = pieces,
                             !.owed = IF piece = "end" THEN @ - 1 ELSE @,
                             !.interim = @ \/ piece = "interim"]
        read == [State EXCEPT !.pc = "read", !.reading = c, !.conn[c] = x]
    IN  /\ after # "impossible" /\ pieces <= MaxBody
        /\ Becomes(IF piece = "bad" THEN parser_failure(read, i) ELSE ResponseHook(read, i, piece))

\* The callbacks below call send() at the end, which is the "send" that follows.
\* They test for STREAM_CLOSED first, but no downstream is left in that state.
spdy_downstream_readcb(c) ==
    \/ /\ \/ pc = "loop" /\ Attached(c) /\ ~down[conn[c].downstream].paused
          \/ pc = "read" /\ reading = c
       /\ \E piece \in Pieces : parse_http_response(c, piece)
    \/ pc = "read" /\ reading = c /\ Becomes([State EXCEPT !.pc = "send", !.reading = None])

\* Mutant of window_update: the window is not reset.
window_update_keeps(s, i) ==
    [s EXCEPT !.stream[i].update = @ + s.down[i].window]

window_update(s, i) ==
    [s EXCEPT !.stream[i].update = @ + s.down[i].window, !.down[i].window = 0]

\* Everything has been written to the backend.  The WINDOW_UPDATE is queued, but
\* this callback does not send.
spdy_downstream_writecb(c) ==
    /\ pc = "loop" /\ Attached(c) /\ conn[c].tx
    /\ LET i == conn[c].downstream
           s == [State EXCEPT !.conn[c].tx = FALSE]
       IN  Becomes(IF down[i].window >= InitialWindow \div 2 THEN window_update(s, i) ELSE s)

on_eof(s, i) ==
    CASE s.down[i].response_state = "HEADER_COMPLETE" ->
           LET ended == [s EXCEPT !.down[i].response_state = "MSG_COMPLETE"] IN
           IF tunnel_established(s.down[i]) THEN rst_stream(ended, i) ELSE resume_data(ended, i)
      [] s.down[i].response_state = "MSG_COMPLETE" -> rst_stream(s, i)
      [] OTHER -> error_reply(s, i)

on_error(s, i) ==
    CASE s.down[i].response_state = "HEADER_COMPLETE" ->
           rst_stream([s EXCEPT !.down[i].response_state = "MSG_COMPLETE"], i)
      [] s.down[i].response_state = "MSG_COMPLETE" -> rst_stream(s, i)
      [] OTHER -> error_reply(s, i)

\* The backend has closed or broken the connection, or keeps quiet until the read
\* timeout.  While reading is paused only a failing write is noticed.
spdy_downstream_eventcb(c) ==
    /\ pc = "loop" /\ Attached(c)
    /\ LET i == conn[c].downstream
           s == [delete_dconn(State, i) EXCEPT !.pc = "send"]
       IN  \/ ~down[i].paused /\ Becomes(on_eof(s, i))
           \/ (~down[i].paused \/ conn[c].tx) /\ Becomes(on_error(s, i))

\* a pooled connection is closed by the backend or times out
idle_eventcb(c) ==
    /\ pc = "loop" /\ c \in pool
    /\ Becomes([State EXCEPT !.pool = @ \ {c}, !.conn[c] = FreeConn])

-----------------------------------------------------------------------------

ClientFrame(i) ==
    \/ \E method \in Methods[i], fin, valid, ok \in BOOLEAN : SynStream(i, method, fin, valid, ok)
    \/ \E len \in 0 .. 1, fin \in BOOLEAN : DataChunk(i, len, fin)
    \/ RstStream(i)

Sending == \E i \in Streams : SendFrame(i)

DownstreamCallback ==
    \E c \in Conns : \/ spdy_downstream_readcb(c) \/ spdy_downstream_writecb(c)
                     \/ spdy_downstream_eventcb(c)

Next == \/ (\E i \in Streams : ClientFrame(i)) \/ RecvDone \/ RecvFails
        \/ Sending \/ upstream_writecb \/ upstream_eventcb
        \/ DownstreamCallback \/ (\E c \in Conns : idle_eventcb(c))

Spec == Init /\ [][Next]_vars

-----------------------------------------------------------------------------
(* Properties.                                                              *)

StreamType ==
    [state : {"idle", "open", "closed"}, fin : BOOLEAN, upload : Nat, credit : Nat, update : Nat,
     reply : {"none", "queued", "sent"}, data : {"none", "active", "deferred", "done"},
     rst : BOOLEAN]
DownstreamType ==
    [request_state : {"INITIAL", "HEADER_COMPLETE", "MSG_COMPLETE", "CONNECT_FAIL"},
     response_state : {"INITIAL", "HEADER_COMPLETE", "MSG_COMPLETE"}, dconn : Conns \cup {None},
     method : {"plain", "CONNECT"}, tunnel : BOOLEAN, close : BOOLEAN, body : Nat,
     paused : BOOLEAN, window : Nat]
ConnType ==
    [downstream : Streams \cup {None}, tx : BOOLEAN,
     backend : {"none", "silent", "interim", "headed", "garbled", "ended"}, pieces : Nat,
     owed : Nat, interim : BOOLEAN]

\* the null pointer is not a Downstream
ASSUME NullAssumption == None \notin DownstreamType

\* Type invariant; session_send runs only as long as it has something to send.
TypeOK == /\ pc \in {"loop", "recv", "read", "send", "deleted"} /\ reading \in Conns \cup {None}
          /\ stream \in [Streams -> StreamType]
          /\ down \in [Streams -> DownstreamType \cup {None}]
          /\ conn \in [Conns -> ConnType]
          /\ pool \subseteq Conns
          /\ out \in Nat

\* Every pointer a callback follows is alive: the downstream a connection is
\* attached to is in the queue and points back, a pooled connection belongs to no
\* downstream, and a connection is never both (attach, detach and the "delete
\* dconn" of the error paths, in whatever order streams close).
ConnectionsOwned ==
    /\ \A c \in Conns : LET i == conn[c].downstream IN
          i # None => down[i] # None /\ down[i].dconn = c /\ c \notin pool
    /\ \A i \in Streams :
          down[i] # None /\ down[i].dconn # None => conn[down[i].dconn].downstream = i
    /\ \A c \in pool : conn[c].backend # "none"

\* spdy_data_read_callback follows source->ptr into the Downstream without a
\* check: the downstream lives as long as the stream can ask for data.
DataSourceAlive ==
    \A i \in Streams : (down[i] # None) = (stream[i].state = "open")

\* A connection goes back to the pool only between two messages, and no answer on it is
\* unread, so that the next request cannot be given the rest of an old one ("At this
\* point, downstream response was read").  Only a 1xx head breaks this: the proxy takes
\* it for the whole answer.
PooledAnswerRead ==
    \A c \in pool : /\ conn[c].backend \in {"ended", "interim"}
                    /\ conn[c].owed = 0 \/ conn[c].interim

\* A backend that is not read because the body buffer is full is read again: the
\* buffer holds something whose removal resumes it (body_buf_cb).
PausedHasBody ==
    \A i \in Streams : down[i] # None /\ down[i].paused => down[i].body > 0

\* Flow control neither loses nor invents credit: what the client may send, what
\* is counted in recv_window_size_ and what is on its way back make the window.
CreditConserved ==
    \A i \in Streams : stream[i].state = "open" =>
        stream[i].credit + down[i].window + stream[i].update = InitialWindow

=============================================================================
