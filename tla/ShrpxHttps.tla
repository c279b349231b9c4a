----------------------------- MODULE ShrpxHttps -----------------------------
(***************************************************************************)
(* shrpx, the SPDY/HTTPS reverse proxy, serving one HTTP/1.1 client:        *)
(* ClientHandler, HttpsUpstream, Downstream, DownstreamConnection and       *)
(* IOControl.  The client pipelines requests on one connection; the proxy   *)
(* parses them one at a time (the parser is paused at the end of a request),*)
(* forwards each on a backend connection and copies the answer back.        *)
(*                                                                         *)
(* Everything runs on one event loop, so a libevent callback is executed to *)
(* its end.  The callbacks are operators from the proxy's state to its next *)
(* state, and they call each other as in the code.  Where a callback runs a  *)
(* parser, "pc" says which: one action feeds that parser one piece, and no   *)
(* other callback runs until the parser has returned.                        *)
(*                                                                         *)
(* The client's and the backend's bytes are cut into the pieces the parsers *)
(* tell apart (start of a request, more header bytes, end of headers, body, *)
(* end of message, malformed bytes); the network may deliver them in any    *)
(* grouping.                                                               *)
(***************************************************************************)
EXTENDS Integers, Sequences

CONSTANTS
    MaxRequests,    \* requests the client sends
    MaxBody,        \* body pieces per request, and per response
    MaxHeader,      \* SHRPX_HTTPS_MAX_HEADER_LENGTH, in pieces
    OutThres,       \* SHRPX_HTTPS_UPSTREAM_OUTPUT_UPPER_THRES, in pieces
    TxThres,        \* DOWNSTREAM_OUTPUT_UPPER_THRES, in pieces
    RequestKinds,   \* the header blocks the client sends, a set of HdrTokens
    MaxWire,        \* pieces in flight from the client, or the backend, to the proxy
    Malformed,      \* may client and backend send bytes that do not parse?
    Asserts         \* is http_parser.c compiled with its assertions (no NDEBUG)?

ASSUME ShrpxHttpsAssumption ==
    /\ MaxRequests \in Nat \ {0} /\ MaxBody \in Nat
    /\ MaxHeader \in Nat /\ OutThres \in Nat /\ TxThres \in Nat \ {0}
    /\ MaxWire \in Nat \ {0}
    /\ Malformed \in BOOLEAN /\ Asserts \in BOOLEAN
    /\ RequestKinds \subseteq [t : {"hdr"}, chunked : BOOLEAN, close : BOOLEAN,
                               expect : BOOLEAN, body : BOOLEAN]

VARIABLES
    px,       \* the proxy's state for this client, see Proxy below
    wire,     \* client bytes sent and not yet read by the proxy
    client    \* what the client is in the middle of sending

vars == <<px, wire, client>>

None == [conn |-> "none"]

\* enum of shrpx_downstream.h; STREAM_CLOSED and IDLE are not used on this path
MsgStates == {"INITIAL", "HEADER_COMPLETE", "MSG_COMPLETE", "CONNECT_FAIL"}

\* The pieces of the backend's bytes: the head of an answer (which may say that the
\* connection will be closed), body, end, and bytes that do not parse.
Pieces == {"head", "headclose", "body", "end", "bad"}

\* A Downstream with the connection it is attached to.  "tx" and "rx" are the
\* bytes waiting to be written to and read from the backend, "backend" how far
\* the backend's answer on that connection has got.
Downstream ==
    [request_state : MsgStates, response_state : MsgStates,
     conn : {"attached", "null"}, tx : Nat, rx : Seq(Pieces),
     chunked_request : BOOLEAN, request_close : BOOLEAN,
     response_close : BOOLEAN, ev_read : BOOLEAN, ev_write : BOOLEAN, response_htp : {"ok", "error"},
     backend : {"silent", "headed", "garbled", "ended", "closed", "failed"},
     pieces : 0..MaxBody]

NewDownstream ==
    [request_state |-> "INITIAL", response_state |-> "INITIAL",
     conn |-> "null", tx |-> 0, rx |-> <<>>, chunked_request |-> FALSE,
     request_close |-> FALSE, response_close |-> FALSE, ev_read |-> TRUE,
     ev_write |-> TRUE, response_htp |-> "ok", backend |-> "silent", pieces |-> 0]

\* The pieces of the client's bytes.
Token(t) == [t |-> t]
Tokens == {Token(t) : t \in {"begin", "more", "body", "end", "bad"}}
          \cup RequestKinds

\* The ClientHandler and its HttpsUpstream.  A handler has "crashed" at an assertion
\* or a null pointer of the proxy's own, and "aborted" at an assertion of the parser.
\* Three fields are history, about the request begun last: "replies" counts the
\* response heads written for it (2 stands for 2 or more); "early" says that its
\* backend connection had an event (bytes, EOF, an error, a timeout) before the
\* request was complete, and "surplus" that bytes came behind a complete answer.
Proxy ==
    [handler : {"open", "deleted", "crashed", "aborted"}, pc : {"loop", "request", "response"},
     close_after_write : BOOLEAN, htp : {"ok", "paused", "error"}, header_length : Nat,
     rdbits : SUBSET {"MSG_BLOCK", "NO_BUFFER"}, input : Seq(Tokens),
     downstream : {None} \cup Downstream, pool : Nat, out : Nat,
     replies : 0..2, early : BOOLEAN, surplus : BOOLEAN]

-----------------------------------------------------------------------------
(* Building blocks of the callbacks: each takes and returns a proxy state.  *)

Fresh == [handler |-> "open", pc |-> "loop", close_after_write |-> FALSE, htp |-> "ok",
          header_length |-> 0, rdbits |-> {}, input |-> <<>>,
          downstream |-> None, pool |-> 0, out |-> 0, replies |-> 0,
          early |-> FALSE, surplus |-> FALSE]

\* ~ClientHandler: the upstream, its downstream and the pooled connections go too
Delete(s) == [Fresh EXCEPT !.handler = "deleted"]

Crash(s) == [s EXCEPT !.handler = "crashed"]

\* the Downstream's destructor deletes its connection too
delete_downstream(s) == [s EXCEPT !.downstream = None]

\* ClientHandler::get_downstream_connection takes a pooled connection if there is one
get_downstream_connection(s) == [s EXCEPT !.pool = IF @ = 0 THEN 0 ELSE @ - 1]

attach_downstream(s) == [s EXCEPT !.downstream.conn = "attached",
                                  !.downstream.ev_read = TRUE]

detach_downstream(s) ==
    [s EXCEPT !.downstream.conn = "null", !.downstream.tx = 0, !.downstream.rx = <<>>,
              !.pool = @ + 1]

\* The pieces in an output buffer, counted as far as the thresholds tell them apart.
MoreOut(n) == IF n > OutThres THEN n ELSE n + 1
MoreTx(n) == IF n >= TxThres THEN n ELSE n + 1

push_request_headers(s) == [s EXCEPT !.downstream.tx = MoreTx(@)]

get_output_buffer_full(d) == d.conn = "attached" /\ d.tx >= TxThres

\* IOControl::pause_read on the client's connection
pause_read(s, reason) == [s EXCEPT !.rdbits = @ \cup {reason}]

\* IOControl::resume_read: reading goes on when no reason is left
io_resume_read(s, reason) == [s EXCEPT !.rdbits = @ \ {reason}]

\* a response head goes out to the client, forwarded or the proxy's own
on_downstream_header_complete(s) == [s EXCEPT !.out = MoreOut(@), !.replies = IF @ = 2 THEN 2 ELSE @ + 1]

error_reply(s) ==
    [on_downstream_header_complete(s) EXCEPT !.downstream =
        IF @ = None THEN None ELSE [@ EXCEPT !.response_state = "MSG_COMPLETE"]]

close_with_error(s) == error_reply([s EXCEPT !.close_after_write = TRUE])

-----------------------------------------------------------------------------
(* The hooks of the request parser, one per piece of the client's bytes.    *)

htp_msg_begin(s) ==
    IF s.downstream # None THEN Crash(s)    \* assert(!downstream_)
    ELSE [s EXCEPT !.header_length = 0, !.downstream = NewDownstream,
                      !.replies = 0, !.early = FALSE, !.surplus = FALSE]

\* end_upload_data() reads dconn_ without a check when the upload is chunked
end_upload_data(s) ==
    IF ~s.downstream.chunked_request THEN s
    ELSE IF s.downstream.conn = "null" THEN Crash(s)
    ELSE [s EXCEPT !.downstream.tx = MoreTx(@)]

htp_msg_completecb(s) ==
    [end_upload_data(s) EXCEPT !.downstream.request_state = "MSG_COMPLETE", !.htp = "paused"]

\* what the header callbacks keep of a request's header block
set_request_headers(d, token) ==
    [d EXCEPT !.request_close = token.close, !.chunked_request = token.chunked]

\* Mutant of htp_hdrs_completecb: the connection stays in the pool when reused.
hdrs_completecb_keeps_pooled(s, token, ok) ==
    LET attached == push_request_headers(attach_downstream(
                      [s EXCEPT !.downstream.request_state = "HEADER_COMPLETE"]))
    IN  IF token.body THEN attached ELSE htp_msg_completecb(attached)

\* a pooled connection is reused; otherwise connecting may fail (~ok)
htp_hdrs_completecb(s, token, ok) ==
    LET headers  == [s EXCEPT !.downstream = set_request_headers(@, token),
                              !.out = IF token.expect THEN MoreOut(@) ELSE @]
        attached == [push_request_headers(attach_downstream(get_downstream_connection(headers)))
                        EXCEPT !.downstream.request_state = "HEADER_COMPLETE"]
    IN  IF s.pool = 0 /\ ~ok
        THEN [headers EXCEPT !.downstream.request_state = "CONNECT_FAIL", !.htp = "error"]
        ELSE IF token.body THEN attached ELSE htp_msg_completecb(attached)

\* the value returned: 0, or the number of framing bytes of a chunked upload
push_upload_data_chunk(s) ==
    IF s.downstream.conn = "null" THEN [state |-> s, rv |-> 0]
    ELSE [state |-> [s EXCEPT !.downstream.tx = MoreTx(@)],
          rv    |-> IF s.downstream.chunked_request THEN 5 ELSE 0]

\* the hook takes any value but 0 for a failure
htp_bodycb(s) ==
    LET pushed == push_upload_data_chunk(s) IN
    IF pushed.rv # 0 THEN [pushed.state EXCEPT !.htp = "error"] ELSE pushed.state

RequestHook(s, token, ok) ==
    CASE token.t = "begin" -> htp_msg_begin(s)
      [] token.t = "more"  -> s
      [] token.t = "hdr"   -> htp_hdrs_completecb(s, token, ok)
      [] token.t = "body"  -> htp_bodycb(s)
      [] token.t = "end"   -> htp_msg_completecb(s)
      [] token.t = "bad"   -> [s EXCEPT !.htp = "error"]

\* http_parser_execute() takes the next piece of the input buffer.  A parser that
\* failed never consumes anything again, so of the rest of the buffer only the
\* piece it failed at is kept.
Execute(s, ok) ==
    LET token == Head(s.input)
        next  == RequestHook([s EXCEPT !.input = Tail(@)], token, ok)
    IN  IF next.htp = "error" THEN [next EXCEPT !.input = <<token>>]
        ELSE [next EXCEPT !.header_length = IF @ > MaxHeader THEN @ ELSE @ + 1]

\* HttpsUpstream::on_read runs the parser unless the buffer is empty
on_read(s) == [s EXCEPT !.pc = IF s.input = <<>> THEN "loop" ELSE "request"]

\* on_read, after the parser has returned
on_read_executed(s0) ==
    LET s == [s0 EXCEPT !.pc = "loop", !.input = IF s0.htp = "error" THEN <<Head(@)>> ELSE @]
        d == s.downstream
    IN  CASE s.htp = "paused" /\ d = None -> Crash(s)    \* downstream->get_request_state()
          [] s.htp = "paused" /\ d # None ->
               IF d.request_state = "CONNECT_FAIL" THEN close_with_error(s)
               ELSE IF d.request_state # "MSG_COMPLETE" THEN Crash(s)    \* an assertion
               ELSE IF d.conn = "attached" THEN pause_read(s, "MSG_BLOCK")
               ELSE IF d.response_state = "MSG_COMPLETE" THEN delete_downstream(s)
               ELSE Crash(s)                                             \* an assertion
          [] s.htp = "ok" /\ d # None ->
               IF d.request_state = "INITIAL" /\ s.header_length > MaxHeader
               THEN close_with_error(s)
               ELSE IF get_output_buffer_full(d) THEN pause_read(s, "NO_BUFFER") ELSE s
          [] s.htp = "ok" /\ d = None -> s
          [] s.htp = "error"          -> close_with_error(s)

\* http_parser_pause(htp_, 0), which is not meant for a parser that has failed
http_parser_unpause(s) ==
    IF s.htp # "error" THEN [s EXCEPT !.htp = "ok"]
    ELSE IF Asserts THEN [s EXCEPT !.handler = "aborted"] ELSE s

\* HttpsUpstream::resume_read: with no reason left to pause, the parser goes on
\* with the bytes that are already in the buffer.
resume_read(s, reason) ==
    LET resumed == io_resume_read(s, reason) IN
    IF resumed.rdbits = {} THEN on_read(http_parser_unpause(resumed)) ELSE resumed

\* Mutants of next_request: the old downstream is left attached; the client is
\* not read again.
next_request_keeps_downstream(s) == resume_read(s, "MSG_BLOCK")
next_request_stays_paused(s) == delete_downstream(s)

\* what every downstream callback does once request and response are complete
next_request(s) == resume_read(delete_downstream(s), "MSG_BLOCK")

-----------------------------------------------------------------------------
(* The hooks of the response parser.                                        *)

htp_response_hdrs_completecb(s, close) ==
    [on_downstream_header_complete(s) EXCEPT !.downstream.response_state = "HEADER_COMPLETE",
                                             !.downstream.response_close = close]

on_downstream_body(s) == [s EXCEPT !.out = MoreOut(@)]

on_downstream_body_complete(s) ==
    IF s.downstream.request_close \/ s.downstream.response_close
    THEN [s EXCEPT !.close_after_write = TRUE] ELSE s

ResponseHook(s, piece) ==
    CASE piece \in {"head", "headclose"} ->
            htp_response_hdrs_completecb(s, piece = "headclose")
      [] piece = "body" -> on_downstream_body(s)
      [] piece = "end"  -> on_downstream_body_complete(
                              [s EXCEPT !.downstream.response_state = "MSG_COMPLETE"])
      [] piece = "bad"  -> [s EXCEPT !.downstream.response_htp = "error"]

\* the response parser takes the next piece; once it has failed it fails on every
\* later call
parse_http_response(s) ==
    LET read == [s EXCEPT !.downstream.rx = Tail(@),
                          !.surplus = @ \/ s.downstream.response_state = "MSG_COMPLETE"]
    IN  IF s.downstream.response_htp = "error" THEN [s EXCEPT !.downstream.rx = <<>>]
        ELSE ResponseHook(read, Head(s.downstream.rx))

\* the response is complete, or has failed: close or go on with the next request
finish_or_next(s) ==
    IF s.close_after_write /\ s.out = 0 THEN Delete(s) ELSE next_request(s)

\* Mutant of https_downstream_readcb: a parse failure is always answered, also
\* when response headers have already been forwarded.
readcb_always_replies(s0) ==
    LET s == [s0 EXCEPT !.pc = "loop"] IN
    IF s.downstream.response_htp = "error" THEN next_request(error_reply(s))
    ELSE IF s.downstream.response_state = "MSG_COMPLETE" THEN finish_or_next(detach_downstream(s))
    ELSE s

\* once parse_http_response has returned
https_downstream_readcb(s0) ==
    LET s == [s0 EXCEPT !.pc = "loop"]
        d == s.downstream
        released == IF d.response_close
                    THEN [s EXCEPT !.downstream.conn = "null", !.downstream.tx = 0]
                    ELSE detach_downstream(s)
        failed == error_reply(s)
    IN  IF d.response_htp = "ok"
        THEN IF d.response_state = "MSG_COMPLETE"
             THEN IF d.request_state = "MSG_COMPLETE" THEN finish_or_next(released)
                  ELSE released
             ELSE IF s.out > OutThres THEN [s EXCEPT !.downstream.ev_read = FALSE] ELSE s
        ELSE IF d.response_state = "HEADER_COMPLETE" THEN Delete(s)
             ELSE IF d.request_state = "MSG_COMPLETE" THEN next_request(failed)
                  ELSE failed

\* Mutant of https_downstream_eventcb: a backend that closes without an answer is
\* not made up for.
eventcb_eof_unanswered(s, event) ==
    LET handled == IF event # "EOF" /\ s.downstream.response_state = "INITIAL" THEN error_reply(s)
                   ELSE s
    IN  IF s.downstream.request_state = "MSG_COMPLETE" THEN next_request(handled) ELSE handled

https_downstream_eventcb(s, event) ==
    LET d == s.downstream
        by_eof == [on_downstream_body_complete(s) EXCEPT
                     !.downstream.response_state = "MSG_COMPLETE"]
        handled == CASE event = "EOF" /\ d.response_state = "HEADER_COMPLETE" -> by_eof
                     [] event = "EOF" /\ d.response_state = "INITIAL"  -> error_reply(s)
                     [] event # "EOF" /\ d.response_state = "INITIAL"  -> error_reply(s)
                     [] OTHER -> s
    IN  IF event = "EOF" /\ d.response_state = "HEADER_COMPLETE"
           /\ handled.close_after_write /\ handled.out = 0
        THEN Delete(handled)
        ELSE IF d.request_state = "MSG_COMPLETE" THEN next_request(handled)
             ELSE handled

-----------------------------------------------------------------------------
(* The client and the network.                                              *)

Init == /\ px = Fresh
        /\ wire = <<>>
        /\ client = [phase |-> "idle", sent |-> 0, pieces |-> 0]

Open == px.handler = "open"

\* the event loop waits for the next event of an open client connection
Waiting == Open /\ px.pc = "loop"

\* The client writes the next piece of the request it is sending.
ClientSend ==
    /\ Waiting /\ Len(wire) < MaxWire
    /\ \/ /\ client.phase = "idle" /\ client.sent < MaxRequests
          /\ wire' = Append(wire, Token("begin"))
          /\ client' = [phase |-> "head", sent |-> client.sent + 1, pieces |-> 0]
       \/ /\ client.phase = "head" /\ client.pieces < MaxHeader
          /\ wire' = Append(wire, Token("more"))
          /\ client' = [client EXCEPT !.pieces = @ + 1]
       \/ /\ client.phase = "head"
          /\ \E kind \in RequestKinds :
                /\ wire' = Append(wire, kind)
                /\ client' = [client EXCEPT !.phase = IF kind.body THEN "body" ELSE "idle",
                                            !.pieces = 0]
       \/ /\ client.phase = "body" /\ client.pieces < MaxBody
          /\ wire' = Append(wire, Token("body"))
          /\ client' = [client EXCEPT !.pieces = @ + 1]
       \/ /\ client.phase = "body"
          /\ wire' = Append(wire, Token("end"))
          /\ client' = [client EXCEPT !.phase = "idle", !.pieces = 0]
    /\ UNCHANGED px

ClientSendMalformed ==
    /\ Waiting /\ Malformed /\ client.phase # "gone" /\ Len(wire) < MaxWire
    /\ wire' = Append(wire, Token("bad"))
    /\ client' = [client EXCEPT !.phase = "gone"]
    /\ UNCHANGED px

\* upstream_readcb: bytes are read only while no reason to pause is set
upstream_readcb ==
    /\ Waiting /\ px.rdbits = {} /\ wire # <<>>
    /\ px' = on_read([px EXCEPT !.input = @ \o wire])
    /\ wire' = <<>>
    /\ UNCHANGED client

\* the request parser is fed until it is paused, has failed or has read everything
ParseRequest ==
    /\ Open /\ px.pc = "request"
    /\ IF px.htp = "ok" /\ px.input # <<>> THEN \E ok \in BOOLEAN : px' = Execute(px, ok)
       ELSE px' = on_read_executed(px)
    /\ UNCHANGED <<wire, client>>

\* upstream_writecb: the output buffer has been written out to the client
upstream_writecb ==
    /\ Waiting /\ px.out > 0
    /\ px' = IF px.close_after_write THEN Delete(px)
             ELSE [px EXCEPT !.out = 0,
                             !.downstream = IF @ = None THEN None
                                            ELSE [@ EXCEPT !.ev_read = TRUE]]
    /\ UNCHANGED <<wire, client>>

\* upstream_eventcb: EOF and the read timeout need reading to be enabled, the
\* write timeout needs bytes to write
upstream_eventcb ==
    /\ Waiting /\ (px.rdbits = {} \/ px.out > 0)
    /\ px' = Delete(px)
    /\ UNCHANGED <<wire, client>>

-----------------------------------------------------------------------------
(* The backend and the backend connection.                                  *)

Attached == Waiting /\ px.downstream # None /\ px.downstream.conn = "attached"

\* The backend writes the next piece of its answer, closes, or resets: at any time,
\* for it need not wait for the end of the request, and a connection that cannot be
\* made fails after attach_downstream has returned.
BackendSend(piece, from, to) ==
    /\ Attached /\ px.downstream.backend \in from /\ Len(px.downstream.rx) < MaxWire
    /\ px' = [px EXCEPT !.downstream.rx = Append(@, piece), !.downstream.backend = to,
                        !.downstream.pieces = IF piece = "body" THEN @ + 1 ELSE @]
    /\ UNCHANGED <<wire, client>>

BackendAnswer ==
    \/ BackendSend("head", {"silent"}, "headed")
    \/ BackendSend("headclose", {"silent"}, "headed")
    \/ /\ Attached /\ px.downstream.pieces < MaxBody
       /\ BackendSend("body", {"headed", "garbled"}, px.downstream.backend)
    \/ BackendSend("end", {"headed"}, "ended")
    \/ Malformed /\ BackendSend("bad", {"silent", "headed", "ended"}, "garbled")

BackendStop ==
    /\ Attached /\ px.downstream.backend \in {"silent", "headed", "garbled", "ended"}
    /\ \E how \in {"closed", "failed"} : px' = [px EXCEPT !.downstream.backend = how]
    /\ UNCHANGED <<wire, client>>

\* the connection has an event, which is early when the request is not complete
WithEvent(s) ==
    [s EXCEPT !.early = @ \/ s.downstream.request_state # "MSG_COMPLETE"]

\* https_downstream_readcb, called by libevent when there are bytes to read
downstream_read ==
    /\ Attached /\ px.downstream.rx # <<>> /\ px.downstream.ev_read
    /\ px' = [WithEvent(px) EXCEPT !.pc = "response"]
    /\ UNCHANGED <<wire, client>>

ParseResponse ==
    /\ Open /\ px.pc = "response"
    /\ px' = IF px.downstream.rx # <<>> THEN parse_http_response(px) ELSE https_downstream_readcb(px)
    /\ UNCHANGED <<wire, client>>

\* EOF and errors are reported behind the bytes; the read timeout, which runs since
\* push_request_headers, when there are none.  libevent reads no more after either.
downstream_event ==
    /\ Attached /\ px.downstream.rx = <<>> /\ px.downstream.ev_read
    /\ \E event \in CASE px.downstream.backend = "closed" -> {"EOF"}
                      [] px.downstream.backend = "failed" -> {"ERROR"}
                      [] OTHER -> {"TIMEOUT"} :
          px' = https_downstream_eventcb([WithEvent(px) EXCEPT !.downstream.ev_read = FALSE], event)
    /\ UNCHANGED <<wire, client>>

\* https_downstream_writecb once everything is written.  A write that times out, or
\* fails because the backend is gone, is the last one libevent tries.
downstream_write ==
    /\ Attached /\ px.downstream.tx > 0 /\ px.downstream.ev_write
    /\ \/ px' = resume_read([px EXCEPT !.downstream.tx = 0], "NO_BUFFER")
       \/ \E event \in {"TIMEOUT", "ERROR"} :
             /\ event = "ERROR" => px.downstream.backend \in {"closed", "failed"}
             /\ px' = https_downstream_eventcb([WithEvent(px) EXCEPT !.downstream.ev_write = FALSE], event)
    /\ UNCHANGED <<wire, client>>

\* idle_eventcb: a pooled connection is closed by the backend or times out
idle_eventcb ==
    /\ Waiting /\ px.pool > 0
    /\ px' = [px EXCEPT !.pool = @ - 1]
    /\ UNCHANGED <<wire, client>>

DownstreamStep == downstream_read \/ downstream_event \/ downstream_write

ParserStep == ParseRequest \/ ParseResponse

Next == \/ ClientSend \/ ClientSendMalformed
        \/ upstream_readcb \/ upstream_writecb \/ upstream_eventcb
        \/ DownstreamStep \/ ParserStep
        \/ BackendAnswer \/ BackendStop \/ idle_eventcb

Spec == Init /\ [][Next]_vars

\* The event loop runs every callback that stays due.  A downstream that gets no
\* event runs into its read timeout and an unread output buffer into the write
\* timeout, so both are due in the end whatever the peers do; a parser that was
\* called returns.
Fairness == WF_vars(DownstreamStep) /\ WF_vars(upstream_writecb) /\ WF_vars(ParserStep)

FairSpec == Spec /\ Fairness

-----------------------------------------------------------------------------
(* Properties.                                                              *)

\* Type invariant of the proxy's state (ClientHandler, HttpsUpstream, Downstream).
TypeOK == /\ px \in Proxy
          /\ wire \in Seq(Tokens)
          /\ client \in [phase : {"idle", "head", "body", "gone"}, sent : 0..MaxRequests,
                         pieces : Nat]

\* The process stops neither at an assertion of the proxy's nor at a null pointer nor at
\* an assertion of the parser: on_read finds a downstream whenever it finds the parser
\* paused, attach_downstream finds none, end_upload_data finds a connection, and
\* resume_read never unpauses a parser that has failed.
NeverStops == px.handler \notin {"crashed", "aborted"}

\* What is true of it.  The proxy itself fails only where the backend connection had an
\* event before the request was complete; and a request that does not parse meets the
\* parser's assertion (https_downstream_writecb resumes reading whatever the parser's
\* state is) only while its upload is still on a backend connection.
StopsOnlyInUpload ==
    /\ px.handler = "crashed" => px.early
    /\ px.handler = "aborted" => /\ px.downstream # None /\ px.downstream.conn = "attached"
                                 /\ px.downstream.request_state = "HEADER_COMPLETE"

\* As long as the connection is to be kept, a request is answered at most once:
\* on_downstream_header_complete and error_reply never both write a head for it,
\* unless its backend connection had an event before the request was complete (a 504
\* is then followed by the answer), or bytes behind the answer (a 502 follows it).
OneReplyPerRequest ==
    ~px.close_after_write /\ ~px.early /\ ~px.surplus => px.replies <= 1

\* A request is not dropped: its Downstream goes only when exactly one head has been
\* written for it, the backend's or the proxy's own, unless the connection goes too
\* or the backend connection behaved as above.
\* (How much of the body went out is another matter: https_downstream_eventcb goes on
\* after a head whose body was cut short by an error or a timeout.)
AnsweredBeforeNext ==
    [][px.downstream # None /\ px'.downstream = None /\ px'.handler = "open"
       /\ ~px'.close_after_write /\ ~px'.early /\ ~px'.surplus => px'.replies = 1]_vars

\* A client has at most one backend connection, attached or pooled, because the
\* next request takes the pooled one.
OneBackendConnection ==
    px.pool + (IF px.downstream # None /\ px.downstream.conn = "attached" THEN 1 ELSE 0) <= 1

\* A client that is not read because its request is being served, or because the
\* backend's buffer is full, is read again or its connection is closed
\* (resume_read is always reached), unless the backend connection had an event before
\* the request was complete.
ReadingResumes ==
    [](Open /\ px.rdbits # {} => <>(~Open \/ px.rdbits = {} \/ px.early))
=============================================================================
