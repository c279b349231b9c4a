-------------------------- MODULE ShrpxHttpsProofs --------------------------
(***************************************************************************)
(* The https side of the proxy, for any number of requests, pieces of       *)
(* headers and bodies, and any thresholds.                                   *)
(***************************************************************************)
EXTENDS ShrpxHttps, TLAPS

-----------------------------------------------------------------------------
(* The inductive invariant.                                                *)

\* Where the request parser is in the client's bytes.
Pos(s) == IF s.downstream = None \/ s.downstream.request_state = "MSG_COMPLETE" THEN "idle"
          ELSE IF s.downstream.request_state = "INITIAL" THEN "head" ELSE "body"

\* A piece that the client can send at a place in its stream, and the place after it.
Fits(pos, token) ==
    CASE token.t = "begin"          -> pos = "idle"
      [] token.t \in {"more", "hdr"} -> pos = "head"
      [] token.t \in {"body", "end"} -> pos = "body"
      [] token.t = "bad"            -> pos # "gone"

After(token) ==
    CASE token.t \in {"begin", "more"} -> "head"
      [] token.t = "hdr"  -> IF token.body THEN "body" ELSE "idle"
      [] token.t = "body" -> "body"
      [] token.t = "end"  -> "idle"
      [] token.t = "bad"  -> "gone"

\* The pieces q take a client from one place in its stream to another.
Chained(from, q, to) ==
    /\ q = <<>> => from = to
    /\ q # <<>> => Fits(from, q[1]) /\ After(q[Len(q)]) = to
    /\ \A k \in 1..Len(q) : k > 1 => Fits(After(q[k - 1]), q[k])

\* The bytes that were not parsed yet continue the request the parser is in, and
\* lead to where the client is.
StreamOK ==
    Open /\ px.htp # "error" => Chained(Pos(px), px.input \o wire, client.phase)

\* A failed parser keeps the piece it failed at.
KeepsFailure(s) == s.htp = "error" => s.input # <<>>

\* The backend is read only while there is a connection.
ReadsAttached(s) == s.pc = "response" => s.downstream # None /\ s.downstream.conn = "attached"

\* There is no connection before the request's headers are complete.
ConnectsLate(s) ==
    s.downstream # None =>
        /\ s.downstream.request_state \in {"INITIAL", "CONNECT_FAIL"} => s.downstream.conn = "null"
        /\ s.downstream.request_state = "CONNECT_FAIL" => s.htp = "error"

One(s) == s.pool + (IF s.downstream # None /\ s.downstream.conn = "attached" THEN 1 ELSE 0) <= 1

Sane(s) == s \in Proxy /\ KeepsFailure(s) /\ ReadsAttached(s) /\ ConnectsLate(s) /\ One(s)

\* What holds whatever the backend does.
IndInv == TypeOK /\ StreamOK /\ Sane(px)

-----------------------------------------------------------------------------
(* When the client is read, whatever the backend does.                      *)

\* The request parser runs only when there is no reason not to read the client; a
\* complete request finds it paused and its client unread; and it is made to fail its
\* assertion only while an upload is on its connection.
Gate(s) ==
    /\ s.pc = "request" => s.rdbits = {}
    /\ s.handler = "open" /\ s.downstream # None /\ s.downstream.request_state = "MSG_COMPLETE" =>
          s.htp = "paused" /\ (s.pc # "request" => "MSG_BLOCK" \in s.rdbits)
    /\ s.handler = "aborted" => /\ s.downstream # None /\ s.downstream.conn = "attached"
                               /\ s.downstream.request_state = "HEADER_COMPLETE"

-----------------------------------------------------------------------------
(* What holds of a request whose backend connection has no event before it  *)
(* is complete.                                                            *)

\* The parser is paused exactly at the end of a request, whose connection is
\* there and whose client is not read.
PausedAtEnd(s) ==
    /\ s.htp = "paused" => s.downstream # None /\ s.downstream.request_state = "MSG_COMPLETE"
    /\ s.downstream # None /\ s.downstream.request_state = "MSG_COMPLETE" =>
          /\ s.htp = "paused" /\ s.downstream.conn = "attached"
          /\ s.pc # "request" => "MSG_BLOCK" \in s.rdbits
    /\ s.downstream # None /\ s.downstream.request_state = "HEADER_COMPLETE" =>
          s.downstream.conn = "attached"

\* Before that the backend is not read.
UnreadBefore(s) ==
    s.downstream # None /\ s.downstream.request_state # "MSG_COMPLETE" => s.pc # "response"

\* What is left to read of an answer of which "replies" heads were forwarded.
Remaining(d, replies, pc) ==
    /\ d.response_state # "CONNECT_FAIL"
    /\ replies = IF d.response_state = "INITIAL" THEN 0 ELSE 1
    /\ d.response_state = "INITIAL" /\ d.response_htp = "ok" =>
          /\ d.rx = <<>> => d.backend \in {"silent", "closed", "failed"}
          /\ d.rx # <<>> => d.rx[1] \in {"head", "headclose", "bad"}
    /\ d.backend = "silent" => d.rx = <<>> /\ d.response_state = "INITIAL" /\ d.response_htp = "ok"
    /\ \A k \in 1..Len(d.rx) :
          d.rx[k] \in {"head", "headclose"} => k = 1 /\ d.response_state = "INITIAL"
    /\ d.response_state = "MSG_COMPLETE" => pc = "response" /\ d.response_htp = "ok"

AnswerOnce(s) ==
    ~s.close_after_write /\ ~s.surplus /\ s.downstream # None =>
        Remaining(s.downstream, s.replies, s.pc)

\* A client is not read because of a full buffer only in the middle of a request, and
\* its parser runs only when there is no reason not to read it.
BlockedInside(s) ==
    /\ s.pc = "request" => s.rdbits = {}
    /\ "NO_BUFFER" \in s.rdbits =>
          s.downstream # None /\ s.downstream.request_state # "MSG_COMPLETE"

AtMostOne(s) == ~s.close_after_write /\ ~s.surplus => s.replies <= 1

Orderly(s) == /\ s.handler # "crashed" /\ PausedAtEnd(s) /\ BlockedInside(s) /\ UnreadBefore(s)
              /\ AnswerOnce(s) /\ AtMostOne(s)

OrderlyInv == Gate(px) /\ (~px.early => Orderly(px))

-----------------------------------------------------------------------------
(* The client's bytes.                                                     *)

\* A piece of the client's bytes is of one of six kinds, a header block has its flags.
LEMMA TokenKinds ==
    ASSUME NEW token \in Tokens
    PROVE  /\ token.t \in {"begin", "more", "hdr", "body", "end", "bad"}
           /\ token.t = "hdr" => /\ token.chunked \in BOOLEAN /\ token.close \in BOOLEAN
                                 /\ token.expect \in BOOLEAN /\ token.body \in BOOLEAN
  BY ShrpxHttpsAssumption DEF Tokens, Token

\* What the client sends is a piece of its bytes.
LEMMA SentTokens ==
    /\ \A t \in {"begin", "more", "body", "end", "bad"} : Token(t) \in Tokens /\ Token(t).t = t
    /\ \A kind \in RequestKinds : kind \in Tokens /\ kind.t = "hdr" /\ kind.body \in BOOLEAN
<1>1. \A t \in {"begin", "more", "body", "end", "bad"} : Token(t) \in Tokens
  BY Zenon DEF Tokens
<1>2. \A t : Token(t).t = t
  BY DEF Token
<1>3. \A kind \in RequestKinds : kind \in Tokens
  BY DEF Tokens
<1>4. \A kind \in RequestKinds : kind.t = "hdr" /\ kind.body \in BOOLEAN
  BY ShrpxHttpsAssumption
<1> QED
  BY <1>1, <1>2, <1>3, <1>4

\* A sequence is empty when it has no elements.
LEMMA EmptyStream == ASSUME NEW s \in Seq(Tokens) PROVE s = <<>> <=> Len(s) = 0
  OBVIOUS

\* The parser takes the first piece.
LEMMA ChainTaken ==
    ASSUME NEW p \in Seq(Tokens), NEW q \in Seq(Tokens), p # <<>>, NEW a, NEW c,
           Chained(a, p \o q, c)
    PROVE  Fits(a, Head(p)) /\ Chained(After(Head(p)), Tail(p) \o q, c)
<1> DEFINE r == p \o q
           u == Tail(p) \o q
<1>1. /\ r \in Seq(Tokens) /\ u \in Seq(Tokens) /\ Len(r) = Len(u) + 1 /\ Len(u) \in Nat
      /\ r[1] = Head(p)
  OBVIOUS
<1>2. \A k \in 1..Len(u) : u[k] = r[k + 1]
  OBVIOUS
<1>3. r # <<>> /\ (u = <<>> <=> Len(u) = 0)
  <2> HIDE DEF r, u
  <2> QED
    BY <1>1, EmptyStream
<1>4. Fits(a, Head(p))
  BY <1>1, <1>3 DEF Chained
<1>5. ASSUME u = <<>> PROVE After(Head(p)) = c
  BY <1>1, <1>3, <1>5 DEF Chained
<1>6. ASSUME u # <<>> PROVE Fits(After(Head(p)), u[1]) /\ After(u[Len(u)]) = c
  <2>1. Len(u) > 0 /\ u[1] = r[2] /\ u[Len(u)] = r[Len(r)]
    BY <1>1, <1>2, <1>3, <1>6
  <2> HIDE DEF r, u
  <2>2. Fits(After(r[1]), r[2])
    BY <1>1, <2>1 DEF Chained, r
  <2> QED
    BY <1>1, <1>3, <2>1, <2>2 DEF Chained, r
<1>7. ASSUME NEW k \in 1..Len(u), k > 1 PROVE Fits(After(u[k - 1]), u[k])
  <2>1. u[k] = r[k + 1] /\ u[k - 1] = r[k]
    BY <1>1, <1>2, <1>7, SMTT(30)
  <2> HIDE DEF r, u
  <2>2. k + 1 \in 1..Len(r) /\ (k + 1) - 1 = k /\ k + 1 > 1
    BY <1>1, <1>7
  <2>3. Fits(After(r[(k + 1) - 1]), r[k + 1])
    BY <2>2 DEF Chained, r
  <2> QED
    BY <2>1, <2>2, <2>3
<1> HIDE DEF r, u
<1>8. Chained(After(Head(p)), u, c)
  BY <1>5, <1>6, <1>7 DEF Chained
<1> QED
  BY <1>4, <1>8 DEF u

\* The client sends one more piece.
LEMMA ChainSent ==
    ASSUME NEW p \in Seq(Tokens), NEW q \in Seq(Tokens), NEW token \in Tokens, NEW a, NEW c,
           Chained(a, p \o q, c), Fits(c, token)
    PROVE  Chained(a, p \o Append(q, token), After(token))
<1> DEFINE r == p \o q
           u == p \o Append(q, token)
<1>1. /\ r \in Seq(Tokens) /\ u \in Seq(Tokens) /\ Len(u) = Len(r) + 1 /\ Len(r) \in Nat
      /\ u[Len(u)] = token
  OBVIOUS
<1>2. \A k \in 1..Len(r) : u[k] = r[k]
  OBVIOUS
<1>3. u # <<>> /\ (r = <<>> <=> Len(r) = 0)
  BY <1>1
<1> HIDE DEF r, u
<1>c. Chained(a, r, c)
  BY DEF r
<1>4. Fits(a, u[1])
  BY <1>1, <1>2, <1>3, <1>c DEF Chained
<1>5. ASSUME NEW k \in 1..Len(u), k > 1 PROVE Fits(After(u[k - 1]), u[k])
  <2>1. CASE k = Len(u)
    <3>1. k - 1 = Len(r) /\ Len(r) > 0 /\ u[k - 1] = r[Len(r)]
      BY <1>1, <1>2, <1>5, <2>1
    <3> QED
      BY <1>1, <1>3, <1>c, <2>1, <3>1 DEF Chained
  <2>2. CASE k # Len(u)
    <3>1. k \in 1..Len(r) /\ k - 1 \in 1..Len(r) /\ u[k] = r[k] /\ u[k - 1] = r[k - 1]
      BY <1>1, <1>2, <1>5, <2>2, SMTT(30)
    <3> QED
      BY <1>5, <1>c, <3>1 DEF Chained
  <2> QED
    BY <2>1, <2>2
<1>6. Chained(a, u, After(token))
  BY <1>1, <1>3, <1>4, <1>5 DEF Chained
<1> QED
  BY <1>6 DEF u

-----------------------------------------------------------------------------
(* What the building blocks of the callbacks do, field by field.            *)

\* A Downstream is not the null pointer.
LEMMA NotNone == /\ None \notin Downstream
                 /\ \A d \in {None} \cup Downstream : d # None => d \in Downstream
  BY None.conn = "none" DEF None, Downstream

\* A new client connection.
LEMMA FreshFields ==
    /\ Fresh \in Proxy /\ Fresh.downstream = None /\ Fresh.pc = "loop" /\ Fresh.htp = "ok"
    /\ Fresh.pool = 0 /\ Fresh.handler = "open" /\ Fresh.rdbits = {} /\ Fresh.input = <<>>
    /\ Fresh.close_after_write = FALSE /\ Fresh.replies = 0
    /\ Fresh.early = FALSE /\ Fresh.surplus = FALSE
  BY DEF Fresh, Proxy

\* ~ClientHandler leaves nothing behind.
LEMMA DeleteFields ==
    ASSUME NEW s
    PROVE  LET u == Delete(s) IN
           /\ u \in Proxy /\ u.handler = "deleted" /\ u.downstream = None /\ u.pc = "loop"
           /\ u.htp = "ok" /\ u.pool = 0 /\ u.rdbits = {} /\ u.replies = 0
           /\ u.early = FALSE /\ u.surplus = FALSE
  BY FreshFields DEF Delete, Proxy

\* delete_downstream changes the pointer only.
LEMMA DeleteDownstreamFields ==
    ASSUME NEW s \in Proxy
    PROVE  LET u == delete_downstream(s) IN
           /\ u \in Proxy /\ u.downstream = None
           /\ u.handler = s.handler /\ u.pc = s.pc /\ u.close_after_write = s.close_after_write
           /\ u.htp = s.htp /\ u.rdbits = s.rdbits /\ u.input = s.input /\ u.pool = s.pool
           /\ u.replies = s.replies /\ u.early = s.early /\ u.surplus = s.surplus
  BY DEF delete_downstream, Proxy

\* resume_read goes on with the input buffer when no reason is left.
LEMMA ResumeFields ==
    ASSUME NEW s \in Proxy, NEW reason
    PROVE  LET u == resume_read(s, reason) IN
           /\ u \in Proxy /\ u.downstream = s.downstream
           /\ u.handler \in {s.handler, "aborted"} /\ (s.htp # "error" => u.handler = s.handler)
           /\ u.close_after_write = s.close_after_write
           /\ u.input = s.input /\ u.pool = s.pool /\ u.replies = s.replies /\ u.early = s.early /\ u.surplus = s.surplus
           /\ u.rdbits = s.rdbits \ {reason}
           /\ u.rdbits = {} => /\ u.pc = IF s.input = <<>> THEN "loop" ELSE "request"
                               /\ u.htp = IF s.htp = "paused" THEN "ok" ELSE s.htp
           /\ u.rdbits # {} => u.pc = s.pc /\ u.htp = s.htp
  BY ZenonT(60) DEF resume_read, io_resume_read, on_read, http_parser_unpause, Proxy

\* next_request is the two together.
LEMMA NextRequestFields ==
    ASSUME NEW s \in Proxy
    PROVE  LET u == next_request(s) IN
           /\ u \in Proxy /\ u.downstream = None
           /\ u.handler \in {s.handler, "aborted"} /\ (s.htp # "error" => u.handler = s.handler)
           /\ u.close_after_write = s.close_after_write
           /\ u.input = s.input /\ u.pool = s.pool /\ u.replies = s.replies /\ u.early = s.early /\ u.surplus = s.surplus
           /\ u.rdbits = s.rdbits \ {"MSG_BLOCK"}
           /\ u.rdbits = {} => /\ u.pc = IF s.input = <<>> THEN "loop" ELSE "request"
                               /\ u.htp = IF s.htp = "paused" THEN "ok" ELSE s.htp
           /\ u.rdbits # {} => u.pc = s.pc /\ u.htp = s.htp
  BY DeleteDownstreamFields, ResumeFields DEF next_request

\* A head for the client is counted.
LEMMA HeadFields ==
    ASSUME NEW s \in Proxy
    PROVE  LET u == on_downstream_header_complete(s) IN
           /\ u \in Proxy /\ u.downstream = s.downstream
           /\ u.handler = s.handler /\ u.pc = s.pc /\ u.close_after_write = s.close_after_write
           /\ u.htp = s.htp /\ u.rdbits = s.rdbits /\ u.input = s.input /\ u.pool = s.pool
           /\ s.replies = 0 => u.replies = 1
           /\ u.early = s.early /\ u.surplus = s.surplus
<1> DEFINE x == MoreOut(s.out)
           r == IF s.replies = 2 THEN 2 ELSE s.replies + 1
<1>1. on_downstream_header_complete(s) = [s EXCEPT !.out = x, !.replies = r]
  BY DEF on_downstream_header_complete
<1>2. x \in Nat /\ r \in 0..2 /\ (s.replies = 0 => r = 1)
  BY DEF Proxy, MoreOut
<1> HIDE DEF x, r
<1> QED
  BY <1>1, <1>2 DEF Proxy

\* An answer of the proxy's own completes the response.
LEMMA ErrorReplyFields ==
    ASSUME NEW s \in Proxy
    PROVE  LET u == error_reply(s)
               d == s.downstream
               e == u.downstream IN
           /\ u \in Proxy /\ (e = None <=> d = None)
           /\ u.handler = s.handler /\ u.pc = s.pc /\ u.close_after_write = s.close_after_write
           /\ u.htp = s.htp /\ u.rdbits = s.rdbits /\ u.input = s.input /\ u.pool = s.pool
           /\ s.replies = 0 => u.replies = 1
           /\ u.early = s.early /\ u.surplus = s.surplus
           /\ d # None => /\ e.response_state = "MSG_COMPLETE" /\ e.request_state = d.request_state
                          /\ e.conn = d.conn /\ e.rx = d.rx /\ e.backend = d.backend
                          /\ e.response_htp = d.response_htp
<1> DEFINE h == on_downstream_header_complete(s)
           d == s.downstream
           v == IF d = None THEN None ELSE [d EXCEPT !.response_state = "MSG_COMPLETE"]
           u == error_reply(s)
<1>1. u = [h EXCEPT !.downstream = v] /\ h \in Proxy /\ d \in {None} \cup Downstream
  <2>1. h \in Proxy /\ h.downstream = d
    BY HeadFields
  <2>2. d \in {None} \cup Downstream
    BY DEF Proxy
  <2> QED
    BY <2>1, <2>2 DEF error_reply
<1>2. v \in {None} \cup Downstream /\ (d = None <=> v = None)
  <2>1. ASSUME d \in Downstream PROVE [d EXCEPT !.response_state = "MSG_COMPLETE"] \in Downstream
    BY <2>1 DEF Downstream, MsgStates
  <2> QED
    BY <1>1, <2>1, NotNone
<1>3. d # None => /\ v.response_state = "MSG_COMPLETE" /\ v.request_state = d.request_state
                  /\ v.conn = d.conn /\ v.rx = d.rx /\ v.backend = d.backend
                  /\ v.response_htp = d.response_htp
  BY <1>1, NotNone DEF Downstream
<1> HIDE DEF h, v, u
<1>4. /\ u \in Proxy /\ u.downstream = v
      /\ u.handler = h.handler /\ u.pc = h.pc /\ u.close_after_write = h.close_after_write
      /\ u.htp = h.htp /\ u.rdbits = h.rdbits /\ u.input = h.input /\ u.pool = h.pool
      /\ u.replies = h.replies /\ u.early = h.early /\ u.surplus = h.surplus
  BY <1>1, <1>2 DEF Proxy
<1> QED
  BY <1>2, <1>3, <1>4, HeadFields DEF h, u

\* The connection of a complete response is pooled, or deleted.
LEMMA DetachFields ==
    ASSUME NEW s \in Proxy, s.downstream # None
    PROVE  LET u == detach_downstream(s)
               d == s.downstream
               e == u.downstream IN
           /\ u \in Proxy /\ e # None
           /\ u.handler = s.handler /\ u.pc = s.pc /\ u.close_after_write = s.close_after_write
           /\ u.htp = s.htp /\ u.rdbits = s.rdbits /\ u.input = s.input /\ u.pool = s.pool + 1
           /\ u.replies = s.replies /\ u.early = s.early /\ u.surplus = s.surplus /\ e.request_state = d.request_state /\ e.conn = "null"
<1> DEFINE d == s.downstream
           v == [d EXCEPT !.conn = "null", !.tx = 0, !.rx = <<>>]
           n == s.pool + 1
           u == detach_downstream(s)
<1>1. d \in Downstream /\ n \in Nat
  BY NotNone DEF Proxy
<1>2. v \in Downstream /\ v # None /\ v.conn = "null" /\ v.request_state = d.request_state
  <2> DEFINE t == <<>>
  <2>1. t \in Seq(Pieces)
    OBVIOUS
  <2> HIDE DEF d, t
  <2>2. [d EXCEPT !.conn = "null", !.tx = 0, !.rx = t] \in Downstream
    BY <1>1, <2>1 DEF Downstream
  <2> QED
    BY <1>1, <2>2, NotNone DEF Downstream, t
<1>3. u = [s EXCEPT !.downstream = v, !.pool = n]
  BY <1>1 DEF detach_downstream, Proxy, Downstream
<1> HIDE DEF v, u, n
<1>4. /\ u \in Proxy /\ u.downstream = v /\ u.pool = n
      /\ u.handler = s.handler /\ u.pc = s.pc /\ u.close_after_write = s.close_after_write
      /\ u.htp = s.htp /\ u.rdbits = s.rdbits /\ u.input = s.input /\ u.replies = s.replies /\ u.early = s.early /\ u.surplus = s.surplus
  BY <1>1, <1>2, <1>3 DEF Proxy
<1> QED
  BY <1>2, <1>4 DEF u, n

\* A step that only changes what is in the Downstream.
LEMMA DownstreamFields ==
    ASSUME NEW s \in Proxy, NEW v \in Downstream
    PROVE  LET u == [s EXCEPT !.downstream = v] IN
           /\ u \in Proxy /\ u.downstream = v /\ v # None
           /\ u.handler = s.handler /\ u.pc = s.pc /\ u.close_after_write = s.close_after_write
           /\ u.htp = s.htp /\ u.rdbits = s.rdbits /\ u.input = s.input /\ u.pool = s.pool
           /\ u.replies = s.replies /\ u.early = s.early /\ u.surplus = s.surplus /\ u.header_length = s.header_length
  BY NotNone DEF Proxy

\* The response parser is given the next piece.
LEMMA ParseResponseFields ==
    ASSUME NEW s \in Proxy, s.downstream # None, s.downstream.rx # <<>>
    PROVE  LET u == parse_http_response(s)
               d == s.downstream
               e == u.downstream IN
           /\ u \in Proxy /\ e # None
           /\ u.handler = s.handler /\ u.pc = s.pc /\ u.htp = s.htp /\ u.rdbits = s.rdbits
           /\ u.input = s.input /\ u.pool = s.pool /\ u.early = s.early
           /\ e.request_state = d.request_state /\ e.conn = d.conn /\ e.backend = d.backend
           /\ d.response_htp = "error" =>
                 /\ e.rx = <<>> /\ e.response_state = d.response_state /\ e.response_htp = "error"
                 /\ u.close_after_write = s.close_after_write /\ u.replies = s.replies
                 /\ u.surplus = s.surplus
           /\ d.response_htp = "ok" =>
                 /\ u.surplus = (s.surplus \/ d.response_state = "MSG_COMPLETE")
                 /\ e.rx = Tail(d.rx) /\ Head(d.rx) \in Pieces
                 /\ Head(d.rx) \in {"head", "headclose"} =>
                       /\ e.response_state = "HEADER_COMPLETE" /\ e.response_htp = "ok"
                       /\ u.close_after_write = s.close_after_write
                       /\ s.replies = 0 => u.replies = 1
                 /\ Head(d.rx) = "body" =>
                       /\ e.response_state = d.response_state /\ e.response_htp = "ok"
                       /\ u.close_after_write = s.close_after_write /\ u.replies = s.replies
                 /\ Head(d.rx) = "end" =>
                       /\ e.response_state = "MSG_COMPLETE" /\ e.response_htp = "ok"
                       /\ s.close_after_write => u.close_after_write
                       /\ u.replies = s.replies
                 /\ Head(d.rx) = "bad" =>
                       /\ e.response_state = d.response_state /\ e.response_htp = "error"
                       /\ u.close_after_write = s.close_after_write /\ u.replies = s.replies
<1> DEFINE d == s.downstream
           piece == Head(d.rx)
           w == [d EXCEPT !.rx = Tail(d.rx)]
           more == s.surplus \/ d.response_state = "MSG_COMPLETE"
           read == [s EXCEPT !.downstream = w, !.surplus = more]
           u == parse_http_response(s)
<1>1. d \in Downstream /\ d.rx \in Seq(Pieces)
  BY NotNone DEF Proxy, Downstream
<1>2. piece \in Pieces /\ Tail(d.rx) \in Seq(Pieces)
  BY <1>1
<1>3. w \in Downstream /\ w.rx = Tail(d.rx) /\ w.request_state = d.request_state /\ w.conn = d.conn
      /\ w.backend = d.backend /\ w.response_state = d.response_state /\ w.response_htp = d.response_htp
  <2> DEFINE t == Tail(d.rx)
  <2> HIDE DEF d, t
  <2> QED
    BY <1>1, <1>2 DEF Downstream, t
<1>4. /\ read \in Proxy /\ read.downstream = w
      /\ read.handler = s.handler /\ read.pc = s.pc /\ read.close_after_write = s.close_after_write
      /\ read.htp = s.htp /\ read.rdbits = s.rdbits /\ read.input = s.input /\ read.pool = s.pool
      /\ read.replies = s.replies /\ read.early = s.early /\ read.surplus = more
  <2>1. more \in BOOLEAN
    OBVIOUS
  <2> HIDE DEF w, more
  <2> QED
    BY <1>3, <2>1 DEF Proxy
<1>5. CASE d.response_htp = "error"
  <2> DEFINE v == [d EXCEPT !.rx = <<>>]
  <2>1. v \in Downstream /\ v.rx = <<>> /\ v.request_state = d.request_state /\ v.conn = d.conn
        /\ v.backend = d.backend /\ v.response_state = d.response_state /\ v.response_htp = "error"
    <3> DEFINE t == <<>>
    <3>1. t \in Seq(Pieces)
      OBVIOUS
    <3> HIDE DEF d, t
    <3>2. [d EXCEPT !.rx = t] \in Downstream
      BY <1>1, <3>1 DEF Downstream
    <3> QED
      BY <1>1, <1>5, <3>2 DEF Downstream, t
  <2>2. u = [s EXCEPT !.downstream = v]
    BY <1>5 DEF parse_http_response
  <2> HIDE DEF v
  <2>3. /\ u \in Proxy /\ u.downstream = v /\ v # None
        /\ u.handler = s.handler /\ u.pc = s.pc /\ u.close_after_write = s.close_after_write
        /\ u.htp = s.htp /\ u.rdbits = s.rdbits /\ u.input = s.input /\ u.pool = s.pool
        /\ u.replies = s.replies /\ u.early = s.early /\ u.surplus = s.surplus
    BY <2>1, <2>2, DownstreamFields
  <2> HIDE DEF u
  <2> QED
    BY <1>5, <2>1, <2>3 DEF u
<1>6. CASE d.response_htp = "ok"
  <2>1. u = ResponseHook(read, piece)
    BY <1>6 DEF parse_http_response
  <2> HIDE DEF read, w, u, more
  <2>2. CASE piece \in {"head", "headclose"}
    <3> DEFINE h == on_downstream_header_complete(read)
               v == [w EXCEPT !.response_state = "HEADER_COMPLETE", !.response_close = (piece = "headclose")]
    <3>1. /\ h \in Proxy /\ h.downstream = w
          /\ h.handler = s.handler /\ h.pc = s.pc /\ h.close_after_write = s.close_after_write
          /\ h.htp = s.htp /\ h.rdbits = s.rdbits /\ h.input = s.input /\ h.pool = s.pool
          /\ s.replies = 0 => h.replies = 1
          /\ h.early = s.early /\ h.surplus = more
      BY <1>4, HeadFields
    <3>2. u = [h EXCEPT !.downstream = v]
      <4>1. u = htp_response_hdrs_completecb(read, piece = "headclose")
        BY <2>1, <2>2 DEF ResponseHook
      <4>2. u = [h EXCEPT !.downstream.response_state = "HEADER_COMPLETE",
                          !.downstream.response_close = (piece = "headclose")]
        BY <4>1 DEF htp_response_hdrs_completecb
      <4> HIDE DEF h
      <4> QED
        BY <3>1, <4>2 DEF Proxy
    <3> HIDE DEF h
    <3>3. v \in Downstream /\ v.rx = w.rx /\ v.request_state = w.request_state /\ v.conn = w.conn
          /\ v.backend = w.backend /\ v.response_state = "HEADER_COMPLETE" /\ v.response_htp = w.response_htp
      BY <1>3 DEF Downstream, MsgStates
    <3> HIDE DEF v
    <3>4. /\ u \in Proxy /\ u.downstream = v /\ v # None
          /\ u.handler = h.handler /\ u.pc = h.pc /\ u.close_after_write = h.close_after_write
          /\ u.htp = h.htp /\ u.rdbits = h.rdbits /\ u.input = h.input /\ u.pool = h.pool
          /\ u.replies = h.replies /\ u.early = h.early /\ u.surplus = h.surplus
      BY <3>1, <3>2, <3>3, DownstreamFields
    <3> QED
      BY <1>2, <1>3, <1>6, <2>2, <3>1, <3>3, <3>4 DEF u, more
  <2>3. CASE piece = "body"
    <3> DEFINE x == MoreOut(read.out)
    <3>1. u = [read EXCEPT !.out = x] /\ x \in Nat
      BY <1>4, <2>1, <2>3 DEF ResponseHook, on_downstream_body, Proxy, MoreOut
    <3> HIDE DEF x
    <3>2. /\ u \in Proxy /\ u.downstream = w
          /\ u.handler = s.handler /\ u.pc = s.pc /\ u.close_after_write = s.close_after_write
          /\ u.htp = s.htp /\ u.rdbits = s.rdbits /\ u.input = s.input /\ u.pool = s.pool
          /\ u.replies = s.replies /\ u.early = s.early /\ u.surplus = more
      BY <1>4, <3>1 DEF Proxy
    <3> QED
      BY <1>2, <1>3, <1>6, <2>3, <3>2, NotNone DEF u, more
  <2>4. CASE piece = "end"
    <3> DEFINE v == [w EXCEPT !.response_state = "MSG_COMPLETE"]
               m == [read EXCEPT !.downstream = v]
    <3>1. v \in Downstream /\ v.rx = w.rx /\ v.request_state = w.request_state /\ v.conn = w.conn
          /\ v.backend = w.backend /\ v.response_state = "MSG_COMPLETE" /\ v.response_htp = w.response_htp
      BY <1>3 DEF Downstream, MsgStates
    <3>2. u = on_downstream_body_complete(m)
      BY <1>4, <2>1, <2>4 DEF ResponseHook
    <3> HIDE DEF v
    <3>3. /\ m \in Proxy /\ m.downstream = v /\ v # None
          /\ m.handler = s.handler /\ m.pc = s.pc /\ m.close_after_write = s.close_after_write
          /\ m.htp = s.htp /\ m.rdbits = s.rdbits /\ m.input = s.input /\ m.pool = s.pool
          /\ m.replies = s.replies /\ m.early = s.early /\ m.surplus = more
      BY <1>4, <3>1, DownstreamFields
    <3> HIDE DEF m
    <3>4. u = m \/ u = [m EXCEPT !.close_after_write = TRUE]
      BY <3>2 DEF on_downstream_body_complete
    <3>5. /\ u \in Proxy /\ u.downstream = v
          /\ u.handler = s.handler /\ u.pc = s.pc /\ (s.close_after_write => u.close_after_write)
          /\ u.htp = s.htp /\ u.rdbits = s.rdbits /\ u.input = s.input /\ u.pool = s.pool
          /\ u.replies = s.replies /\ u.early = s.early /\ u.surplus = more
      <4>1. CASE u = m
        BY <3>3, <4>1
      <4>2. CASE u = [m EXCEPT !.close_after_write = TRUE]
        BY <3>3, <4>2 DEF Proxy
      <4> QED
        BY <3>4, <4>1, <4>2
    <3> QED
      BY <1>2, <1>3, <1>6, <2>4, <3>1, <3>3, <3>5 DEF u, more
  <2>5. CASE piece = "bad"
    <3> DEFINE v == [w EXCEPT !.response_htp = "error"]
    <3>1. v \in Downstream /\ v.rx = w.rx /\ v.request_state = w.request_state /\ v.conn = w.conn
          /\ v.backend = w.backend /\ v.response_state = w.response_state /\ v.response_htp = "error"
      BY <1>3 DEF Downstream
    <3>2. u = [read EXCEPT !.downstream = v]
      BY <1>4, <2>1, <2>5 DEF ResponseHook
    <3> HIDE DEF v
    <3>3. /\ u \in Proxy /\ u.downstream = v /\ v # None
          /\ u.handler = s.handler /\ u.pc = s.pc /\ u.close_after_write = s.close_after_write
          /\ u.htp = s.htp /\ u.rdbits = s.rdbits /\ u.input = s.input /\ u.pool = s.pool
          /\ u.replies = s.replies /\ u.early = s.early /\ u.surplus = more
      BY <1>4, <3>1, <3>2, DownstreamFields
    <3> QED
      BY <1>2, <1>3, <1>6, <2>5, <3>1, <3>3 DEF u, more
  <2> QED
    BY <1>2, <2>2, <2>3, <2>4, <2>5 DEF Pieces
<1> QED
  BY <1>1, <1>5, <1>6 DEF Downstream

-----------------------------------------------------------------------------
(* The hooks of the request parser, field by field.                        *)

\* Nothing but the request's progress has changed in a Downstream.
Alike(d, e) == /\ e.rx = d.rx /\ e.backend = d.backend /\ e.response_state = d.response_state
               /\ e.response_htp = d.response_htp

\* Nothing has changed that no hook touches.
Aside(s, u) == /\ u.pc = s.pc /\ u.close_after_write = s.close_after_write
               /\ u.rdbits = s.rdbits /\ u.input = s.input

\* A new Downstream.
LEMMA NewFields ==
    LET d == NewDownstream IN
    /\ d \in Downstream /\ d # None /\ d.request_state = "INITIAL" /\ d.response_state = "INITIAL"
    /\ d.conn = "null" /\ d.rx = <<>> /\ d.backend = "silent" /\ d.response_htp = "ok"
<1>1. NewDownstream \in Downstream
  BY ShrpxHttpsAssumption DEF NewDownstream, Downstream, MsgStates
<1> QED
  BY <1>1, NotNone DEF NewDownstream

\* htp_msg_begin creates the Downstream, or runs into the assertion.
LEMMA BeginFields ==
    ASSUME NEW s \in Proxy
    PROVE  LET u == htp_msg_begin(s) IN
           /\ u \in Proxy /\ Aside(s, u) /\ u.htp = s.htp /\ u.pool = s.pool
           /\ s.downstream = None =>
                /\ u.handler = s.handler /\ u.replies = 0 /\ u.downstream = NewDownstream
                /\ u.early = FALSE /\ u.surplus = FALSE
           /\ s.downstream # None =>
                u.handler = "crashed" /\ u.replies = s.replies /\ u.early = s.early /\ u.surplus = s.surplus /\ u.downstream = s.downstream
<1> DEFINE v == NewDownstream
<1>1. v \in Downstream
  BY NewFields
<1>2. /\ s.downstream = None => htp_msg_begin(s) = [s EXCEPT !.header_length = 0, !.downstream = v, !.replies = 0,
                          !.early = FALSE, !.surplus = FALSE]
      /\ s.downstream # None => htp_msg_begin(s) = [s EXCEPT !.handler = "crashed"]
  BY DEF htp_msg_begin, Crash
<1> DEFINE u == htp_msg_begin(s)
<1> HIDE DEF v, u
<1>3. CASE s.downstream = None
  <2>1. u = [s EXCEPT !.header_length = 0, !.downstream = v, !.replies = 0,
                          !.early = FALSE, !.surplus = FALSE]
    BY <1>2, <1>3 DEF u
  <2>2. u \in Proxy /\ Aside(s, u) /\ u.htp = s.htp /\ u.pool = s.pool
        /\ u.handler = s.handler /\ u.replies = 0 /\ u.downstream = v
        /\ u.early = FALSE /\ u.surplus = FALSE
    <3> DEFINE z == 0
    <3>1. z \in Nat /\ z \in 0..2
      OBVIOUS
    <3>2. u = [s EXCEPT !.header_length = z, !.downstream = v, !.replies = z,
                          !.early = FALSE, !.surplus = FALSE]
      BY <2>1
    <3> HIDE DEF z
    <3>3. u \in Proxy /\ Aside(s, u) /\ u.htp = s.htp /\ u.pool = s.pool
          /\ u.handler = s.handler /\ u.replies = z /\ u.downstream = v
          /\ u.early = FALSE /\ u.surplus = FALSE
      BY <1>1, <3>1, <3>2 DEF Proxy, Aside
    <3> QED
      BY <3>3 DEF z
  <2> QED
    BY <1>3, <2>2 DEF u, v
<1>4. CASE s.downstream # None
  BY <1>2, <1>4 DEF Proxy, Aside
<1> QED
  BY <1>3, <1>4

\* htp_msg_completecb ends the request and pauses the parser; a chunked upload must
\* still have its connection.
LEMMA CompleteFields ==
    ASSUME NEW s \in Proxy, s.downstream # None
    PROVE  LET u == htp_msg_completecb(s)
               d == s.downstream
               e == u.downstream IN
           /\ u \in Proxy /\ Aside(s, u) /\ u.pool = s.pool /\ u.replies = s.replies /\ u.early = s.early /\ u.surplus = s.surplus
           /\ u.htp = "paused" /\ e # None /\ Alike(d, e) /\ e.conn = d.conn
           /\ e.request_state = "MSG_COMPLETE"
           /\ u.handler \in {s.handler, "crashed"}
           /\ d.conn = "attached" => u.handler = s.handler
<1> DEFINE d == s.downstream
           m == end_upload_data(s)
           f == m.downstream
           v == [f EXCEPT !.request_state = "MSG_COMPLETE"]
           u == htp_msg_completecb(s)
<1>1. d \in Downstream
  BY NotNone DEF Proxy
<1>2. /\ m \in Proxy /\ Aside(s, m) /\ m.pool = s.pool /\ m.replies = s.replies /\ m.early = s.early /\ m.surplus = s.surplus
      /\ f \in Downstream /\ Alike(d, f) /\ f.conn = d.conn
      /\ m.handler \in {s.handler, "crashed"}
      /\ d.conn = "attached" => m.handler = s.handler
  <2>1. CASE m = s
    BY <1>1, <2>1 DEF Aside, Alike
  <2>2. CASE m = Crash(s) /\ d.conn = "null"
    BY <1>1, <2>2 DEF Aside, Alike, Crash, Proxy
  <2>3. CASE m = [s EXCEPT !.downstream.tx = MoreTx(@)]
    <3> DEFINE x == MoreTx(d.tx)
               w == [d EXCEPT !.tx = x]
    <3>1. x \in Nat
      BY <1>1, ShrpxHttpsAssumption DEF Downstream, MoreTx
    <3>2. m = [s EXCEPT !.downstream = w]
      BY <2>3
    <3> HIDE DEF x, d, m, f
    <3>3. w \in Downstream /\ Alike(d, w) /\ w.conn = d.conn
      BY <1>1, <3>1 DEF Downstream, Alike
    <3> HIDE DEF w
    <3> QED
      BY <3>2, <3>3, DownstreamFields DEF Aside, f
  <2> QED
    BY <1>1, <2>1, <2>2, <2>3 DEF end_upload_data, Downstream
<1> HIDE DEF d, m, f
<1>3. v \in Downstream /\ Alike(f, v) /\ v.conn = f.conn /\ v.request_state = "MSG_COMPLETE"
  BY <1>2 DEF Downstream, MsgStates, Alike
<1>4. u = [m EXCEPT !.downstream = v, !.htp = "paused"]
  <2>1. u = [m EXCEPT !.downstream.request_state = "MSG_COMPLETE", !.htp = "paused"]
    BY DEF htp_msg_completecb, m
  <2> QED
    BY <1>2, <2>1 DEF Proxy, f
<1> HIDE DEF v, u
<1>5. /\ u \in Proxy /\ Aside(m, u) /\ u.pool = m.pool /\ u.replies = m.replies /\ u.early = m.early /\ u.surplus = m.surplus /\ u.htp = "paused"
      /\ u.downstream = v /\ u.handler = m.handler /\ v # None
  BY <1>2, <1>3, <1>4, NotNone DEF Proxy, Aside
<1> QED
  BY <1>2, <1>3, <1>5 DEF u, d, Aside, Alike

\* htp_bodycb pushes the data, or fails.
LEMMA BodyFields ==
    ASSUME NEW s \in Proxy, s.downstream # None
    PROVE  LET u == htp_bodycb(s)
               d == s.downstream
               e == u.downstream IN
           /\ u \in Proxy /\ Aside(s, u) /\ u.pool = s.pool /\ u.replies = s.replies /\ u.early = s.early /\ u.surplus = s.surplus
           /\ u.handler = s.handler /\ u.htp \in {s.htp, "error"}
           /\ e # None /\ Alike(d, e) /\ e.conn = d.conn /\ e.request_state = d.request_state
<1> DEFINE d == s.downstream
           m == push_upload_data_chunk(s).state
           f == m.downstream
           u == htp_bodycb(s)
<1>1. d \in Downstream
  BY NotNone DEF Proxy
<1>2. /\ m \in Proxy /\ Aside(s, m) /\ m.pool = s.pool /\ m.replies = s.replies /\ m.early = s.early /\ m.surplus = s.surplus
      /\ f \in Downstream /\ Alike(d, f) /\ f.conn = d.conn /\ f.request_state = d.request_state
      /\ m.handler = s.handler /\ m.htp = s.htp
  <2>1. CASE m = s
    BY <1>1, <2>1 DEF Aside, Alike
  <2>3. CASE m = [s EXCEPT !.downstream.tx = MoreTx(@)]
    <3> DEFINE x == MoreTx(d.tx)
               w == [d EXCEPT !.tx = x]
    <3>1. x \in Nat
      BY <1>1, ShrpxHttpsAssumption DEF Downstream, MoreTx
    <3>2. m = [s EXCEPT !.downstream = w]
      BY <2>3
    <3> HIDE DEF x, d, m, f
    <3>3. w \in Downstream /\ Alike(d, w) /\ w.conn = d.conn /\ w.request_state = d.request_state
      BY <1>1, <3>1 DEF Downstream, Alike
    <3> HIDE DEF w
    <3> QED
      BY <3>2, <3>3, DownstreamFields DEF Aside, f
  <2> QED
    BY <2>1, <2>3 DEF push_upload_data_chunk
<1>3. u = m \/ u = [m EXCEPT !.htp = "error"]
  BY DEF htp_bodycb
<1> HIDE DEF d, m, f, u
<1>4. /\ u \in Proxy /\ Aside(m, u) /\ u.pool = m.pool /\ u.replies = m.replies /\ u.early = m.early /\ u.surplus = m.surplus /\ u.htp \in {m.htp, "error"}
      /\ u.downstream = f /\ u.handler = m.handler
  BY <1>2, <1>3 DEF Proxy, Aside, f
<1> QED
  BY <1>2, <1>4, NotNone DEF u, d, Aside
\* htp_hdrs_completecb: connecting fails, or the request has a connection.
LEMMA HeadersFields ==
    ASSUME NEW s \in Proxy, s.downstream # None, NEW token \in Tokens, token.t = "hdr",
           NEW ok \in BOOLEAN
    PROVE  LET u == htp_hdrs_completecb(s, token, ok)
               d == s.downstream
               e == u.downstream IN
           /\ u \in Proxy /\ Aside(s, u) /\ u.replies = s.replies /\ u.early = s.early /\ u.surplus = s.surplus /\ u.handler = s.handler
           /\ e # None /\ Alike(d, e)
           /\ \/ /\ u.htp = "error" /\ e.request_state = "CONNECT_FAIL" /\ e.conn = d.conn
                 /\ u.pool = s.pool
              \/ /\ e.conn = "attached" /\ u.pool = IF s.pool = 0 THEN 0 ELSE s.pool - 1
                 /\ token.body => u.htp = s.htp /\ e.request_state = "HEADER_COMPLETE"
                 /\ ~token.body => u.htp = "paused" /\ e.request_state = "MSG_COMPLETE"
<1> DEFINE d == s.downstream
           f == [d EXCEPT !.request_close = token.close, !.chunked_request = token.chunked]
           x == IF token.expect THEN MoreOut(s.out) ELSE s.out
           h == [s EXCEPT !.downstream = f, !.out = x]
           u == htp_hdrs_completecb(s, token, ok)
<1>0. token.chunked \in BOOLEAN /\ token.close \in BOOLEAN /\ token.expect \in BOOLEAN /\ token.body \in BOOLEAN
  BY TokenKinds
<1>1. d \in Downstream /\ x \in Nat
  BY <1>0, NotNone DEF Proxy, MoreOut
<1>2. f \in Downstream /\ Alike(d, f) /\ f.conn = d.conn
  BY <1>0, <1>1 DEF Downstream, Alike
<1>3. h = [s EXCEPT !.downstream = set_request_headers(@, token), !.out = IF token.expect THEN MoreOut(@) ELSE @]
  BY DEF set_request_headers
<1> HIDE DEF f, x, d
<1>4. /\ h \in Proxy /\ Aside(s, h) /\ h.replies = s.replies /\ h.early = s.early /\ h.surplus = s.surplus /\ h.handler = s.handler
      /\ h.downstream = f /\ h.htp = s.htp /\ h.pool = s.pool
  BY <1>1, <1>2 DEF Proxy, Aside
<1>5. CASE s.pool = 0 /\ ~ok
  <2> DEFINE v == [f EXCEPT !.request_state = "CONNECT_FAIL"]
  <2>1. v \in Downstream /\ Alike(f, v) /\ v.conn = f.conn /\ v.request_state = "CONNECT_FAIL"
    BY <1>2 DEF Downstream, MsgStates, Alike
  <2>2. u = [h EXCEPT !.downstream.request_state = "CONNECT_FAIL", !.htp = "error"]
    BY <1>3, <1>5 DEF htp_hdrs_completecb
  <2> HIDE DEF h, u
  <2>3. u = [h EXCEPT !.downstream = v, !.htp = "error"]
    BY <1>4, <2>2 DEF Proxy
  <2> HIDE DEF v
  <2>4. /\ u \in Proxy /\ Aside(h, u) /\ u.replies = h.replies /\ u.early = h.early /\ u.surplus = h.surplus /\ u.handler = h.handler
        /\ u.downstream = v /\ u.htp = "error" /\ u.pool = h.pool /\ v # None
    BY <1>4, <2>1, <2>3, NotNone DEF Proxy, Aside
  <2> QED
    BY <1>2, <1>4, <2>1, <2>4 DEF u, d, Aside, Alike
<1>6. CASE ~(s.pool = 0 /\ ~ok)
  <2> DEFINE n == IF s.pool = 0 THEN 0 ELSE s.pool - 1
             y == MoreTx(f.tx)
             v == [f EXCEPT !.conn = "attached", !.ev_read = TRUE, !.tx = y, !.request_state = "HEADER_COMPLETE"]
             a == [h EXCEPT !.pool = n, !.downstream = v]
  <2>1. n \in Nat /\ y \in Nat
    BY <1>2, ShrpxHttpsAssumption DEF Proxy, Downstream, MoreTx
  <2>2. a = [push_request_headers(attach_downstream(get_downstream_connection(h)))
                EXCEPT !.downstream.request_state = "HEADER_COMPLETE"]
    <3> DEFINE g1 == get_downstream_connection(h)
               g2 == attach_downstream(g1)
               g3 == push_request_headers(g2)
               v2 == [f EXCEPT !.conn = "attached", !.ev_read = TRUE]
               v3 == [v2 EXCEPT !.tx = y]
    <3>1. g1 = [h EXCEPT !.pool = n] /\ g1 \in Proxy /\ g1.downstream = f
      <4> HIDE DEF h
      <4>1. g1 = [h EXCEPT !.pool = n]
        BY <1>4 DEF get_downstream_connection
      <4> HIDE DEF n, g1
      <4> QED
        BY <1>4, <2>1, <4>1 DEF Proxy
    <3>2. v2 \in Downstream /\ v2.tx = f.tx
      BY <1>2 DEF Downstream
    <3> HIDE DEF v2, h, g1
    <3>3. g2 = [g1 EXCEPT !.downstream = v2]
      BY <3>1 DEF attach_downstream, Proxy, v2
    <3> HIDE DEF g2
    <3>4. g2 \in Proxy /\ g2.downstream = v2
      BY <3>1, <3>2, <3>3, DownstreamFields
    <3>5. g3 = [g2 EXCEPT !.downstream = v3]
      BY <3>2, <3>4 DEF push_request_headers, Proxy
    <3>6. v3 \in Downstream
      <4> HIDE DEF y
      <4> QED
        BY <2>1, <3>2 DEF Downstream
    <3>7. v = [v3 EXCEPT !.request_state = "HEADER_COMPLETE"]
      <4> HIDE DEF y
      <4> QED
        BY <1>2, <2>1 DEF Downstream, v2
    <3> HIDE DEF v, v3, n, y
    <3>8. g3 \in Proxy /\ g3.downstream = v3
      BY <3>4, <3>5, <3>6, DownstreamFields
    <3>9. [g3 EXCEPT !.downstream.request_state = "HEADER_COMPLETE"] = [g3 EXCEPT !.downstream = v]
      BY <3>7, <3>8 DEF Proxy
    <3>10. [g3 EXCEPT !.downstream = v] = a
      BY <1>4, <3>1, <3>3, <3>5 DEF Proxy
    <3> QED
      BY <3>9, <3>10 DEF g3, g2, g1
  <2>3. u = IF token.body THEN a ELSE htp_msg_completecb(a)
    BY <1>3, <1>6, <2>2 DEF htp_hdrs_completecb
  <2>4. v \in Downstream /\ Alike(f, v) /\ v.conn = "attached" /\ v.request_state = "HEADER_COMPLETE"
    <3> HIDE DEF y
    <3> QED
      BY <1>2, <2>1 DEF Downstream, MsgStates, Alike
  <2> HIDE DEF v, h, u, n
  <2>5. /\ a \in Proxy /\ Aside(h, a) /\ a.replies = h.replies /\ a.early = h.early /\ a.surplus = h.surplus /\ a.handler = h.handler
        /\ a.downstream = v /\ a.htp = h.htp /\ a.pool = n /\ v # None
    BY <1>4, <2>1, <2>4, NotNone DEF Proxy, Aside
  <2> HIDE DEF a
  <2>6. CASE token.body
    <3>1. u = a
      BY <2>3, <2>6
    <3> QED
      BY <1>2, <1>4, <2>4, <2>5, <2>6, <3>1 DEF u, d, n, Aside, Alike
  <2>7. CASE ~token.body
    <3> DEFINE m == htp_msg_completecb(a)
    <3>1. u = m
      BY <2>3, <2>7
    <3>2. /\ m \in Proxy /\ Aside(a, m) /\ m.pool = a.pool /\ m.replies = a.replies /\ m.early = a.early /\ m.surplus = a.surplus
          /\ m.htp = "paused" /\ m.downstream # None /\ Alike(v, m.downstream)
          /\ m.downstream.conn = "attached" /\ m.downstream.request_state = "MSG_COMPLETE"
          /\ m.handler = a.handler
      BY <2>4, <2>5, CompleteFields
    <3> HIDE DEF m
    <3> QED
      BY <1>2, <1>4, <2>4, <2>5, <2>7, <3>1, <3>2 DEF u, d, n, Aside, Alike
  <2> QED
    BY <2>6, <2>7
<1> QED
  BY <1>5, <1>6
\* Taking a piece from the input buffer.
LEMMA TakenFields ==
    ASSUME NEW s \in Proxy, s.input # <<>>
    PROVE  LET q == [s EXCEPT !.input = Tail(@)] IN
           /\ q \in Proxy /\ q.input = Tail(s.input) /\ Head(s.input) \in Tokens
           /\ q.handler = s.handler /\ q.pc = s.pc /\ q.close_after_write = s.close_after_write
           /\ q.htp = s.htp /\ q.rdbits = s.rdbits /\ q.downstream = s.downstream /\ q.pool = s.pool
           /\ q.replies = s.replies /\ q.early = s.early /\ q.surplus = s.surplus
<1> DEFINE t == Tail(s.input)
<1>1. s.input \in Seq(Tokens)
  BY DEF Proxy
<1>2. t \in Seq(Tokens) /\ Head(s.input) \in Tokens
  BY <1>1
<1>3. [s EXCEPT !.input = Tail(@)] = [s EXCEPT !.input = t]
  OBVIOUS
<1> HIDE DEF t
<1>4. LET q == [s EXCEPT !.input = t] IN
           /\ q \in Proxy /\ q.input = t
           /\ q.handler = s.handler /\ q.pc = s.pc /\ q.close_after_write = s.close_after_write
           /\ q.htp = s.htp /\ q.rdbits = s.rdbits /\ q.downstream = s.downstream /\ q.pool = s.pool
           /\ q.replies = s.replies /\ q.early = s.early /\ q.surplus = s.surplus
  BY <1>2 DEF Proxy
<1> QED
  BY <1>2, <1>3, <1>4 DEF t

\* What http_parser_execute() does around the hook n.
LEMMA ExecutedFields ==
    ASSUME NEW n \in Proxy, NEW token \in Tokens,
           NEW u, u = IF n.htp = "error" THEN [n EXCEPT !.input = <<token>>]
                      ELSE [n EXCEPT !.header_length = IF @ > MaxHeader THEN @ ELSE @ + 1]
    PROVE  /\ u \in Proxy
           /\ u.handler = n.handler /\ u.pc = n.pc /\ u.close_after_write = n.close_after_write
           /\ u.htp = n.htp /\ u.rdbits = n.rdbits /\ u.downstream = n.downstream /\ u.pool = n.pool
           /\ u.replies = n.replies /\ u.early = n.early /\ u.surplus = n.surplus
           /\ n.htp = "error" => u.input = <<token>>
           /\ n.htp # "error" => u.input = n.input
<1>1. CASE n.htp = "error"
  <2> DEFINE t == <<token>>
  <2>1. t \in Seq(Tokens)
    OBVIOUS
  <2>2. u = [n EXCEPT !.input = t]
    BY <1>1
  <2> HIDE DEF t
  <2>3. /\ u \in Proxy
        /\ u.handler = n.handler /\ u.pc = n.pc /\ u.close_after_write = n.close_after_write
        /\ u.htp = n.htp /\ u.rdbits = n.rdbits /\ u.downstream = n.downstream /\ u.pool = n.pool
        /\ u.replies = n.replies /\ u.early = n.early /\ u.surplus = n.surplus /\ u.input = t
    BY <2>1, <2>2 DEF Proxy
  <2> QED
    BY <1>1, <2>3 DEF t
<1>2. CASE n.htp # "error"
  <2> DEFINE x == IF n.header_length > MaxHeader THEN n.header_length ELSE n.header_length + 1
  <2>1. x \in Nat
    BY DEF Proxy
  <2>2. u = [n EXCEPT !.header_length = x]
    BY <1>2
  <2> HIDE DEF x
  <2> QED
    BY <1>2, <2>1, <2>2 DEF Proxy
<1> QED
  BY <1>1, <1>2

\* The request parser takes a piece: whatever it does, a Downstream has at most one
\* connection, and the pieces left continue the request the parser is then in.
LEMMA ExecuteKeeps ==
    ASSUME NEW s, Sane(s), s.htp = "ok", s.pc = "request", s.input # <<>>,
           NEW w \in Seq(Tokens), NEW c, Chained(Pos(s), s.input \o w, c), NEW ok \in BOOLEAN
    PROVE  LET u == Execute(s, ok) IN
           /\ Sane(u)
           /\ u.handler = "open" /\ u.htp # "error" => Chained(Pos(u), u.input \o w, c)
<1> DEFINE token == Head(s.input)
           q == [s EXCEPT !.input = Tail(@)]
           n == RequestHook(q, token, ok)
           u == Execute(s, ok)
           e == n.downstream
           d == s.downstream
<1>1. s \in Proxy
  BY DEF Sane
<1>2. /\ q \in Proxy /\ q.input = Tail(s.input) /\ token \in Tokens
      /\ q.handler = s.handler /\ q.pc = s.pc /\ q.htp = s.htp
      /\ q.downstream = s.downstream /\ q.pool = s.pool
  BY <1>1, TakenFields
<1>3. Fits(Pos(s), token) /\ Chained(After(token), Tail(s.input) \o w, c)
  <2>1. s.input \in Seq(Tokens)
    BY <1>1 DEF Proxy
  <2> QED
    BY <2>1, ChainTaken
<1>4. u = IF n.htp = "error" THEN [n EXCEPT !.input = <<token>>]
          ELSE [n EXCEPT !.header_length = IF @ > MaxHeader THEN @ ELSE @ + 1]
  BY DEF Execute
<1> SUFFICES Sane(u) /\ (u.handler = "open" /\ u.htp # "error" => Chained(Pos(u), u.input \o w, c))
  OBVIOUS
<1>p. /\ d # None => d.conn \in {"attached", "null"} /\ d.request_state \in MsgStates
      /\ d # None /\ d.request_state = "INITIAL" => d.conn = "null"
      /\ s.pool \in Nat
      /\ s.pool <= 1 /\ (d # None /\ d.conn = "attached" => s.pool = 0)
  BY <1>1, NotNone DEF Sane, ConnectsLate, One, Proxy, Downstream
<1> HIDE DEF q, token, u, e
\* It is enough that the hook leaves a sane state at the right place.
<1>5. ASSUME n \in Proxy, n.pc = "request", n.input = q.input,
             ConnectsLate(n), One(n),
             n.handler = "open" /\ n.htp # "error" => Pos(n) = After(token)
      PROVE  Sane(u) /\ (u.handler = "open" /\ u.htp # "error" => Chained(Pos(u), u.input \o w, c))
  <2> HIDE DEF n
  <2>1. /\ u \in Proxy /\ u.handler = n.handler /\ u.pc = n.pc /\ u.htp = n.htp
        /\ u.downstream = n.downstream /\ u.pool = n.pool
        /\ n.htp = "error" => u.input = <<token>>
        /\ n.htp # "error" => u.input = n.input
    BY <1>2, <1>4, <1>5, ExecutedFields
  <2>2. Sane(u)
    <3>0. <<token>> # <<>>
      OBVIOUS
    <3>1. KeepsFailure(u)
      BY <2>1, <3>0 DEF KeepsFailure
    <3> QED
      BY <1>5, <2>1, <3>1 DEF Sane, ReadsAttached, ConnectsLate, One
  <2>3. u.handler = "open" /\ u.htp # "error" => Pos(u) = After(token) /\ u.input = Tail(s.input)
    BY <1>2, <1>5, <2>1 DEF Pos
  <2> QED
    BY <1>3, <2>2, <2>3
<1>6. CASE token.t = "begin"
  <2>1. n = htp_msg_begin(q)
    BY <1>6 DEF RequestHook
  <2> HIDE DEF n
  <2>2. /\ n \in Proxy /\ Aside(q, n) /\ n.htp = q.htp /\ n.pool = q.pool
        /\ q.downstream = None => n.handler = q.handler /\ n.downstream = NewDownstream
        /\ q.downstream # None => n.handler = "crashed" /\ n.downstream = q.downstream
    BY <1>2, <2>1, BeginFields
  <2>3. CASE d = None
    <3>1. /\ n.downstream # None /\ n.downstream.request_state = "INITIAL" /\ n.downstream.conn = "null"
      BY <1>2, <2>2, <2>3, NewFields
    <3>2. ConnectsLate(n) /\ One(n) /\ Pos(n) = "head" /\ After(token) = "head"
      BY <1>2, <1>p, <1>6, <2>2, <3>1 DEF ConnectsLate, One, Pos, After
    <3> QED
      BY <1>2, <1>5, <2>2, <3>2 DEF Aside
  <2>4. CASE d # None
    <3>1. ConnectsLate(n) /\ One(n)
      BY <1>2, <2>2, <2>4 DEF Sane, ConnectsLate, One
    <3> QED
      BY <1>2, <1>5, <2>2, <2>4, <3>1 DEF Aside
  <2> QED
    BY <2>3, <2>4
<1>7. CASE token.t = "more"
  <2>1. n = q
    BY <1>7 DEF RequestHook
  <2>2. ConnectsLate(q) /\ One(q) /\ Pos(q) = Pos(s)
    BY <1>2 DEF Sane, ConnectsLate, One, Pos
  <2>3. Pos(s) = "head" /\ After(token) = "head"
    BY <1>3, <1>7 DEF Fits, After
  <2> QED
    BY <1>2, <1>5, <2>1, <2>2, <2>3
<1>8. CASE token.t = "hdr"
  <2>1. n = htp_hdrs_completecb(q, token, ok)
    BY <1>8 DEF RequestHook
  <2>2. d # None /\ d.request_state = "INITIAL" /\ d.conn = "null"
    BY <1>3, <1>8, <1>p DEF Fits, Pos
  <2>3. /\ n \in Proxy /\ Aside(q, n) /\ n.handler = q.handler /\ e # None
        /\ \/ /\ n.htp = "error" /\ e.request_state = "CONNECT_FAIL" /\ e.conn = d.conn
              /\ n.pool = q.pool
           \/ /\ e.conn = "attached" /\ n.pool = IF q.pool = 0 THEN 0 ELSE q.pool - 1
              /\ token.body => n.htp = q.htp /\ e.request_state = "HEADER_COMPLETE"
              /\ ~token.body => n.htp = "paused" /\ e.request_state = "MSG_COMPLETE"
    BY <1>2, <1>8, <2>1, <2>2, HeadersFields DEF e
  <2>b. token.body \in BOOLEAN
    BY <1>2, <1>8, TokenKinds
  <2> HIDE DEF n
  <2>4. ConnectsLate(n)
    BY <2>2, <2>3, <2>b DEF ConnectsLate, e
  <2>5. One(n)
    BY <1>2, <1>p, <2>2, <2>3 DEF One, e
  <2>6. n.htp # "error" => Pos(n) = After(token)
    BY <1>8, <2>3, <2>b DEF Pos, After, e
  <2> QED
    BY <1>2, <1>5, <2>3, <2>4, <2>5, <2>6 DEF Aside
<1>9. CASE token.t = "body"
  <2>1. n = htp_bodycb(q)
    BY <1>9 DEF RequestHook
  <2>2. d # None /\ d.request_state \notin {"INITIAL", "MSG_COMPLETE"}
    BY <1>3, <1>9, <1>p DEF Fits, Pos
  <2>3. /\ n \in Proxy /\ Aside(q, n) /\ n.pool = q.pool /\ n.handler = q.handler
        /\ n.htp \in {q.htp, "error"} /\ e # None /\ e.conn = d.conn /\ e.request_state = d.request_state
    BY <1>2, <2>1, <2>2, BodyFields DEF e
  <2> HIDE DEF n
  <2>4. ConnectsLate(n) /\ One(n)
    BY <1>2, <2>2, <2>3 DEF Sane, ConnectsLate, One, e
  <2>5. Pos(n) = After(token)
    BY <1>9, <2>2, <2>3 DEF Pos, After, e
  <2> QED
    BY <1>2, <1>5, <2>3, <2>4, <2>5 DEF Aside
<1>10. CASE token.t = "end"
  <2>1. n = htp_msg_completecb(q)
    BY <1>10 DEF RequestHook
  <2>2. d # None /\ d.request_state \notin {"INITIAL", "MSG_COMPLETE"}
    BY <1>3, <1>10, <1>p DEF Fits, Pos
  <2>3. /\ n \in Proxy /\ Aside(q, n) /\ n.pool = q.pool
        /\ e # None /\ e.conn = d.conn /\ e.request_state = "MSG_COMPLETE"
    BY <1>2, <2>1, <2>2, CompleteFields DEF e
  <2> HIDE DEF n
  <2>4. ConnectsLate(n) /\ One(n)
    BY <1>2, <2>2, <2>3 DEF Sane, ConnectsLate, One, e
  <2>5. Pos(n) = After(token)
    BY <1>10, <2>2, <2>3 DEF Pos, After, e
  <2> QED
    BY <1>2, <1>5, <2>3, <2>4, <2>5 DEF Aside
<1>11. CASE token.t = "bad"
  <2>1. n = [q EXCEPT !.htp = "error"]
    BY <1>11 DEF RequestHook
  <2> HIDE DEF n
  <2>2. /\ n \in Proxy /\ Aside(q, n) /\ n.pool = q.pool /\ n.downstream = q.downstream
        /\ n.htp = "error"
    BY <1>2, <2>1 DEF Proxy, Aside
  <2>3. ConnectsLate(n) /\ One(n)
    BY <1>2, <2>2 DEF Sane, ConnectsLate, One
  <2> QED
    BY <1>2, <1>5, <2>2, <2>3 DEF Aside
<1> QED
  BY <1>2, <1>6, <1>7, <1>8, <1>9, <1>10, <1>11, TokenKinds
-----------------------------------------------------------------------------
(* The callbacks keep Sane and the place of the request parser.            *)

Keeps(s, u) == u.handler = "open" /\ u.htp # "error" =>
                  s.handler = "open" /\ s.htp # "error" /\ Pos(u) = Pos(s) /\ u.input = s.input

\* Keeping is transitive.
LEMMA KeepsTwice == ASSUME NEW s, NEW m, NEW u, Keeps(s, m), Keeps(m, u) PROVE Keeps(s, u)
  BY DEF Keeps

\* ~ClientHandler.
LEMMA DeletedSane == ASSUME NEW s, NEW t PROVE Sane(Delete(s)) /\ Keeps(t, Delete(s))
<1> DEFINE u == Delete(s)
<1>1. /\ u \in Proxy /\ u.handler = "deleted" /\ u.downstream = None /\ u.pc = "loop"
      /\ u.htp = "ok" /\ u.pool = 0
  BY DeleteFields
<1> HIDE DEF u
<1>2. Sane(u) /\ Keeps(t, u)
  BY <1>1 DEF Sane, Keeps, KeepsFailure, ReadsAttached, ConnectsLate, One
<1> QED
  BY <1>2 DEF u

\* An unread client is read again, from where the parser stopped.
LEMMA ResumeSane ==
    ASSUME NEW s, Sane(s), s.pc = "loop", NEW reason
    PROVE  Sane(resume_read(s, reason)) /\ Keeps(s, resume_read(s, reason))
<1> DEFINE u == resume_read(s, reason)
<1>1. s \in Proxy
  BY DEF Sane
<1>2. /\ u \in Proxy /\ u.downstream = s.downstream /\ u.handler \in {s.handler, "aborted"}
      /\ u.input = s.input /\ u.pool = s.pool
      /\ u.pc \in {"loop", "request"} /\ (u.htp = "error" <=> s.htp = "error")
  <2>1. u.rdbits = {} \/ u.rdbits # {}
    OBVIOUS
  <2> QED
    BY <1>1, <2>1, ResumeFields
<1> HIDE DEF u
<1>3. Sane(u)
  BY <1>2 DEF Sane, KeepsFailure, ReadsAttached, ConnectsLate, One
<1>4. Keeps(s, u)
  BY <1>2 DEF Keeps, Pos
<1> QED
  BY <1>3, <1>4 DEF u

\* The Downstream of a complete request can go.
LEMMA DeleteDownstreamSane ==
    ASSUME NEW s, Sane(s), s.pc = "loop", Pos(s) = "idle"
    PROVE  LET u == delete_downstream(s) IN
           Sane(u) /\ Keeps(s, u) /\ u.pc = "loop"
<1> DEFINE u == delete_downstream(s)
<1>1. s \in Proxy /\ s.pool \in Nat
  BY DEF Sane, Proxy
<1>2. /\ u \in Proxy /\ u.downstream = None /\ u.handler = s.handler /\ u.pc = s.pc
      /\ u.htp = s.htp /\ u.input = s.input /\ u.pool = s.pool
  BY <1>1, DeleteDownstreamFields
<1> HIDE DEF u
<1>3. Sane(u)
  BY <1>1, <1>2 DEF Sane, KeepsFailure, ReadsAttached, ConnectsLate, One
<1>4. Keeps(s, u)
  BY <1>2 DEF Keeps, Pos
<1> QED
  BY <1>2, <1>3, <1>4 DEF u

\* On to the next request.
LEMMA NextRequestSane ==
    ASSUME NEW s, Sane(s), s.pc = "loop", Pos(s) = "idle"
    PROVE  Sane(next_request(s)) /\ Keeps(s, next_request(s))
<1> DEFINE m == delete_downstream(s)
<1>1. Sane(m) /\ Keeps(s, m) /\ m.pc = "loop"
  BY DeleteDownstreamSane
<1> HIDE DEF m
<1>2. Sane(resume_read(m, "MSG_BLOCK")) /\ Keeps(m, resume_read(m, "MSG_BLOCK"))
  BY <1>1, ResumeSane
<1> QED
  BY <1>1, <1>2, KeepsTwice DEF next_request, m

\* An answer of the proxy's own.
LEMMA ErrorReplySane ==
    ASSUME NEW s, Sane(s)
    PROVE  LET u == error_reply(s) IN
           Sane(u) /\ Keeps(s, u) /\ Pos(u) = Pos(s) /\ u.pc = s.pc
<1> DEFINE u == error_reply(s)
           d == s.downstream
           e == u.downstream
<1>1. s \in Proxy
  BY DEF Sane
<1>2. /\ u \in Proxy /\ u.handler = s.handler /\ u.pc = s.pc
      /\ u.htp = s.htp /\ u.input = s.input /\ u.pool = s.pool
      /\ (e = None <=> d = None)
      /\ d # None => e.request_state = d.request_state /\ e.conn = d.conn
  BY <1>1, ErrorReplyFields
<1> HIDE DEF u
<1>3. Sane(u)
  BY <1>2 DEF Sane, KeepsFailure, ReadsAttached, ConnectsLate, One
<1>4. Pos(u) = Pos(s)
  BY <1>2 DEF Pos
<1> QED
  BY <1>2, <1>3, <1>4 DEF u, Keeps

\* The same, and the connection will be closed.
LEMMA CloseWithErrorSane ==
    ASSUME NEW s, Sane(s)
    PROVE  LET u == close_with_error(s) IN
           Sane(u) /\ Keeps(s, u) /\ Pos(u) = Pos(s) /\ u.pc = s.pc
<1> DEFINE m == [s EXCEPT !.close_after_write = TRUE]
<1>1. /\ m \in Proxy /\ m.downstream = s.downstream /\ m.handler = s.handler /\ m.pc = s.pc
      /\ m.htp = s.htp /\ m.input = s.input /\ m.pool = s.pool
  BY DEF Sane, Proxy
<1>2. close_with_error(s) = error_reply(m)
  BY DEF close_with_error
<1> HIDE DEF m
<1>3. Sane(m) /\ Keeps(s, m) /\ Pos(m) = Pos(s)
  BY <1>1 DEF Sane, KeepsFailure, ReadsAttached, ConnectsLate, One, Keeps, Pos
<1> QED
  BY <1>1, <1>2, <1>3, ErrorReplySane, KeepsTwice

\* The request parser has returned: the fields on_read goes on with.
LEMMA ReturnedFields ==
    ASSUME NEW s \in Proxy, KeepsFailure(s)
    PROVE  LET m == [s EXCEPT !.pc = "loop", !.input = IF s.htp = "error" THEN <<Head(@)>> ELSE @] IN
           /\ m \in Proxy /\ m.pc = "loop" /\ KeepsFailure(m) /\ (s.htp # "error" => m.input = s.input)
           /\ m.handler = s.handler /\ m.close_after_write = s.close_after_write
           /\ m.htp = s.htp /\ m.rdbits = s.rdbits /\ m.downstream = s.downstream /\ m.pool = s.pool
           /\ m.replies = s.replies /\ m.early = s.early /\ m.surplus = s.surplus
<1> DEFINE t == IF s.htp = "error" THEN <<Head(s.input)>> ELSE s.input
           m == [s EXCEPT !.pc = "loop", !.input = t]
<1>1. t \in Seq(Tokens) /\ (s.htp = "error" => t # <<>>) /\ (s.htp # "error" => t = s.input)
  <2>1. s.input \in Seq(Tokens)
    BY DEF Proxy
  <2>2. CASE s.htp = "error"
    <3>1. s.input # <<>> /\ Head(s.input) \in Tokens
      BY <2>1, <2>2 DEF KeepsFailure
    <3>2. <<Head(s.input)>> \in Seq(Tokens) /\ <<Head(s.input)>> # <<>>
      BY <3>1
    <3> QED
      BY <2>2, <3>2
  <2> QED
    BY <2>1, <2>2
<1>2. m = [s EXCEPT !.pc = "loop", !.input = IF s.htp = "error" THEN <<Head(@)>> ELSE @]
  BY DEF Proxy
<1> HIDE DEF t
<1>3. /\ m \in Proxy /\ m.pc = "loop" /\ m.input = t
      /\ m.handler = s.handler /\ m.close_after_write = s.close_after_write
      /\ m.htp = s.htp /\ m.rdbits = s.rdbits /\ m.downstream = s.downstream /\ m.pool = s.pool
      /\ m.replies = s.replies /\ m.early = s.early /\ m.surplus = s.surplus
  BY <1>1 DEF Proxy
<1> QED
  BY <1>1, <1>2, <1>3 DEF KeepsFailure

\* A reason to pause.
LEMMA PauseFields ==
    ASSUME NEW s \in Proxy, NEW reason \in {"MSG_BLOCK", "NO_BUFFER"}
    PROVE  LET u == pause_read(s, reason) IN
           /\ u \in Proxy /\ u.handler = s.handler /\ u.close_after_write = s.close_after_write
           /\ u.htp = s.htp /\ u.downstream = s.downstream /\ u.pool = s.pool
           /\ u.replies = s.replies /\ u.early = s.early /\ u.surplus = s.surplus /\ u.input = s.input /\ u.pc = s.pc
           /\ u.rdbits = s.rdbits \cup {reason}
<1> DEFINE r == s.rdbits \cup {reason}
<1>1. r \in SUBSET {"MSG_BLOCK", "NO_BUFFER"}
  BY DEF Proxy
<1>2. pause_read(s, reason) = [s EXCEPT !.rdbits = r]
  BY DEF pause_read
<1> HIDE DEF r
<1>3. LET u == [s EXCEPT !.rdbits = r] IN
           /\ u \in Proxy /\ u.handler = s.handler /\ u.close_after_write = s.close_after_write
           /\ u.htp = s.htp /\ u.downstream = s.downstream /\ u.pool = s.pool
           /\ u.replies = s.replies /\ u.early = s.early /\ u.surplus = s.surplus /\ u.input = s.input /\ u.pc = s.pc
           /\ u.rdbits = r
  BY <1>1 DEF Proxy
<1> QED
  BY <1>2, <1>3 DEF r

\* What on_read does once the parser has returned.
LEMMA ExecutedSane ==
    ASSUME NEW s, Sane(s), s.pc = "request"
    PROVE  LET u == on_read_executed(s) IN Sane(u) /\ Keeps(s, u)
<1> DEFINE m == [s EXCEPT !.pc = "loop", !.input = IF s.htp = "error" THEN <<Head(@)>> ELSE @]
           d == m.downstream
           u == on_read_executed(s)
<1>1. s \in Proxy /\ KeepsFailure(s)
  BY DEF Sane
<1>2. /\ m \in Proxy /\ m.pc = "loop" /\ KeepsFailure(m) /\ (s.htp # "error" => m.input = s.input)
      /\ m.handler = s.handler /\ m.htp = s.htp /\ m.downstream = s.downstream /\ m.pool = s.pool
  BY <1>1, ReturnedFields
<1>3. \/ m.htp = "paused" /\ u = Crash(m)
      \/ u = close_with_error(m)
      \/ d # None /\ d.request_state = "MSG_COMPLETE" /\ u = delete_downstream(m)
      \/ \E reason \in {"MSG_BLOCK", "NO_BUFFER"} : u = pause_read(m, reason)
      \/ u = m
  <2> HIDE DEF m
  <2>1. m.htp \in {"ok", "paused", "error"}
    BY <1>2 DEF Proxy
  <2>2. u = CASE m.htp = "paused" /\ d = None -> Crash(m)
          [] m.htp = "paused" /\ d # None ->
               IF d.request_state = "CONNECT_FAIL" THEN close_with_error(m)
               ELSE IF d.request_state # "MSG_COMPLETE" THEN Crash(m)
               ELSE IF d.conn = "attached" THEN pause_read(m, "MSG_BLOCK")
               ELSE IF d.response_state = "MSG_COMPLETE" THEN delete_downstream(m)
               ELSE Crash(m)
          [] m.htp = "ok" /\ d # None ->
               IF d.request_state = "INITIAL" /\ m.header_length > MaxHeader
               THEN close_with_error(m)
               ELSE IF get_output_buffer_full(d) THEN pause_read(m, "NO_BUFFER") ELSE m
          [] m.htp = "ok" /\ d = None -> m
          [] m.htp = "error"          -> close_with_error(m)
    BY DEF on_read_executed, m
  <2> QED
    BY <2>1, <2>2
<1> HIDE DEF m, u
<1>4. Sane(m) /\ Keeps(s, m)
  BY <1>2 DEF Sane, KeepsFailure, ReadsAttached, ConnectsLate, One, Keeps, Pos
<1>5. CASE u = Crash(m)
  <2>1. /\ u \in Proxy /\ u.handler = "crashed" /\ u.htp = m.htp /\ u.downstream = m.downstream
        /\ u.pool = m.pool /\ u.pc = m.pc /\ u.input = m.input
    BY <1>2, <1>5 DEF Crash, Proxy
  <2>2. Sane(u) /\ Keeps(s, u)
    BY <1>4, <2>1 DEF Sane, KeepsFailure, ReadsAttached, ConnectsLate, One, Keeps
  <2> QED
    BY <2>2 DEF u
<1>6. CASE u = close_with_error(m)
  BY <1>4, <1>6, CloseWithErrorSane, KeepsTwice DEF u
<1>7. CASE d # None /\ d.request_state = "MSG_COMPLETE" /\ u = delete_downstream(m)
  <2>1. Pos(m) = "idle"
    BY <1>7 DEF Pos
  <2> QED
    BY <1>2, <1>4, <1>7, <2>1, DeleteDownstreamSane, KeepsTwice DEF u
<1>8. ASSUME NEW reason \in {"MSG_BLOCK", "NO_BUFFER"}, u = pause_read(m, reason)
      PROVE  Sane(u) /\ Keeps(s, u)
  <2>1. /\ u \in Proxy /\ u.handler = m.handler /\ u.htp = m.htp /\ u.downstream = m.downstream
        /\ u.pool = m.pool /\ u.pc = m.pc /\ u.input = m.input
    BY <1>2, <1>8, PauseFields
  <2>2. Sane(u) /\ Keeps(m, u)
    BY <1>4, <2>1 DEF Sane, KeepsFailure, ReadsAttached, ConnectsLate, One, Keeps, Pos
  <2> QED
    BY <1>4, <2>2, KeepsTwice
<1>9. CASE u = m
  BY <1>4, <1>9 DEF u
<1> QED
  BY <1>3, <1>5, <1>6, <1>7, <1>8, <1>9 DEF u
\* A step that changes nothing an invariant is about.
Same(s, u) == /\ u \in Proxy /\ Aside(s, u) /\ u.handler = s.handler /\ u.htp = s.htp /\ u.pool = s.pool
              /\ u.replies = s.replies
              /\ u.downstream # None <=> s.downstream # None
              /\ s.downstream # None => /\ Alike(s.downstream, u.downstream)
                                        /\ u.downstream.conn = s.downstream.conn
                                        /\ u.downstream.request_state = s.downstream.request_state

\* The history is not touched.
Marks(s, u) == u.early = s.early /\ u.surplus = s.surplus

\* Such a step keeps everything.
LEMMA SameSane == ASSUME NEW s, NEW u, Sane(s), Same(s, u) PROVE Sane(u) /\ Keeps(s, u) /\ Pos(u) = Pos(s)
<1>1. Pos(u) = Pos(s)
  BY DEF Same, Pos
<1>2. Sane(u)
  BY DEF Same, Sane, KeepsFailure, ReadsAttached, ConnectsLate, One, Aside
<1> QED
  BY <1>1, <1>2 DEF Same, Keeps, Aside

\* Whether the backend is read is not what the invariants are about.
LEMMA EvReadSame ==
    ASSUME NEW s \in Proxy, s.downstream # None, NEW b \in BOOLEAN
    PROVE  Same(s, [s EXCEPT !.downstream.ev_read = b]) /\ Marks(s, [s EXCEPT !.downstream.ev_read = b])
<1> DEFINE d == s.downstream
           v == [d EXCEPT !.ev_read = b]
           u == [s EXCEPT !.downstream = v]
<1>1. d \in Downstream
  BY NotNone DEF Proxy
<1>2. v \in Downstream /\ Alike(d, v) /\ v.conn = d.conn /\ v.request_state = d.request_state
  <2> HIDE DEF d
  <2> QED
    BY <1>1 DEF Downstream, Alike
<1>3. u = [s EXCEPT !.downstream.ev_read = b]
  OBVIOUS
<1> HIDE DEF v
<1>4. /\ u \in Proxy /\ u.downstream = v /\ v # None
      /\ u.handler = s.handler /\ u.pc = s.pc /\ u.close_after_write = s.close_after_write
      /\ u.htp = s.htp /\ u.rdbits = s.rdbits /\ u.input = s.input /\ u.pool = s.pool
      /\ u.replies = s.replies /\ u.early = s.early /\ u.surplus = s.surplus
  BY <1>2, DownstreamFields
<1> HIDE DEF u
<1>5. Same(s, u) /\ Marks(s, u)
  BY <1>2, <1>4 DEF Same, Marks, Aside
<1> QED
  BY <1>3, <1>5

\* An event of the backend connection, which libevent will not read, or write, again.
LEMMA EventFields ==
    ASSUME NEW s \in Proxy, s.downstream # None, NEW u,
           \/ u = [WithEvent(s) EXCEPT !.downstream.ev_read = FALSE]
           \/ u = [WithEvent(s) EXCEPT !.downstream.ev_write = FALSE]
    PROVE  /\ Same(s, u) /\ u.surplus = s.surplus
           /\ u.early = (s.early \/ s.downstream.request_state # "MSG_COMPLETE")
<1> DEFINE d == s.downstream
           b == s.early \/ d.request_state # "MSG_COMPLETE"
           w == [s EXCEPT !.early = b]
<1>1. d \in Downstream /\ b \in BOOLEAN
  BY NotNone DEF Proxy
<1>2. WithEvent(s) = w
  BY DEF WithEvent
<1> HIDE DEF b
<1>3. /\ w \in Proxy /\ w.downstream = d /\ w.early = b
      /\ w.handler = s.handler /\ w.pc = s.pc /\ w.close_after_write = s.close_after_write
      /\ w.htp = s.htp /\ w.rdbits = s.rdbits /\ w.input = s.input /\ w.pool = s.pool
      /\ w.replies = s.replies /\ w.surplus = s.surplus
  BY <1>1 DEF Proxy
<1> HIDE DEF w
<1>4. PICK v \in Downstream : /\ u = [w EXCEPT !.downstream = v] /\ Alike(d, v)
                              /\ v.conn = d.conn /\ v.request_state = d.request_state
  <2> HIDE DEF d
  <2>1. [d EXCEPT !.ev_read = FALSE] \in Downstream /\ [d EXCEPT !.ev_write = FALSE] \in Downstream
    BY <1>1 DEF Downstream
  <2>2. ASSUME NEW v, v \in {[d EXCEPT !.ev_read = FALSE], [d EXCEPT !.ev_write = FALSE]}
        PROVE  Alike(d, v) /\ v.conn = d.conn /\ v.request_state = d.request_state
    BY <1>1, <2>2 DEF Downstream, Alike
  <2>3. \/ u = [w EXCEPT !.downstream = [d EXCEPT !.ev_read = FALSE]]
        \/ u = [w EXCEPT !.downstream = [d EXCEPT !.ev_write = FALSE]]
    BY <1>2, <1>3 DEF Proxy
  <2> QED
    BY <2>1, <2>2, <2>3
<1>5. /\ u \in Proxy /\ u.downstream = v /\ v # None
      /\ u.handler = w.handler /\ u.pc = w.pc /\ u.close_after_write = w.close_after_write
      /\ u.htp = w.htp /\ u.rdbits = w.rdbits /\ u.input = w.input /\ u.pool = w.pool
      /\ u.replies = w.replies /\ u.early = w.early /\ u.surplus = w.surplus
  BY <1>3, <1>4, DownstreamFields
<1> QED
  BY <1>3, <1>4, <1>5 DEF Same, Aside, b

\* The backend connection is read.
LEMMA ReadFields ==
    ASSUME px \in Proxy, downstream_read
    PROVE  /\ px' \in Proxy /\ px'.pc = "response" /\ px'.input = px.input /\ px'.handler = px.handler
           /\ px'.htp = px.htp /\ px'.downstream = px.downstream /\ px'.pool = px.pool
           /\ px'.rdbits = px.rdbits /\ px'.close_after_write = px.close_after_write
           /\ px'.replies = px.replies /\ px'.surplus = px.surplus
           /\ px'.early = (px.early \/ px.downstream.request_state # "MSG_COMPLETE")
<1> DEFINE b == px.early \/ px.downstream.request_state # "MSG_COMPLETE"
<1>1. px' = [px EXCEPT !.early = b, !.pc = "response"] /\ b \in BOOLEAN
  BY DEF downstream_read, WithEvent, Proxy
<1> HIDE DEF b
<1>2. /\ px' \in Proxy /\ px'.pc = "response" /\ px'.input = px.input /\ px'.handler = px.handler
      /\ px'.htp = px.htp /\ px'.downstream = px.downstream /\ px'.pool = px.pool
      /\ px'.rdbits = px.rdbits /\ px'.close_after_write = px.close_after_write
      /\ px'.replies = px.replies /\ px'.surplus = px.surplus /\ px'.early = b
  BY <1>1 DEF Proxy
<1> QED
  BY <1>2 DEF b

\* Back to the event loop.
LEMMA LoopFields ==
    ASSUME NEW s \in Proxy
    PROVE  LET u == [s EXCEPT !.pc = "loop"] IN
           /\ u \in Proxy /\ u.pc = "loop" /\ u.handler = s.handler /\ u.input = s.input
           /\ u.close_after_write = s.close_after_write /\ u.htp = s.htp /\ u.rdbits = s.rdbits
           /\ u.pool = s.pool /\ u.replies = s.replies /\ u.early = s.early /\ u.surplus = s.surplus /\ u.downstream = s.downstream /\ u.out = s.out
  BY DEF Proxy

\* The connection of a complete response is given up.
Released(s) == IF s.downstream.response_close
               THEN [s EXCEPT !.downstream.conn = "null", !.downstream.tx = 0]
               ELSE detach_downstream(s)

LEMMA ReleasedFields ==
    ASSUME NEW s \in Proxy, s.downstream # None
    PROVE  LET u == Released(s)
               d == s.downstream
               e == u.downstream IN
           /\ u \in Proxy /\ e # None /\ Aside(s, u)
           /\ u.handler = s.handler /\ u.htp = s.htp /\ u.replies = s.replies /\ u.early = s.early /\ u.surplus = s.surplus
           /\ u.pool \in {s.pool, s.pool + 1} /\ e.request_state = d.request_state /\ e.conn = "null"
<1> DEFINE d == s.downstream
           u == Released(s)
<1>1. CASE d.response_close
  <2> DEFINE v == [d EXCEPT !.conn = "null", !.tx = 0]
             w == [s EXCEPT !.downstream = v]
  <2>1. d \in Downstream
    BY NotNone DEF Proxy
  <2>2. u = w
    BY <1>1, <2>1 DEF Released, Proxy
  <2>3. v \in Downstream /\ v.conn = "null" /\ v.request_state = d.request_state
    <3> DEFINE z == 0
    <3>1. z \in Nat
      OBVIOUS
    <3> HIDE DEF z, d
    <3>2. LET x == [d EXCEPT !.conn = "null", !.tx = z] IN
          x \in Downstream /\ x.conn = "null" /\ x.request_state = d.request_state
      BY <2>1, <3>1 DEF Downstream
    <3> QED
      BY <3>2 DEF z
  <2> HIDE DEF v
  <2>4. /\ w \in Proxy /\ w.downstream = v /\ v # None
        /\ w.handler = s.handler /\ w.pc = s.pc /\ w.close_after_write = s.close_after_write
        /\ w.htp = s.htp /\ w.rdbits = s.rdbits /\ w.input = s.input /\ w.pool = s.pool
        /\ w.replies = s.replies /\ w.early = s.early /\ w.surplus = s.surplus
    BY <2>3, DownstreamFields
  <2> HIDE DEF w, u
  <2> QED
    BY <2>2, <2>3, <2>4 DEF Aside, u
<1>2. CASE ~d.response_close
  <2>1. u = detach_downstream(s)
    BY <1>2 DEF Released
  <2> QED
    BY <2>1, DetachFields DEF Aside
<1> QED
  BY <1>1, <1>2

\* What https_downstream_readcb does once the parser has returned.
LEMMA ReadcbCases ==
    ASSUME NEW s0 \in Proxy, NEW s, s = [s0 EXCEPT !.pc = "loop"], s.downstream # None
    PROVE  LET u == https_downstream_readcb(s0)
               d == s.downstream IN
           \/ u = Delete(s)
           \/ u = Delete(Released(s)) /\ d.response_htp = "ok" /\ d.response_state = "MSG_COMPLETE"
           \/ /\ u = next_request(Released(s)) /\ d.request_state = "MSG_COMPLETE"
              /\ d.response_htp = "ok" /\ d.response_state = "MSG_COMPLETE"
           \/ /\ u = Released(s) /\ d.request_state # "MSG_COMPLETE"
              /\ d.response_htp = "ok" /\ d.response_state = "MSG_COMPLETE"
           \/ /\ u \in {s, [s EXCEPT !.downstream.ev_read = FALSE]}
              /\ d.response_htp = "ok" /\ d.response_state # "MSG_COMPLETE"
           \/ /\ u = next_request(error_reply(s)) /\ d.request_state = "MSG_COMPLETE"
              /\ d.response_htp # "ok" /\ d.response_state # "HEADER_COMPLETE"
           \/ /\ u = error_reply(s) /\ d.request_state # "MSG_COMPLETE"
              /\ d.response_htp # "ok" /\ d.response_state # "HEADER_COMPLETE"
  BY DEF https_downstream_readcb, Released, finish_or_next

\* The response parser has returned.
LEMMA ReadcbSane ==
    ASSUME NEW s0, Sane(s0), s0.pc = "response"
    PROVE  LET u == https_downstream_readcb(s0) IN Sane(u) /\ Keeps(s0, u)
<1> DEFINE s == [s0 EXCEPT !.pc = "loop"]
           d == s.downstream
           u == https_downstream_readcb(s0)
<1>1. s0 \in Proxy /\ s0.downstream # None /\ s0.downstream.conn = "attached"
  BY DEF Sane, ReadsAttached
<1>2. /\ s \in Proxy /\ s.pc = "loop" /\ s.handler = s0.handler /\ s.input = s0.input
      /\ s.htp = s0.htp /\ s.pool = s0.pool /\ s.downstream = s0.downstream
  BY <1>1, LoopFields
<1> DEFINE r == Released(s)
<1>3. \/ u = Delete(s) \/ u = Delete(r)
      \/ u = next_request(r) /\ d.request_state = "MSG_COMPLETE"
      \/ u = r \/ u = s \/ u = [s EXCEPT !.downstream.ev_read = FALSE]
      \/ u = next_request(error_reply(s)) /\ d.request_state = "MSG_COMPLETE"
      \/ u = error_reply(s)
  BY <1>1, <1>2, ReadcbCases
<1> HIDE DEF s, u, r
<1>4. Sane(s) /\ Keeps(s0, s)
  BY <1>2 DEF Sane, KeepsFailure, ReadsAttached, ConnectsLate, One, Keeps, Pos
<1>5. Sane(r) /\ Keeps(s, r) /\ Pos(r) = Pos(s) /\ r.pc = "loop"
  <2>1. /\ r \in Proxy /\ r.downstream # None /\ Aside(s, r)
        /\ r.handler = s.handler /\ r.htp = s.htp
        /\ r.pool \in {s.pool, s.pool + 1} /\ r.downstream.request_state = d.request_state
        /\ r.downstream.conn = "null"
    BY <1>1, <1>2, ReleasedFields DEF r
  <2>2. Pos(r) = Pos(s)
    BY <1>1, <1>2, <2>1 DEF Pos
  <2>3. s.pool \in Nat /\ s.pool + 1 <= 1
    BY <1>1, <1>2, <1>4 DEF Sane, One, Proxy
  <2>4. One(r)
    BY <2>1, <2>3 DEF One
  <2> QED
    BY <1>1, <1>2, <1>4, <2>1, <2>2, <2>4 DEF Sane, KeepsFailure, ReadsAttached, ConnectsLate, Keeps, Aside
<1>6. CASE u = Delete(s) \/ u = Delete(r)
  BY <1>6, DeletedSane DEF u
<1>7. CASE u = next_request(r) /\ d.request_state = "MSG_COMPLETE"
  <2>1. Pos(s) = "idle"
    BY <1>7 DEF Pos
  <2>2. Sane(next_request(r)) /\ Keeps(r, next_request(r))
    BY <1>5, <2>1, NextRequestSane
  <2> QED
    BY <1>4, <1>5, <1>7, <2>2, KeepsTwice DEF u
<1>8. CASE u = r
  BY <1>4, <1>5, <1>8, KeepsTwice DEF u
<1>9. CASE u = s
  BY <1>4, <1>9 DEF u
<1>10. CASE u = [s EXCEPT !.downstream.ev_read = FALSE]
  <2>1. Same(s, u)
    BY <1>1, <1>2, <1>10, EvReadSame
  <2> QED
    BY <1>4, <2>1, SameSane, KeepsTwice DEF u
<1> DEFINE f == error_reply(s)
<1>11. Sane(f) /\ Keeps(s, f) /\ Pos(f) = Pos(s) /\ f.pc = "loop"
  BY <1>2, <1>4, ErrorReplySane
<1> HIDE DEF f
<1>12. CASE u = next_request(f) /\ d.request_state = "MSG_COMPLETE"
  <2>1. Pos(s) = "idle"
    BY <1>12 DEF Pos
  <2>2. Sane(next_request(f)) /\ Keeps(f, next_request(f))
    BY <1>11, <2>1, NextRequestSane
  <2> QED
    BY <1>4, <1>11, <1>12, <2>2, KeepsTwice DEF u
<1>13. CASE u = f
  BY <1>4, <1>11, <1>13, KeepsTwice DEF u
<1> QED
  BY <1>3, <1>6, <1>7, <1>8, <1>9, <1>10, <1>12, <1>13 DEF u, f

\* The end of a body that is delimited by EOF.
ByEof(s) == [on_downstream_body_complete(s) EXCEPT !.downstream.response_state = "MSG_COMPLETE"]

LEMMA ByEofFields ==
    ASSUME NEW s \in Proxy, s.downstream # None
    PROVE  LET u == ByEof(s)
               d == s.downstream
               e == u.downstream IN
           /\ u \in Proxy /\ e # None /\ u.pc = s.pc /\ u.rdbits = s.rdbits /\ u.input = s.input
           /\ u.handler = s.handler /\ u.htp = s.htp /\ u.replies = s.replies /\ u.early = s.early /\ u.surplus = s.surplus /\ u.pool = s.pool
           /\ s.close_after_write => u.close_after_write
           /\ e.conn = d.conn /\ e.request_state = d.request_state
<1> DEFINE m == on_downstream_body_complete(s)
           d == s.downstream
           v == [d EXCEPT !.response_state = "MSG_COMPLETE"]
           u == ByEof(s)
<1>1. d \in Downstream
  BY NotNone DEF Proxy
<1>2. m = s \/ m = [s EXCEPT !.close_after_write = TRUE]
  BY DEF on_downstream_body_complete
<1> HIDE DEF m
<1>3. /\ m \in Proxy /\ m.downstream = d /\ m.pc = s.pc /\ m.rdbits = s.rdbits /\ m.input = s.input
      /\ m.handler = s.handler /\ m.htp = s.htp /\ m.replies = s.replies /\ m.early = s.early /\ m.surplus = s.surplus /\ m.pool = s.pool
      /\ s.close_after_write => m.close_after_write
  BY <1>2 DEF Proxy
<1>4. u = [m EXCEPT !.downstream = v]
  BY <1>3 DEF ByEof, m
<1> HIDE DEF d
<1>5. v \in Downstream /\ v.conn = d.conn /\ v.request_state = d.request_state
  BY <1>1 DEF Downstream, MsgStates
<1> HIDE DEF v, u
<1>6. /\ u \in Proxy /\ u.downstream = v /\ v # None
      /\ u.handler = m.handler /\ u.pc = m.pc /\ u.close_after_write = m.close_after_write
      /\ u.htp = m.htp /\ u.rdbits = m.rdbits /\ u.input = m.input /\ u.pool = m.pool
      /\ u.replies = m.replies /\ u.early = m.early /\ u.surplus = m.surplus
  BY <1>3, <1>4, <1>5, DownstreamFields
<1> QED
  BY <1>3, <1>5, <1>6 DEF u, d

\* What https_downstream_eventcb makes of s: it may complete the response, and goes on
\* if the request is complete.
EventOutcome(s, u) ==
    \E m : /\ \/ m = ByEof(s) /\ s.downstream.response_state # "INITIAL"
              \/ m = error_reply(s) /\ s.downstream.response_state = "INITIAL"
              \/ m = s /\ s.downstream.response_state # "INITIAL"
           /\ \/ u = Delete(m)
              \/ u = next_request(m) /\ s.downstream.request_state = "MSG_COMPLETE"
              \/ u = m /\ s.downstream.request_state # "MSG_COMPLETE"

LEMMA EventcbCases ==
    ASSUME NEW s, NEW event
    PROVE  EventOutcome(s, https_downstream_eventcb(s, event))
<1> DEFINE u == https_downstream_eventcb(s, event)
           d == s.downstream
           m == CASE event = "EOF" /\ d.response_state = "HEADER_COMPLETE" -> ByEof(s)
                  [] event = "EOF" /\ d.response_state = "INITIAL"  -> error_reply(s)
                  [] event # "EOF" /\ d.response_state = "INITIAL"  -> error_reply(s)
                  [] OTHER -> s
<1>1. u = IF event = "EOF" /\ d.response_state = "HEADER_COMPLETE"
             /\ m.close_after_write /\ m.out = 0
          THEN Delete(m)
          ELSE IF d.request_state = "MSG_COMPLETE" THEN next_request(m)
               ELSE m
  BY DEF https_downstream_eventcb, ByEof
<1>2. \/ m = ByEof(s) /\ d.response_state # "INITIAL"
      \/ m = error_reply(s) /\ d.response_state = "INITIAL"
      \/ m = s /\ d.response_state # "INITIAL"
  OBVIOUS
<1> HIDE DEF m, u
<1>3. EventOutcome(s, u)
  BY <1>1, <1>2 DEF EventOutcome
<1> QED
  BY <1>3 DEF u

\* EOF, an error or a timeout of the backend connection.
LEMMA EventcbSane ==
    ASSUME NEW s, Sane(s), s.downstream # None, s.pc = "loop", NEW event
    PROVE  LET u == https_downstream_eventcb(s, event) IN Sane(u) /\ Keeps(s, u)
<1> DEFINE d == s.downstream
           u == https_downstream_eventcb(s, event)
<1>0. EventOutcome(s, u)
  BY EventcbCases
<1> HIDE DEF u
<1>3. PICK m : /\ \/ m = ByEof(s) /\ s.downstream.response_state # "INITIAL"
                  \/ m = error_reply(s) /\ s.downstream.response_state = "INITIAL"
                  \/ m = s /\ s.downstream.response_state # "INITIAL"
               /\ \/ u = Delete(m)
                  \/ u = next_request(m) /\ s.downstream.request_state = "MSG_COMPLETE"
                  \/ u = m /\ s.downstream.request_state # "MSG_COMPLETE"
  BY <1>0 DEF EventOutcome
<1>4. s \in Proxy
  BY DEF Sane
<1>5. Sane(m) /\ Keeps(s, m) /\ Pos(m) = Pos(s) /\ m.pc = "loop"
  <2>1. CASE m = ByEof(s)
    <3>1. /\ m \in Proxy /\ m.downstream # None /\ m.pc = s.pc /\ m.input = s.input
          /\ m.handler = s.handler /\ m.htp = s.htp /\ m.pool = s.pool
          /\ m.downstream.conn = d.conn /\ m.downstream.request_state = d.request_state
      BY <1>4, <2>1, ByEofFields
    <3>2. Pos(m) = Pos(s)
      BY <1>4, <3>1 DEF Pos
    <3> QED
      BY <1>4, <3>1, <3>2 DEF Sane, KeepsFailure, ReadsAttached, ConnectsLate, One, Keeps
  <2>2. CASE m = error_reply(s)
    BY <1>4, <2>2, ErrorReplySane
  <2>3. CASE m = s
    BY <1>4, <2>3 DEF Keeps
  <2> QED
    BY <1>3, <2>1, <2>2, <2>3
<1>6. CASE u = Delete(m)
  BY <1>6, DeletedSane DEF u
<1>7. CASE u = next_request(m) /\ d.request_state = "MSG_COMPLETE"
  <2>1. Pos(s) = "idle"
    BY <1>7 DEF Pos
  <2>2. Sane(next_request(m)) /\ Keeps(m, next_request(m))
    BY <1>5, <2>1, NextRequestSane
  <2> QED
    BY <1>5, <1>7, <2>2, KeepsTwice DEF u
<1>8. CASE u = m
  BY <1>5, <1>8 DEF u
<1> QED
  BY <1>3, <1>6, <1>7, <1>8 DEF u
\* The response parser is given a piece.
LEMMA ParseResponseSane ==
    ASSUME NEW s, Sane(s), s.pc = "response", s.downstream.rx # <<>>
    PROVE  LET u == parse_http_response(s) IN Sane(u) /\ Keeps(s, u)
<1> DEFINE u == parse_http_response(s)
<1>1. s \in Proxy /\ s.downstream # None /\ s.downstream.conn = "attached"
  BY DEF Sane, ReadsAttached
<1>2. /\ u \in Proxy /\ u.downstream # None
      /\ u.handler = s.handler /\ u.pc = s.pc /\ u.htp = s.htp /\ u.input = s.input /\ u.pool = s.pool
      /\ u.downstream.request_state = s.downstream.request_state /\ u.downstream.conn = s.downstream.conn
  BY <1>1, ParseResponseFields
<1> HIDE DEF u
<1>3. Sane(u) /\ Keeps(s, u)
  BY <1>1, <1>2 DEF Sane, KeepsFailure, ReadsAttached, ConnectsLate, One, Keeps, Pos
<1> QED
  BY <1>3 DEF u

-----------------------------------------------------------------------------
(* The steps of the specification.                                         *)

\* What the backend adds to what there is to read.
Grown(s, piece, to) ==
    [s EXCEPT !.downstream.rx = Append(@, piece), !.downstream.backend = to,
              !.downstream.pieces = IF piece = "body" THEN @ + 1 ELSE @]

\* What a backend does to its connection.
LEMMA BackendFields ==
    ASSUME NEW s \in Proxy, s.downstream # None, NEW piece \in Pieces, NEW to,
           to \in {"silent", "headed", "garbled", "ended", "closed", "failed"},
           piece = "body" => s.downstream.pieces < MaxBody
    PROVE  LET u == Grown(s, piece, to)
               d == s.downstream
               e == u.downstream IN
           /\ u \in Proxy /\ e # None /\ Aside(s, u) /\ u.handler = s.handler /\ u.htp = s.htp
           /\ u.pool = s.pool /\ u.replies = s.replies /\ u.early = s.early /\ u.surplus = s.surplus
           /\ e.rx = Append(d.rx, piece) /\ e.backend = to /\ e.response_state = d.response_state
           /\ e.response_htp = d.response_htp /\ e.conn = d.conn /\ e.request_state = d.request_state
<1> DEFINE d == s.downstream
           a == Append(d.rx, piece)
           n == IF piece = "body" THEN d.pieces + 1 ELSE d.pieces
           v == [d EXCEPT !.rx = a, !.backend = to, !.pieces = n]
           u == Grown(s, piece, to)
           w == [s EXCEPT !.downstream = v]
<1>1. d \in Downstream
  BY NotNone DEF Proxy
<1>2. a \in Seq(Pieces) /\ n \in 0..MaxBody
  BY <1>1, ShrpxHttpsAssumption DEF Downstream
<1>3. u = w
  BY <1>1 DEF Proxy, Downstream, Grown
<1> HIDE DEF u, a, n, d
<1>4. /\ v \in Downstream /\ v.rx = a /\ v.backend = to /\ v.response_state = d.response_state
      /\ v.response_htp = d.response_htp /\ v.conn = d.conn /\ v.request_state = d.request_state
  BY <1>1, <1>2 DEF Downstream
<1> HIDE DEF v
<1>5. /\ w \in Proxy /\ w.downstream = v /\ v # None
      /\ w.handler = s.handler /\ w.pc = s.pc /\ w.close_after_write = s.close_after_write
      /\ w.htp = s.htp /\ w.rdbits = s.rdbits /\ w.input = s.input /\ w.pool = s.pool
      /\ w.replies = s.replies /\ w.early = s.early /\ w.surplus = s.surplus
  BY <1>4, DownstreamFields
<1> HIDE DEF w
<1> QED
  BY <1>3, <1>4, <1>5 DEF u, d, a, Aside

\* A backend that closes or resets.
LEMMA StopFields ==
    ASSUME NEW s \in Proxy, s.downstream # None, NEW how \in {"closed", "failed"}
    PROVE  LET u == [s EXCEPT !.downstream.backend = how]
               d == s.downstream
               e == u.downstream IN
           /\ u \in Proxy /\ e # None /\ Aside(s, u) /\ u.handler = s.handler /\ u.htp = s.htp
           /\ u.pool = s.pool /\ u.replies = s.replies /\ u.early = s.early /\ u.surplus = s.surplus
           /\ e.rx = d.rx /\ e.backend = how /\ e.response_state = d.response_state
           /\ e.response_htp = d.response_htp /\ e.conn = d.conn /\ e.request_state = d.request_state
<1> DEFINE d == s.downstream
           v == [d EXCEPT !.backend = how]
           w == [s EXCEPT !.downstream = v]
<1>1. d \in Downstream
  BY NotNone DEF Proxy
<1>3. [s EXCEPT !.downstream.backend = how] = w
  BY <1>1 DEF Proxy, Downstream
<1> HIDE DEF d
<1>4. /\ v \in Downstream /\ v.rx = d.rx /\ v.backend = how /\ v.response_state = d.response_state
      /\ v.response_htp = d.response_htp /\ v.conn = d.conn /\ v.request_state = d.request_state
  BY <1>1 DEF Downstream
<1> HIDE DEF v
<1>5. /\ w \in Proxy /\ w.downstream = v /\ v # None
      /\ w.handler = s.handler /\ w.pc = s.pc /\ w.close_after_write = s.close_after_write
      /\ w.htp = s.htp /\ w.rdbits = s.rdbits /\ w.input = s.input /\ w.pool = s.pool
      /\ w.replies = s.replies /\ w.early = s.early /\ w.surplus = s.surplus
  BY <1>4, DownstreamFields
<1> HIDE DEF w
<1> QED
  BY <1>3, <1>4, <1>5 DEF d, Aside

\* The backend has taken everything.
LEMMA WrittenSame ==
    ASSUME NEW s \in Proxy, s.downstream # None
    PROVE  Same(s, [s EXCEPT !.downstream.tx = 0]) /\ Marks(s, [s EXCEPT !.downstream.tx = 0])
<1> DEFINE d == s.downstream
           z == 0
           v == [d EXCEPT !.tx = z]
           u == [s EXCEPT !.downstream = v]
<1>1. d \in Downstream /\ z \in Nat
  BY NotNone DEF Proxy
<1>3. u = [s EXCEPT !.downstream.tx = 0]
  OBVIOUS
<1> HIDE DEF d, z
<1>2. v \in Downstream /\ Alike(d, v) /\ v.conn = d.conn /\ v.request_state = d.request_state
  BY <1>1 DEF Downstream, Alike
<1> HIDE DEF v
<1>4. /\ u \in Proxy /\ u.downstream = v /\ v # None
      /\ u.handler = s.handler /\ u.pc = s.pc /\ u.close_after_write = s.close_after_write
      /\ u.htp = s.htp /\ u.rdbits = s.rdbits /\ u.input = s.input /\ u.pool = s.pool
      /\ u.replies = s.replies /\ u.early = s.early /\ u.surplus = s.surplus
  BY <1>2, DownstreamFields
<1> HIDE DEF u
<1>5. Same(s, u) /\ Marks(s, u)
  BY <1>2, <1>4 DEF Same, Marks, Aside, d
<1> QED
  BY <1>3, <1>5

\* The client has been sent everything.
LEMMA SentSame ==
    ASSUME NEW s \in Proxy
    PROVE  LET u == [s EXCEPT !.out = 0,
                             !.downstream = IF @ = None THEN None ELSE [@ EXCEPT !.ev_read = TRUE]]
           IN  Same(s, u) /\ Marks(s, u)
<1> DEFINE d == s.downstream
           z == 0
           v == IF d = None THEN None ELSE [d EXCEPT !.ev_read = TRUE]
           u == [s EXCEPT !.out = z, !.downstream = v]
<1>1. d \in {None} \cup Downstream /\ z \in Nat
  BY DEF Proxy
<1>2. /\ v \in {None} \cup Downstream /\ (v = None <=> d = None)
      /\ d # None => Alike(d, v) /\ v.conn = d.conn /\ v.request_state = d.request_state
  <2> HIDE DEF d
  <2>1. ASSUME d \in Downstream
        PROVE  LET x == [d EXCEPT !.ev_read = TRUE] IN
               x \in Downstream /\ Alike(d, x) /\ x.conn = d.conn /\ x.request_state = d.request_state
    BY <2>1 DEF Downstream, Alike
  <2> QED
    BY <1>1, <2>1, NotNone
<1>3. u = [s EXCEPT !.out = 0, !.downstream = IF @ = None THEN None ELSE [@ EXCEPT !.ev_read = TRUE]]
  OBVIOUS
<1> HIDE DEF v, z
<1>4. /\ u \in Proxy /\ u.downstream = v
      /\ u.handler = s.handler /\ u.pc = s.pc /\ u.close_after_write = s.close_after_write
      /\ u.htp = s.htp /\ u.rdbits = s.rdbits /\ u.input = s.input /\ u.pool = s.pool
      /\ u.replies = s.replies /\ u.early = s.early /\ u.surplus = s.surplus
  BY <1>1, <1>2 DEF Proxy
<1> HIDE DEF u
<1>5. Same(s, u) /\ Marks(s, u)
  BY <1>2, <1>4 DEF Same, Marks, Aside
<1> QED
  BY <1>3, <1>5

\* A pooled connection is closed.
LEMMA IdleFields ==
    ASSUME NEW s \in Proxy, s.pool > 0
    PROVE  LET u == [s EXCEPT !.pool = @ - 1] IN
           /\ u \in Proxy /\ Aside(s, u) /\ u.handler = s.handler /\ u.htp = s.htp
           /\ u.replies = s.replies /\ u.early = s.early /\ u.surplus = s.surplus /\ u.downstream = s.downstream /\ u.pool = s.pool - 1
<1> DEFINE n == s.pool - 1
<1>1. n \in Nat
  BY DEF Proxy
<1>2. [s EXCEPT !.pool = @ - 1] = [s EXCEPT !.pool = n]
  OBVIOUS
<1> HIDE DEF n
<1>3. LET u == [s EXCEPT !.pool = n] IN
      /\ u \in Proxy /\ Aside(s, u) /\ u.handler = s.handler /\ u.htp = s.htp
      /\ u.replies = s.replies /\ u.early = s.early /\ u.surplus = s.surplus /\ u.downstream = s.downstream /\ u.pool = n
  BY <1>1 DEF Proxy, Aside
<1> QED
  BY <1>2, <1>3 DEF n

\* The client's bytes are added to the input buffer.
LEMMA ReceivedFields ==
    ASSUME NEW s \in Proxy, NEW w \in Seq(Tokens), w # <<>>
    PROVE  LET u == on_read([s EXCEPT !.input = @ \o w]) IN
           /\ u \in Proxy /\ u.pc = "request" /\ u.input = s.input \o w /\ u.input # <<>>
           /\ u.handler = s.handler /\ u.close_after_write = s.close_after_write
           /\ u.htp = s.htp /\ u.rdbits = s.rdbits /\ u.downstream = s.downstream /\ u.pool = s.pool
           /\ u.replies = s.replies /\ u.early = s.early /\ u.surplus = s.surplus
<1> DEFINE t == s.input \o w
           m == [s EXCEPT !.input = t]
<1>1. s.input \in Seq(Tokens)
  BY DEF Proxy
<1>2. t \in Seq(Tokens) /\ Len(t) = Len(s.input) + Len(w) /\ Len(w) # 0 /\ Len(s.input) \in Nat /\ Len(w) \in Nat
  BY <1>1, EmptyStream
<1>3. t # <<>>
  <2> HIDE DEF t
  <2> QED
    BY <1>2, EmptyStream
<1>4. m = [s EXCEPT !.input = @ \o w]
  OBVIOUS
<1> HIDE DEF t
<1>5. LET u == on_read(m) IN
           /\ u \in Proxy /\ u.pc = "request" /\ u.input = t
           /\ u.handler = s.handler /\ u.close_after_write = s.close_after_write
           /\ u.htp = s.htp /\ u.rdbits = s.rdbits /\ u.downstream = s.downstream /\ u.pool = s.pool
           /\ u.replies = s.replies /\ u.early = s.early /\ u.surplus = s.surplus
  BY <1>2, <1>3 DEF Proxy, on_read
<1> QED
  BY <1>3, <1>4, <1>5 DEF t

\* The invariant holds of a new connection.
LEMMA InitInd == Init => IndInv
<1> SUFFICES ASSUME Init PROVE IndInv
  OBVIOUS
<1>1. px = Fresh /\ wire = <<>> /\ client = [phase |-> "idle", sent |-> 0, pieces |-> 0]
  BY DEF Init
<1>2. /\ px \in Proxy /\ px.downstream = None /\ px.pc = "loop" /\ px.htp = "ok"
      /\ px.pool = 0 /\ px.handler = "open" /\ px.input = <<>>
  BY <1>1, FreshFields
<1>3. TypeOK
  BY <1>1, <1>2, ShrpxHttpsAssumption DEF TypeOK
<1>4. Sane(px)
  BY <1>2 DEF Sane, KeepsFailure, ReadsAttached, ConnectsLate, One
<1>5. StreamOK
  <2>1. Pos(px) = "idle" /\ client.phase = "idle" /\ px.input \o wire = <<>>
    BY <1>1, <1>2 DEF Pos
  <2>2. Chained("idle", <<>>, "idle")
    BY DEF Chained
  <2> QED
    BY <2>1, <2>2 DEF StreamOK
<1> QED
  BY <1>3, <1>4, <1>5 DEF IndInv

\* A step of the proxy alone: it is enough that it stays sane and leaves the client's
\* bytes where they are.
LEMMA ProxyStep ==
    ASSUME IndInv, Sane(px'), Keeps(px, px'), UNCHANGED <<wire, client>>
    PROVE  IndInv'
<1>1. TypeOK'
  BY DEF IndInv, TypeOK, Sane
<1>2. StreamOK'
  BY DEF IndInv, StreamOK, Keeps, Open
<1> QED
  BY <1>1, <1>2 DEF IndInv

\* The client sends a piece.
LEMMA ClientStep ==
    ASSUME IndInv, NEW token \in Tokens, Fits(client.phase, token), wire' = Append(wire, token),
           client'.phase = After(token), TypeOK', UNCHANGED px
    PROVE  IndInv'
<1>1. px \in Proxy /\ px.input \in Seq(Tokens) /\ wire \in Seq(Tokens)
  BY DEF IndInv, TypeOK, Proxy
<1>2. StreamOK'
  <2>1. ASSUME px.handler = "open", px.htp # "error"
        PROVE  Chained(Pos(px), px.input \o Append(wire, token), After(token))
    <3>1. Chained(Pos(px), px.input \o wire, client.phase)
      BY <2>1 DEF IndInv, StreamOK, Open
    <3> QED
      BY <1>1, <3>1, ChainSent
  <2> QED
    BY <2>1 DEF StreamOK, Open
<1> QED
  BY <1>2 DEF IndInv

\* What the client sends fits where it is.
LEMMA ClientSends ==
    ASSUME IndInv, ClientSend \/ ClientSendMalformed
    PROVE  IndInv'
<1> DEFINE c == client
           C == [phase : {"idle", "head", "body", "gone"}, sent : 0..MaxRequests, pieces : Nat]
<1>1. px \in Proxy /\ wire \in Seq(Tokens) /\ c \in C /\ UNCHANGED px
  BY DEF IndInv, TypeOK, ClientSend, ClientSendMalformed
<1>2. PICK token \in Tokens : /\ Fits(c.phase, token) /\ wire' = Append(wire, token)
                              /\ client'.phase = After(token) /\ client' \in C
  <2>1. ASSUME c.phase = "idle", c.sent < MaxRequests, wire' = Append(wire, Token("begin")),
               client' = [phase |-> "head", sent |-> c.sent + 1, pieces |-> 0]
        PROVE  \E token \in Tokens : /\ Fits(c.phase, token) /\ wire' = Append(wire, token)
                                     /\ client'.phase = After(token) /\ client' \in C
    <3>1. c.sent + 1 \in 0..MaxRequests
      BY <1>1, <2>1, ShrpxHttpsAssumption
    <3>2. client' \in C /\ client'.phase = "head"
      BY <2>1, <3>1
    <3>3. Fits(c.phase, Token("begin")) /\ After(Token("begin")) = "head" /\ Token("begin") \in Tokens
      BY <2>1, SentTokens DEF Fits, After
    <3> QED
      BY <2>1, <3>2, <3>3
  <2>2. ASSUME c.phase = "head", wire' = Append(wire, Token("more")),
               client' = [c EXCEPT !.pieces = @ + 1]
        PROVE  \E token \in Tokens : /\ Fits(c.phase, token) /\ wire' = Append(wire, token)
                                     /\ client'.phase = After(token) /\ client' \in C
    <3>2. client' \in C /\ client'.phase = "head"
      BY <1>1, <2>2
    <3>3. Fits(c.phase, Token("more")) /\ After(Token("more")) = "head" /\ Token("more") \in Tokens
      BY <2>2, SentTokens DEF Fits, After
    <3> QED
      BY <2>2, <3>2, <3>3
  <2>3. ASSUME c.phase = "head", NEW kind \in RequestKinds, wire' = Append(wire, kind),
               client' = [c EXCEPT !.phase = IF kind.body THEN "body" ELSE "idle", !.pieces = 0]
        PROVE  \E token \in Tokens : /\ Fits(c.phase, token) /\ wire' = Append(wire, token)
                                     /\ client'.phase = After(token) /\ client' \in C
    <3> DEFINE ph == IF kind.body THEN "body" ELSE "idle"
               z == 0
    <3>1. ph \in {"idle", "head", "body", "gone"} /\ z \in Nat
      OBVIOUS
    <3>2. Fits(c.phase, kind) /\ After(kind) = ph /\ kind \in Tokens
      BY <2>3, SentTokens DEF Fits, After
    <3>3. client' = [c EXCEPT !.phase = ph, !.pieces = z]
      BY <2>3
    <3> HIDE DEF ph, z
    <3>4. client' \in C /\ client'.phase = ph
      BY <1>1, <3>1, <3>3
    <3> QED
      BY <2>3, <3>2, <3>4
  <2>4. ASSUME c.phase = "body", wire' = Append(wire, Token("body")),
               client' = [c EXCEPT !.pieces = @ + 1]
        PROVE  \E token \in Tokens : /\ Fits(c.phase, token) /\ wire' = Append(wire, token)
                                     /\ client'.phase = After(token) /\ client' \in C
    <3>2. client' \in C /\ client'.phase = "body"
      BY <1>1, <2>4
    <3>3. Fits(c.phase, Token("body")) /\ After(Token("body")) = "body" /\ Token("body") \in Tokens
      BY <2>4, SentTokens DEF Fits, After
    <3> QED
      BY <2>4, <3>2, <3>3
  <2>5. ASSUME c.phase = "body", wire' = Append(wire, Token("end")),
               client' = [c EXCEPT !.phase = "idle", !.pieces = 0]
        PROVE  \E token \in Tokens : /\ Fits(c.phase, token) /\ wire' = Append(wire, token)
                                     /\ client'.phase = After(token) /\ client' \in C
    <3>2. client' \in C /\ client'.phase = "idle"
      BY <1>1, <2>5
    <3>3. Fits(c.phase, Token("end")) /\ After(Token("end")) = "idle" /\ Token("end") \in Tokens
      BY <2>5, SentTokens DEF Fits, After
    <3> QED
      BY <2>5, <3>2, <3>3
  <2>6. ASSUME c.phase # "gone", wire' = Append(wire, Token("bad")),
               client' = [c EXCEPT !.phase = "gone"]
        PROVE  \E token \in Tokens : /\ Fits(c.phase, token) /\ wire' = Append(wire, token)
                                     /\ client'.phase = After(token) /\ client' \in C
    <3>2. client' \in C /\ client'.phase = "gone"
      BY <1>1, <2>6
    <3>3. Fits(c.phase, Token("bad")) /\ After(Token("bad")) = "gone" /\ Token("bad") \in Tokens
      BY <2>6, SentTokens DEF Fits, After
    <3> QED
      BY <2>6, <3>2, <3>3
  <2>7. CASE ClientSend
    BY <2>1, <2>2, <2>3, <2>4, <2>5, <2>7, Zenon DEF ClientSend
  <2>8. CASE ClientSendMalformed
    BY <2>6, <2>8, Zenon DEF ClientSendMalformed
  <2> QED
    BY <2>7, <2>8
<1>3. TypeOK'
  <2>1. Append(wire, token) \in Seq(Tokens)
    BY <1>1
  <2> QED
    BY <1>1, <1>2, <2>1 DEF TypeOK
<1> QED
  BY <1>1, <1>2, <1>3, ClientStep

\* The answer of a backend: a head first.
Answers(piece, from, to) ==
    \/ piece \in {"head", "headclose"} /\ from = "silent" /\ to = "headed"
    \/ piece = "body" /\ from \in {"headed", "garbled"} /\ to = from
    \/ piece = "end" /\ from = "headed" /\ to = "ended"
    \/ piece = "bad" /\ from \in {"silent", "headed", "ended"} /\ to = "garbled"

\* The pieces a backend sends.
LEMMA BackendPieces ==
    ASSUME BackendAnswer
    PROVE  /\ Attached /\ UNCHANGED <<wire, client>>
           /\ \E piece \in Pieces : \E to \in {"silent", "headed", "garbled", "ended", "closed", "failed"} :
                 /\ Answers(piece, px.downstream.backend, to) /\ px' = Grown(px, piece, to)
                 /\ piece = "body" => px.downstream.pieces < MaxBody
<1> DEFINE B == {"silent", "headed", "garbled", "ended", "closed", "failed"}
           Goal == /\ Attached /\ UNCHANGED <<wire, client>>
                   /\ \E piece \in Pieces : \E to \in B :
                         /\ Answers(piece, px.downstream.backend, to) /\ px' = Grown(px, piece, to)
                         /\ piece = "body" => px.downstream.pieces < MaxBody
<1> SUFFICES Goal
  OBVIOUS
<1>1. ASSUME NEW piece \in Pieces, NEW from, NEW to \in B, BackendSend(piece, from, to),
             Answers(piece, px.downstream.backend, to), piece = "body" => px.downstream.pieces < MaxBody
      PROVE  Goal
  <2>1. Attached /\ px' = Grown(px, piece, to) /\ UNCHANGED <<wire, client>>
    BY <1>1 DEF BackendSend, Grown
  <2> QED
    BY <1>1, <2>1, Zenon
<1>a. /\ "head" \in Pieces /\ "headclose" \in Pieces /\ "body" \in Pieces /\ "end" \in Pieces
      /\ "bad" \in Pieces /\ "headed" \in B /\ "ended" \in B /\ "garbled" \in B
      /\ "head" # "body" /\ "headclose" # "body" /\ "end" # "body" /\ "bad" # "body"
  BY DEF Pieces
<1> HIDE DEF Goal, B
<1>2. CASE BackendSend("head", {"silent"}, "headed")
  <2>1. Answers("head", px.downstream.backend, "headed")
    BY <1>2 DEF BackendSend, Answers
  <2> QED
    BY <1>1, <1>a, <1>2, <2>1, Zenon
<1>3. CASE BackendSend("headclose", {"silent"}, "headed")
  <2>1. Answers("headclose", px.downstream.backend, "headed")
    BY <1>3 DEF BackendSend, Answers
  <2> QED
    BY <1>1, <1>a, <1>3, <2>1, Zenon
<1>4. CASE /\ Attached /\ px.downstream.pieces < MaxBody
           /\ BackendSend("body", {"headed", "garbled"}, px.downstream.backend)
  <2>1. px.downstream.backend \in B /\ Answers("body", px.downstream.backend, px.downstream.backend)
    BY <1>4 DEF BackendSend, Answers, B
  <2> QED
    BY <1>1, <1>a, <1>4, <2>1, Zenon
<1>5. CASE BackendSend("end", {"headed"}, "ended")
  <2>1. Answers("end", px.downstream.backend, "ended")
    BY <1>5 DEF BackendSend, Answers
  <2> QED
    BY <1>1, <1>a, <1>5, <2>1, Zenon
<1>6. CASE BackendSend("bad", {"silent", "headed", "ended"}, "garbled")
  <2>1. Answers("bad", px.downstream.backend, "garbled")
    BY <1>6 DEF BackendSend, Answers
  <2> QED
    BY <1>1, <1>a, <1>6, <2>1, Zenon
<1> QED
  BY <1>2, <1>3, <1>4, <1>5, <1>6 DEF BackendAnswer

\* Every step keeps the invariant, whatever the backend does.
LEMMA NextInd == IndInv /\ [Next]_vars => IndInv'
<1> SUFFICES ASSUME IndInv, [Next]_vars PROVE IndInv'
  OBVIOUS
<1>0. Sane(px) /\ px \in Proxy /\ px.input \in Seq(Tokens) /\ wire \in Seq(Tokens)
  BY DEF IndInv, TypeOK, Proxy
<1>1. CASE ClientSend \/ ClientSendMalformed
  BY <1>1, ClientSends
<1>2. CASE upstream_readcb
  <2>1. wire # <<>> /\ wire' = <<>> /\ client' = client /\ px' = on_read([px EXCEPT !.input = @ \o wire])
    BY <1>2 DEF upstream_readcb
  <2>2. /\ px' \in Proxy /\ px'.pc = "request" /\ px'.input = px.input \o wire /\ px'.input # <<>>
        /\ px'.handler = px.handler /\ px'.htp = px.htp /\ px'.downstream = px.downstream
        /\ px'.pool = px.pool
    BY <1>0, <2>1, ReceivedFields
  <2>3. Sane(px') /\ Pos(px') = Pos(px)
    BY <1>0, <2>2 DEF Sane, KeepsFailure, ReadsAttached, ConnectsLate, One, Pos
  <2>4. px'.input \o wire' = px.input \o wire
    <3>1. px'.input \in Seq(Tokens)
      BY <2>2 DEF Proxy
    <3>2. px'.input \o <<>> = px'.input
      BY <3>1
    <3> QED
      BY <2>1, <2>2, <3>2
  <2>5. StreamOK'
    BY <2>1, <2>2, <2>3, <2>4 DEF IndInv, StreamOK, Open
  <2>6. TypeOK'
    BY <2>1, <2>2 DEF IndInv, TypeOK
  <2> QED
    BY <2>3, <2>5, <2>6 DEF IndInv
<1>3. CASE upstream_writecb
  <2>1. CASE px.close_after_write
    BY <1>3, <2>1, DeletedSane, ProxyStep DEF upstream_writecb
  <2>2. CASE ~px.close_after_write
    <3>1. Same(px, px')
      BY <1>0, <1>3, <2>2, SentSame DEF upstream_writecb
    <3> QED
      BY <1>0, <1>3, <3>1, SameSane, ProxyStep DEF upstream_writecb
  <2> QED
    BY <2>1, <2>2
<1>4. CASE upstream_eventcb
  BY <1>4, DeletedSane, ProxyStep DEF upstream_eventcb
<1>5. CASE downstream_read
  <2>1. UNCHANGED <<wire, client>> /\ px.downstream # None /\ px.downstream.conn = "attached"
    BY <1>5 DEF downstream_read, Attached
  <2>2. /\ px' \in Proxy /\ px'.pc = "response" /\ px'.input = px.input /\ px'.handler = px.handler
        /\ px'.htp = px.htp /\ px'.downstream = px.downstream /\ px'.pool = px.pool
    BY <1>0, <1>5, ReadFields
  <2>3. Sane(px') /\ Keeps(px, px')
    BY <1>0, <2>1, <2>2 DEF Sane, KeepsFailure, ReadsAttached, ConnectsLate, One, Pos, Keeps
  <2> QED
    BY <2>1, <2>3, ProxyStep
<1>6. CASE downstream_event
  <2>1. PICK s, event : s = [WithEvent(px) EXCEPT !.downstream.ev_read = FALSE] /\ px' = https_downstream_eventcb(s, event)
    BY <1>6 DEF downstream_event
  <2>2. px.downstream # None /\ px.pc = "loop" /\ UNCHANGED <<wire, client>>
    BY <1>6 DEF downstream_event, Attached, Waiting
  <2>3. Same(px, s)
    BY <1>0, <2>1, <2>2, EventFields
  <2>4. Sane(s) /\ Keeps(px, s) /\ s.downstream # None /\ s.pc = "loop"
    BY <1>0, <2>2, <2>3, SameSane DEF Same, Aside
  <2>5. Sane(px') /\ Keeps(s, px')
    BY <2>1, <2>4, EventcbSane
  <2> QED
    BY <2>2, <2>4, <2>5, KeepsTwice, ProxyStep
<1>7. CASE downstream_write
  <2>1. px.downstream # None /\ px.pc = "loop" /\ UNCHANGED <<wire, client>>
    BY <1>7 DEF downstream_write, Attached, Waiting
  <2>2. PICK s, event : \/ /\ s = [WithEvent(px) EXCEPT !.downstream.ev_write = FALSE]
                           /\ px' = https_downstream_eventcb(s, event)
                        \/ /\ s = [px EXCEPT !.downstream.tx = 0]
                           /\ px' = resume_read(s, "NO_BUFFER")
    BY <1>7 DEF downstream_write
  <2>3. Same(px, s)
    BY <1>0, <2>1, <2>2, WrittenSame, EventFields
  <2>4. Sane(s) /\ Keeps(px, s) /\ s.downstream # None /\ s.pc = "loop"
    BY <1>0, <2>1, <2>3, SameSane DEF Same, Aside
  <2>5. Sane(px') /\ Keeps(s, px')
    BY <2>2, <2>4, EventcbSane, ResumeSane
  <2> QED
    BY <2>1, <2>4, <2>5, KeepsTwice, ProxyStep
<1>8. CASE ParseRequest
  <2>1. px.handler = "open" /\ px.pc = "request" /\ UNCHANGED <<wire, client>>
    BY <1>8 DEF ParseRequest, Open
  <2>2. CASE px.htp = "ok" /\ px.input # <<>>
    <3>1. PICK ok \in BOOLEAN : px' = Execute(px, ok)
      BY <1>8, <2>2 DEF ParseRequest
    <3>2. Chained(Pos(px), px.input \o wire, client.phase)
      BY <2>1, <2>2 DEF IndInv, StreamOK, Open
    <3>3. Sane(px') /\ (px'.handler = "open" /\ px'.htp # "error" => Chained(Pos(px'), px'.input \o wire, client.phase))
      BY <1>0, <2>1, <2>2, <3>1, <3>2, ExecuteKeeps
    <3>4. StreamOK' /\ TypeOK'
      BY <2>1, <3>3 DEF IndInv, StreamOK, TypeOK, Open, Sane
    <3> QED
      BY <3>3, <3>4 DEF IndInv
  <2>3. CASE ~(px.htp = "ok" /\ px.input # <<>>)
    <3>1. px' = on_read_executed(px)
      BY <1>8, <2>3 DEF ParseRequest
    <3> QED
      BY <1>0, <2>1, <3>1, ExecutedSane, ProxyStep
  <2> QED
    BY <2>2, <2>3
<1>9. CASE ParseResponse
  <2>1. px.pc = "response" /\ UNCHANGED <<wire, client>>
    BY <1>9 DEF ParseResponse
  <2>2. CASE px.downstream.rx # <<>>
    BY <1>0, <1>9, <2>1, <2>2, ParseResponseSane, ProxyStep DEF ParseResponse
  <2>3. CASE px.downstream.rx = <<>>
    BY <1>0, <1>9, <2>1, <2>3, ReadcbSane, ProxyStep DEF ParseResponse
  <2> QED
    BY <2>2, <2>3
<1>10. CASE BackendAnswer
  <2>1. PICK piece \in Pieces : \E to \in {"silent", "headed", "garbled", "ended", "closed", "failed"} :
          px' = Grown(px, piece, to) /\ (piece = "body" => px.downstream.pieces < MaxBody)
    BY <1>10, BackendPieces
  <2>2. px.downstream # None /\ UNCHANGED <<wire, client>>
    BY <1>10, BackendPieces DEF Attached
  <2>3. /\ px' \in Proxy /\ px'.downstream # None /\ Aside(px, px') /\ px'.handler = px.handler
        /\ px'.htp = px.htp /\ px'.pool = px.pool /\ px'.downstream.conn = px.downstream.conn
        /\ px'.downstream.request_state = px.downstream.request_state
    BY <1>0, <2>1, <2>2, BackendFields
  <2>4. Sane(px') /\ Keeps(px, px')
    BY <1>0, <2>2, <2>3 DEF Sane, KeepsFailure, ReadsAttached, ConnectsLate, One, Pos, Keeps, Aside
  <2> QED
    BY <2>2, <2>4, ProxyStep
<1>11. CASE BackendStop
  <2>1. PICK how \in {"closed", "failed"} : px' = [px EXCEPT !.downstream.backend = how]
    BY <1>11 DEF BackendStop
  <2>2. px.downstream # None /\ UNCHANGED <<wire, client>>
    BY <1>11 DEF BackendStop, Attached
  <2>3. /\ px' \in Proxy /\ px'.downstream # None /\ Aside(px, px') /\ px'.handler = px.handler
        /\ px'.htp = px.htp /\ px'.pool = px.pool /\ px'.downstream.conn = px.downstream.conn
        /\ px'.downstream.request_state = px.downstream.request_state
    BY <1>0, <2>1, <2>2, StopFields
  <2>4. Sane(px') /\ Keeps(px, px')
    BY <1>0, <2>2, <2>3 DEF Sane, KeepsFailure, ReadsAttached, ConnectsLate, One, Pos, Keeps, Aside
  <2> QED
    BY <2>2, <2>4, ProxyStep
<1>12. CASE idle_eventcb
  <2>1. px.pool > 0 /\ px' = [px EXCEPT !.pool = @ - 1] /\ UNCHANGED <<wire, client>>
    BY <1>12 DEF idle_eventcb
  <2>2. /\ px' \in Proxy /\ Aside(px, px') /\ px'.handler = px.handler /\ px'.htp = px.htp
        /\ px'.downstream = px.downstream /\ px'.pool = px.pool - 1 /\ px.pool \in Nat
    BY <1>0, <2>1, IdleFields DEF Proxy
  <2>3. Sane(px') /\ Keeps(px, px')
    BY <1>0, <2>2 DEF Sane, KeepsFailure, ReadsAttached, ConnectsLate, One, Pos, Keeps, Aside
  <2> QED
    BY <2>1, <2>3, ProxyStep
<1>13. CASE UNCHANGED vars
  BY <1>13 DEF vars, IndInv, TypeOK, StreamOK, Open
<1> QED
  BY <1>1, <1>2, <1>3, <1>4, <1>5, <1>6, <1>7, <1>8, <1>9, <1>10, <1>11, <1>12, <1>13
     DEF Next, DownstreamStep, ParserStep

-----------------------------------------------------------------------------
(* Theorems that need nothing of the backend.                               *)

\* The inductive invariant holds for any number of requests and pieces, any thresholds
\* and any backend.
THEOREM Invariance == Spec => []IndInv
<1>1. Init => IndInv
  BY InitInd
<1>2. IndInv /\ [Next]_vars => IndInv'
  BY NextInd
<1> QED
  BY <1>1, <1>2, PTL DEF Spec

\* The proxy's state has its type (ClientHandler, HttpsUpstream, Downstream).
THEOREM ProxyTypes == Spec => []TypeOK
<1>1. IndInv => TypeOK
  BY DEF IndInv
<1> QED
  BY <1>1, Invariance, PTL

\* A client never has two backend connections: htp_hdrs_completecb takes the pooled one,
\* and https_downstream_readcb pools the one it detaches.
THEOREM OneConnection == Spec => []OneBackendConnection
<1>1. IndInv => OneBackendConnection
  BY DEF IndInv, Sane, One, OneBackendConnection
<1> QED
  BY <1>1, Invariance, PTL

-----------------------------------------------------------------------------
(* What holds of a request whose connection has no event before its end.     *)

\* What is left to read does not depend on the progress of the request.
LEMMA RemainingAlike ==
    ASSUME NEW d, NEW e, NEW r, NEW pc, NEW to, Remaining(d, r, pc), Alike(d, e),
           pc # "response" \/ to = pc
    PROVE  Remaining(e, r, to)
  BY DEF Remaining, Alike

\* ~ClientHandler.
LEMMA DeletedOrderly == ASSUME NEW s PROVE Orderly(Delete(s)) /\ Delete(s).handler = "deleted"
<1> DEFINE u == Delete(s)
<1>1. /\ u.handler = "deleted" /\ u.downstream = None /\ u.pc = "loop"
      /\ u.htp = "ok" /\ u.rdbits = {} /\ u.replies = 0
  BY DeleteFields
<1> HIDE DEF u
<1>2. Orderly(u)
  BY <1>1 DEF Orderly, PausedAtEnd, BlockedInside, UnreadBefore, AnswerOnce, AtMostOne
<1> QED
  BY <1>1, <1>2 DEF u

\* A step that changes nothing the invariant is about.
LEMMA SameOrderly ==
    ASSUME NEW s, NEW u, Orderly(s), Same(s, u), u.surplus = s.surplus
    PROVE  Orderly(u)
<1>1. AnswerOnce(u)
  <2>1. ASSUME ~u.close_after_write, ~u.surplus, u.downstream # None
        PROVE  Remaining(u.downstream, u.replies, u.pc)
    <3>1. Remaining(s.downstream, s.replies, s.pc)
      BY <2>1 DEF Orderly, AnswerOnce, Same, Aside
    <3> QED
      BY <2>1, <3>1, RemainingAlike DEF Same, Aside
  <2> QED
    BY <2>1 DEF AnswerOnce
<1>2. PausedAtEnd(u) /\ BlockedInside(u)
  BY DEF Orderly, Same, Aside, PausedAtEnd, BlockedInside
<1>3. UnreadBefore(u) /\ AtMostOne(u)
  BY DEF Orderly, Same, Aside, Alike, UnreadBefore, AtMostOne
<1> QED
  BY <1>1, <1>2, <1>3 DEF Orderly, Same

\* A request ends with its answer, or with the connection.
Concludes(s, u) ==
    s.downstream # None /\ u.downstream = None /\ u.handler = "open" /\ ~u.close_after_write
    /\ ~u.surplus => u.replies = 1

\* One head has been written, if the connection is to be kept.
Answered(s) == ~s.close_after_write /\ ~s.surplus => s.replies = 1

\* Once a request is answered the next one is parsed.
LEMMA NextRequestOrderly ==
    ASSUME NEW s \in Proxy, s.handler # "crashed", s.htp = "paused", "NO_BUFFER" \notin s.rdbits,
           s.pc = "loop", Answered(s), NEW t
    PROVE  Orderly(next_request(s)) /\ Concludes(t, next_request(s))
<1> DEFINE u == next_request(s)
<1>1. /\ u \in Proxy /\ u.downstream = None
      /\ u.handler = s.handler /\ u.close_after_write = s.close_after_write
      /\ u.replies = s.replies /\ u.early = s.early /\ u.surplus = s.surplus /\ u.rdbits = s.rdbits \ {"MSG_BLOCK"}
      /\ u.rdbits = {} => u.htp = "ok"
  BY NextRequestFields
<1>2. u.rdbits = {}
  <2>1. s.rdbits \subseteq {"MSG_BLOCK", "NO_BUFFER"}
    BY DEF Proxy
  <2> QED
    BY <1>1, <2>1
<1> HIDE DEF u
<1>3. Orderly(u)
  BY <1>1, <1>2 DEF Orderly, PausedAtEnd, BlockedInside, UnreadBefore, AnswerOnce, AtMostOne, Answered
<1>4. Concludes(t, u)
  BY <1>1 DEF Concludes, Answered
<1> QED
  BY <1>3, <1>4 DEF u

\* An answer of the proxy's own is the first one.
LEMMA ErrorReplyOnce ==
    ASSUME NEW s \in Proxy, ~s.close_after_write /\ ~s.surplus => s.replies = 0
    PROVE  Answered(error_reply(s))
<1>1. LET u == error_reply(s) IN
      /\ u.close_after_write = s.close_after_write /\ u.surplus = s.surplus
      /\ s.replies = 0 => u.replies = 1
  BY ErrorReplyFields
<1> QED
  BY <1>1 DEF Answered

\* EOF, an error or a timeout of the connection of a complete request.
LEMMA EventcbOrderly ==
    ASSUME NEW s, Sane(s), Orderly(s), s.downstream # None, s.pc = "loop",
           s.downstream.request_state = "MSG_COMPLETE", NEW event
    PROVE  LET u == https_downstream_eventcb(s, event) IN Orderly(u) /\ Concludes(s, u)
<1> DEFINE u == https_downstream_eventcb(s, event)
<1>0. EventOutcome(s, u)
  BY EventcbCases
<1> HIDE DEF u
<1>3. PICK m : /\ \/ m = ByEof(s) /\ s.downstream.response_state # "INITIAL"
                  \/ m = error_reply(s) /\ s.downstream.response_state = "INITIAL"
                  \/ m = s /\ s.downstream.response_state # "INITIAL"
               /\ \/ u = Delete(m)
                  \/ u = next_request(m) /\ s.downstream.request_state = "MSG_COMPLETE"
                  \/ u = m /\ s.downstream.request_state # "MSG_COMPLETE"
  BY <1>0 DEF EventOutcome
<1>4. s \in Proxy
  BY DEF Sane
<1>5. s.handler # "crashed" /\ s.htp = "paused" /\ "NO_BUFFER" \notin s.rdbits
  BY <1>4 DEF Orderly, PausedAtEnd, BlockedInside
<1>6. /\ m \in Proxy /\ m.handler = s.handler /\ m.htp = s.htp /\ m.rdbits = s.rdbits /\ m.pc = s.pc
      /\ Answered(m)
  <2>0. s.downstream.response_state # "INITIAL" => Answered(s)
    BY <1>4 DEF Orderly, AnswerOnce, Remaining, Answered
  <2>1. CASE m = ByEof(s) /\ s.downstream.response_state # "INITIAL"
    <3>1. /\ m \in Proxy /\ m.pc = s.pc /\ m.rdbits = s.rdbits
          /\ m.handler = s.handler /\ m.htp = s.htp /\ m.replies = s.replies /\ m.early = s.early /\ m.surplus = s.surplus
          /\ s.close_after_write => m.close_after_write
      BY <1>4, <2>1, ByEofFields
    <3> QED
      BY <2>0, <2>1, <3>1 DEF Answered
  <2>2. CASE m = error_reply(s) /\ s.downstream.response_state = "INITIAL"
    <3>1. ~s.close_after_write /\ ~s.surplus => s.replies = 0
      BY <1>4, <2>2 DEF Orderly, AnswerOnce, Remaining
    <3>2. Answered(m)
      BY <1>4, <2>2, <3>1, ErrorReplyOnce
    <3> QED
      BY <1>4, <2>2, <3>2, ErrorReplyFields
  <2>3. CASE m = s /\ s.downstream.response_state # "INITIAL"
    BY <1>4, <2>0, <2>3
  <2> QED
    BY <1>3, <2>1, <2>2, <2>3
<1>7. Orderly(u) /\ Concludes(s, u)
  <2>1. CASE u = Delete(m)
    BY <2>1, DeletedOrderly DEF Concludes
  <2>2. CASE u = next_request(m)
    BY <1>4, <1>5, <1>6, <2>2, NextRequestOrderly
  <2> QED
    BY <1>3, <1>4, <2>1, <2>2
<1> QED
  BY <1>7 DEF u

\* The response parser has returned.
LEMMA ReadcbOrderly ==
    ASSUME NEW s0, Sane(s0), Orderly(s0), s0.pc = "response", s0.downstream.rx = <<>>
    PROVE  LET u == https_downstream_readcb(s0) IN Orderly(u) /\ Concludes(s0, u)
<1> DEFINE s == [s0 EXCEPT !.pc = "loop"]
           d == s.downstream
           r == Released(s)
           u == https_downstream_readcb(s0)
<1>1. s0 \in Proxy /\ s0.downstream # None
  BY DEF Sane, ReadsAttached
<1>2. /\ s \in Proxy /\ s.pc = "loop" /\ s.handler = s0.handler /\ s.htp = s0.htp
      /\ s.close_after_write = s0.close_after_write /\ s.rdbits = s0.rdbits
      /\ s.replies = s0.replies /\ s.early = s0.early /\ s.surplus = s0.surplus /\ s.downstream = s0.downstream
  BY <1>1, LoopFields
<1>3. \/ u = Delete(s) \/ u = Delete(r)
      \/ u = next_request(r) /\ d.response_state = "MSG_COMPLETE"
      \/ u = r /\ d.request_state # "MSG_COMPLETE"
      \/ u \in {s, [s EXCEPT !.downstream.ev_read = FALSE]} /\ d.response_state # "MSG_COMPLETE"
      \/ u = next_request(error_reply(s)) /\ d.response_htp # "ok" /\ d.response_state # "HEADER_COMPLETE"
      \/ u = error_reply(s) /\ d.request_state # "MSG_COMPLETE"
  BY <1>1, <1>2, ReadcbCases
<1> HIDE DEF s, u, r
<1>4. /\ d.request_state = "MSG_COMPLETE" /\ d # None /\ s.handler # "crashed" /\ s.htp = "paused"
      /\ d.conn = "attached" /\ "MSG_BLOCK" \in s.rdbits /\ "NO_BUFFER" \notin s.rdbits
  BY <1>1, <1>2 DEF Orderly, UnreadBefore, PausedAtEnd, BlockedInside
<1>5. CASE u = Delete(s) \/ u = Delete(r)
  BY <1>5, DeletedOrderly DEF u, Concludes
<1>6. CASE u = next_request(r) /\ d.response_state = "MSG_COMPLETE"
  <2>1. r \in Proxy /\ Aside(s, r) /\ r.handler = s.handler /\ r.htp = s.htp /\ r.replies = s.replies /\ r.early = s.early /\ r.surplus = s.surplus
    BY <1>2, <1>4, ReleasedFields DEF r
  <2>2. Answered(r)
    <3>1. Answered(s)
      BY <1>1, <1>2, <1>6 DEF Orderly, AnswerOnce, Remaining, Answered
    <3> QED
      BY <2>1, <3>1 DEF Answered, Aside
  <2>3. Orderly(next_request(r)) /\ Concludes(s0, next_request(r))
    BY <1>2, <1>4, <2>1, <2>2, NextRequestOrderly DEF Aside
  <2> QED
    BY <1>6, <2>3 DEF u
<1>7. CASE u = next_request(error_reply(s)) /\ d.response_htp # "ok" /\ d.response_state # "HEADER_COMPLETE"
  <2> DEFINE f == error_reply(s)
  <2>1. d.response_state \in MsgStates
    BY <1>2, <1>4, NotNone DEF Proxy, Downstream
  <2>2. ~s.close_after_write /\ ~s.surplus => s.replies = 0
    BY <1>1, <1>2, <1>7, <2>1 DEF Orderly, AnswerOnce, Remaining, MsgStates
  <2>3. /\ f \in Proxy /\ f.handler = s.handler /\ f.htp = s.htp /\ f.rdbits = s.rdbits /\ f.pc = s.pc
        /\ Answered(f)
    BY <1>2, <2>2, ErrorReplyFields, ErrorReplyOnce
  <2> HIDE DEF f
  <2>4. Orderly(next_request(f)) /\ Concludes(s0, next_request(f))
    BY <1>2, <1>4, <2>3, NextRequestOrderly
  <2> QED
    BY <1>7, <2>4 DEF u, f
<1>8. CASE u \in {s, [s EXCEPT !.downstream.ev_read = FALSE]} /\ d.response_state # "MSG_COMPLETE"
  <2>1. PausedAtEnd(s) /\ BlockedInside(s) /\ UnreadBefore(s) /\ AtMostOne(s)
    BY <1>2, <1>4 DEF Orderly, PausedAtEnd, BlockedInside, UnreadBefore, AtMostOne
  <2>2. AnswerOnce(s)
    BY <1>2, <1>8 DEF Orderly, AnswerOnce, Remaining
  <2>3. Orderly(s)
    BY <1>4, <2>1, <2>2 DEF Orderly
  <2>4. CASE u = s
    BY <1>4, <2>3, <2>4 DEF u, Concludes
  <2>5. CASE u = [s EXCEPT !.downstream.ev_read = FALSE]
    <3>1. Same(s, u) /\ Marks(s, u)
      BY <1>2, <1>4, <2>5, EvReadSame
    <3> QED
      BY <1>4, <2>3, <3>1, SameOrderly DEF u, Same, Marks, Concludes
  <2> QED
    BY <1>8, <2>4, <2>5
<1> QED
  BY <1>3, <1>4, <1>5, <1>6, <1>7, <1>8 DEF u

\* The backend has taken what was written: the client is read again, unless its
\* request is complete.
LEMMA WriteOrderly ==
    ASSUME NEW s, Sane(s), Orderly(s), s.pc = "loop"
    PROVE  LET u == resume_read(s, "NO_BUFFER") IN Orderly(u) /\ Concludes(s, u)
<1> DEFINE u == resume_read(s, "NO_BUFFER")
<1>1. s \in Proxy
  BY DEF Sane
<1>2. /\ u \in Proxy /\ u.downstream = s.downstream
      /\ u.handler \in {s.handler, "aborted"} /\ u.close_after_write = s.close_after_write
      /\ u.replies = s.replies /\ u.early = s.early /\ u.surplus = s.surplus
      /\ u.rdbits = s.rdbits \ {"NO_BUFFER"}
      /\ u.rdbits = {} => /\ u.pc \in {"loop", "request"}
                          /\ u.htp = IF s.htp = "paused" THEN "ok" ELSE s.htp
      /\ u.rdbits # {} => u.pc = s.pc /\ u.htp = s.htp
  BY <1>1, ResumeFields
<1> HIDE DEF u
<1>3. s.htp = "paused" => "MSG_BLOCK" \in u.rdbits
  BY <1>2 DEF Orderly, PausedAtEnd
<1>4. u.htp = s.htp /\ u.pc # "response"
  BY <1>2, <1>3
<1>5. PausedAtEnd(u)
  BY <1>2, <1>3, <1>4 DEF Orderly, PausedAtEnd
<1>6. BlockedInside(u)
  BY <1>2 DEF BlockedInside
<1>7. UnreadBefore(u) /\ AtMostOne(u)
  BY <1>2, <1>4 DEF Orderly, UnreadBefore, AtMostOne
<1>8. AnswerOnce(u)
  BY <1>2 DEF Orderly, AnswerOnce, Remaining
<1>9. Orderly(u)
  BY <1>2, <1>5, <1>6, <1>7, <1>8 DEF Orderly
<1>10. Concludes(s, u)
  BY <1>2 DEF Concludes
<1> QED
  BY <1>9, <1>10 DEF u

\* What is left after the first piece.
LEMMA TailPieces ==
    ASSUME NEW q \in Seq(Pieces), q # <<>>
    PROVE  /\ Len(q) \in Nat /\ Len(q) > 0 /\ Head(q) = q[1] /\ Len(Tail(q)) = Len(q) - 1
           /\ \A k \in 1..Len(Tail(q)) : k + 1 \in 1..Len(q) /\ Tail(q)[k] = q[k + 1]
           /\ Len(q) = 1 => Tail(q) = <<>>
<1>1. Len(q) \in Nat /\ Len(q) # 0
  OBVIOUS
<1>2. Head(q) = q[1] /\ Len(Tail(q)) = Len(q) - 1 /\ Tail(q) \in Seq(Pieces)
  BY <1>1
<1>3. \A k \in 1..Len(Tail(q)) : k + 1 \in 1..Len(q) /\ Tail(q)[k] = q[k + 1]
  BY <1>1
<1>4. \A t \in Seq(Pieces) : Len(t) = 0 => t = <<>>
  OBVIOUS
<1> DEFINE t == Tail(q)
<1> HIDE DEF t
<1>5. Len(q) = 1 => t = <<>>
  <2>1. t \in Seq(Pieces) /\ (Len(q) = 1 => Len(t) = 0)
    BY <1>1, <1>2 DEF t
  <2> QED
    BY <1>4, <2>1
<1> QED
  BY <1>1, <1>2, <1>3, <1>5 DEF t

\* The response parser is given a piece: the head is the first.
LEMMA ParseResponseOrderly ==
    ASSUME NEW s, Sane(s), Orderly(s), s.pc = "response", s.downstream.rx # <<>>
    PROVE  LET u == parse_http_response(s) IN Orderly(u) /\ Concludes(s, u)
<1> DEFINE u == parse_http_response(s)
           d == s.downstream
           e == u.downstream
           piece == Head(d.rx)
<1>1. s \in Proxy /\ d # None
  BY DEF Sane, ReadsAttached
<1>2. d.rx \in Seq(Pieces) /\ d.response_htp \in {"ok", "error"}
  BY <1>1, NotNone DEF Proxy, Downstream
<1>3. /\ u \in Proxy /\ e # None
      /\ u.handler = s.handler /\ u.pc = s.pc /\ u.htp = s.htp /\ u.rdbits = s.rdbits
      /\ e.request_state = d.request_state /\ e.conn = d.conn /\ e.backend = d.backend
      /\ d.response_htp = "error" =>
            /\ e.rx = <<>> /\ e.response_state = d.response_state /\ e.response_htp = "error"
            /\ u.close_after_write = s.close_after_write /\ u.replies = s.replies
            /\ u.surplus = s.surplus
      /\ d.response_htp = "ok" =>
            /\ u.surplus = (s.surplus \/ d.response_state = "MSG_COMPLETE")
            /\ e.rx = Tail(d.rx) /\ piece \in Pieces
            /\ piece \in {"head", "headclose"} =>
                  /\ e.response_state = "HEADER_COMPLETE" /\ e.response_htp = "ok"
                  /\ u.close_after_write = s.close_after_write
                  /\ s.replies = 0 => u.replies = 1
            /\ piece = "body" =>
                  /\ e.response_state = d.response_state /\ e.response_htp = "ok"
                  /\ u.close_after_write = s.close_after_write /\ u.replies = s.replies
            /\ piece = "end" =>
                  /\ e.response_state = "MSG_COMPLETE" /\ e.response_htp = "ok"
                  /\ s.close_after_write => u.close_after_write
                  /\ u.replies = s.replies
            /\ piece = "bad" =>
                  /\ e.response_state = d.response_state /\ e.response_htp = "error"
                  /\ u.close_after_write = s.close_after_write /\ u.replies = s.replies
  BY <1>1, ParseResponseFields
<1>4. d.request_state = "MSG_COMPLETE"
  BY <1>1 DEF Orderly, UnreadBefore
<1>5. /\ Len(d.rx) \in Nat /\ Len(d.rx) > 0 /\ piece = d.rx[1] /\ Len(Tail(d.rx)) = Len(d.rx) - 1
      /\ \A k \in 1..Len(Tail(d.rx)) : k + 1 \in 1..Len(d.rx) /\ Tail(d.rx)[k] = d.rx[k + 1]
      /\ Len(d.rx) = 1 => Tail(d.rx) = <<>>
  BY <1>2, TailPieces
<1> DEFINE rest == Tail(d.rx)
<1> HIDE DEF u, d, e, piece, rest
<1>6. PausedAtEnd(u) /\ BlockedInside(u) /\ UnreadBefore(u)
  BY <1>1, <1>3, <1>4 DEF Orderly, PausedAtEnd, BlockedInside, UnreadBefore, d, e
<1>7. ASSUME ~u.close_after_write, ~u.surplus PROVE u.replies <= 1 /\ Remaining(e, u.replies, u.pc)
  <2>1. ~s.close_after_write /\ ~s.surplus /\ (d.response_htp = "ok" => d.response_state # "MSG_COMPLETE")
    BY <1>2, <1>3, <1>7 DEF Pieces
  <2>2. Remaining(d, s.replies, s.pc) /\ s.replies <= 1 /\ s.replies \in 0..2
    BY <1>1, <2>1 DEF Orderly, AnswerOnce, AtMostOne, Proxy, d
  <2>3. d.response_state # "MSG_COMPLETE" /\ d.backend # "silent" /\ 1 \in 1..Len(d.rx)
    BY <1>2, <1>5, <2>1, <2>2 DEF Remaining, d
  <2>4. CASE d.response_htp = "error"
    <3>1. Len(e.rx) = 0 /\ e.rx = <<>>
      BY <1>3, <2>4
    <3> QED
      BY <1>3, <2>2, <2>3, <2>4, <3>1 DEF Remaining
  <2>5. CASE d.response_htp = "ok"
    <3>1. e.rx = rest /\ piece \in Pieces
      BY <1>3, <2>5 DEF rest
    <3>2. Len(rest) = Len(d.rx) - 1 /\ \A k \in 1..Len(rest) : k + 1 \in 1..Len(d.rx) /\ rest[k] = d.rx[k + 1]
      BY <1>5 DEF rest
    <3>3. \A k \in 1..Len(rest) : rest[k] \notin {"head", "headclose"}
      <4> SUFFICES ASSUME NEW k \in 1..Len(rest) PROVE rest[k] \notin {"head", "headclose"}
        OBVIOUS
      <4>1. k + 1 \in 1..Len(d.rx) /\ rest[k] = d.rx[k + 1] /\ k + 1 # 1
        BY <3>2
      <4>2. d.rx[k + 1] \in {"head", "headclose"} => k + 1 = 1
        BY <2>2, <4>1 DEF Remaining
      <4> QED
        BY <4>1, <4>2
    <3>4. CASE piece \in {"head", "headclose"}
      <4>1. d.response_state = "INITIAL" /\ s.replies = 0
        BY <1>5, <2>2, <2>3, <3>4 DEF Remaining
      <4> QED
        BY <1>3, <2>3, <2>5, <3>1, <3>3, <3>4, <4>1 DEF Remaining
    <3>a. piece \in {"body", "end"} => d.response_state # "INITIAL"
      <4>1. d.rx # <<>>
        BY DEF d
      <4> QED
        BY <1>5, <2>2, <2>5, <4>1 DEF Remaining
    <3>5. CASE piece = "body"
      BY <1>3, <2>2, <2>3, <2>5, <3>1, <3>3, <3>5, <3>a DEF Remaining
    <3>6. CASE piece = "end"
      <4>1. e.response_state = "MSG_COMPLETE" /\ e.response_htp = "ok" /\ u.replies = s.replies /\ u.pc = "response"
        BY <1>3, <2>5, <3>6
      <4> QED
        BY <1>3, <2>2, <2>3, <3>1, <3>3, <3>a, <3>6, <4>1 DEF Remaining
    <3>7. CASE piece = "bad"
      BY <1>3, <2>2, <2>3, <2>5, <3>1, <3>3, <3>7 DEF Remaining
    <3> QED
      BY <3>1, <3>4, <3>5, <3>6, <3>7 DEF Pieces
  <2> QED
    BY <1>2, <2>4, <2>5 DEF d
<1>8. AnswerOnce(u) /\ AtMostOne(u)
  BY <1>7 DEF AnswerOnce, AtMostOne, e
<1>9. Orderly(u)
  BY <1>3, <1>6, <1>8 DEF Orderly
<1>10. Concludes(s, u)
  BY <1>3 DEF Concludes, e
<1> QED
  BY <1>9, <1>10 DEF u

\* The request parser takes a piece: every hook finds the Downstream and the connection
\* it needs.
LEMMA ExecuteOrderly ==
    ASSUME NEW s, Sane(s), Orderly(s), s.htp = "ok", s.pc = "request", s.input # <<>>,
           Head(s.input).t # "begin",
           NEW w \in Seq(Tokens), NEW c, Chained(Pos(s), s.input \o w, c), NEW ok \in BOOLEAN
    PROVE  LET u == Execute(s, ok) IN Orderly(u) /\ Concludes(s, u)
<1> DEFINE token == Head(s.input)
           q == [s EXCEPT !.input = Tail(@)]
           n == RequestHook(q, token, ok)
           u == Execute(s, ok)
           e == n.downstream
           d == s.downstream
<1>1. s \in Proxy
  BY DEF Sane
<1>2. /\ q \in Proxy /\ token \in Tokens
      /\ q.handler = s.handler /\ q.pc = s.pc /\ q.htp = s.htp /\ q.rdbits = s.rdbits
      /\ q.close_after_write = s.close_after_write /\ q.replies = s.replies /\ q.early = s.early /\ q.surplus = s.surplus
      /\ q.downstream = s.downstream
  BY <1>1, TakenFields
<1>3. Fits(Pos(s), token)
  <2>1. s.input \in Seq(Tokens)
    BY <1>1 DEF Proxy
  <2> QED
    BY <2>1, ChainTaken
<1>4. u = IF n.htp = "error" THEN [n EXCEPT !.input = <<token>>]
          ELSE [n EXCEPT !.header_length = IF @ > MaxHeader THEN @ ELSE @ + 1]
  BY DEF Execute
<1>p. /\ d # None => d.conn \in {"attached", "null"} /\ d.request_state \in MsgStates
      /\ d # None => d.request_state \notin {"MSG_COMPLETE", "CONNECT_FAIL"}
      /\ d # None /\ d.request_state = "HEADER_COMPLETE" => d.conn = "attached"
      /\ s.handler # "crashed" /\ s.rdbits = {}
  BY <1>1, NotNone DEF Sane, ConnectsLate, Orderly, PausedAtEnd, UnreadBefore, BlockedInside, Proxy, Downstream
<1> SUFFICES Orderly(u) /\ Concludes(s, u)
  OBVIOUS
<1> HIDE DEF q, token, u, e
\* It is enough that the hook leaves an orderly state, and the Downstream.
<1>5. ASSUME n \in Proxy, Orderly(n), d # None => e # None PROVE Orderly(u) /\ Concludes(s, u)
  <2> HIDE DEF n
  <2>1. /\ u.handler = n.handler /\ u.pc = n.pc /\ u.htp = n.htp /\ u.rdbits = n.rdbits
        /\ u.downstream = n.downstream /\ u.replies = n.replies /\ u.early = n.early /\ u.surplus = n.surplus
        /\ u.close_after_write = n.close_after_write
    BY <1>2, <1>4, <1>5, ExecutedFields
  <2> QED
    BY <1>5, <2>1 DEF Orderly, PausedAtEnd, BlockedInside, UnreadBefore, AnswerOnce, AtMostOne,
                      Concludes, e
\* A hook that only makes progress with the request.
<1>a. ASSUME n \in Proxy, Aside(q, n), n.replies = q.replies /\ n.early = q.early /\ n.surplus = q.surplus, d # None, e # None, Alike(d, e),
             n.handler = q.handler,
             n.htp # "paused", e.request_state # "MSG_COMPLETE",
             e.request_state = "HEADER_COMPLETE" => e.conn = "attached"
      PROVE  Orderly(n)
  <2> HIDE DEF n
  <2>1. PausedAtEnd(n) /\ BlockedInside(n)
    BY <1>2, <1>p, <1>a DEF PausedAtEnd, BlockedInside, Aside, e
  <2>2. UnreadBefore(n) /\ AtMostOne(n)
    BY <1>2, <1>p, <1>a DEF Orderly, UnreadBefore, AtMostOne, Aside, Alike, e
  <2>3. AnswerOnce(n)
    <3>1. ASSUME ~n.close_after_write, ~n.surplus PROVE Remaining(e, n.replies, n.pc)
      <4>1. Remaining(d, s.replies, s.pc)
        BY <1>2, <1>a, <3>1 DEF Orderly, AnswerOnce, Aside
      <4> QED
        BY <1>2, <1>a, <4>1, RemainingAlike DEF Aside
    <3> QED
      BY <3>1 DEF AnswerOnce, e
  <2> QED
    BY <1>2, <1>p, <1>a, <2>1, <2>2, <2>3 DEF Orderly
\* The hook that ends the request.
<1>b. ASSUME n \in Proxy, Aside(q, n), n.replies = q.replies /\ n.early = q.early /\ n.surplus = q.surplus, d # None, e # None, Alike(d, e),
             n.handler = q.handler, n.htp = "paused", e.request_state = "MSG_COMPLETE",
             e.conn = "attached"
      PROVE  Orderly(n)
  <2> HIDE DEF n
  <2>1. PausedAtEnd(n) /\ BlockedInside(n)
    BY <1>2, <1>p, <1>b DEF PausedAtEnd, BlockedInside, Aside, e
  <2>2. UnreadBefore(n) /\ AtMostOne(n)
    BY <1>2, <1>p, <1>b DEF Orderly, UnreadBefore, AtMostOne, Aside, Alike, e
  <2>3. AnswerOnce(n)
    <3>1. ASSUME ~n.close_after_write, ~n.surplus PROVE Remaining(e, n.replies, n.pc)
      <4>1. Remaining(d, s.replies, s.pc)
        BY <1>2, <1>b, <3>1 DEF Orderly, AnswerOnce, Aside
      <4> QED
        BY <1>2, <1>b, <4>1, RemainingAlike DEF Aside
    <3> QED
      BY <3>1 DEF AnswerOnce, e
  <2> QED
    BY <1>2, <1>p, <1>b, <2>1, <2>2, <2>3 DEF Orderly
<1>7. CASE token.t = "more"
  <2>1. n = q
    BY <1>7 DEF RequestHook
  <2>2. Orderly(q)
    BY <1>2 DEF Orderly, PausedAtEnd, BlockedInside, UnreadBefore, AnswerOnce, AtMostOne
  <2> QED
    BY <1>2, <1>5, <2>1, <2>2 DEF e
<1>8. CASE token.t = "hdr"
  <2>1. n = htp_hdrs_completecb(q, token, ok)
    BY <1>8 DEF RequestHook
  <2>2. d # None
    BY <1>3, <1>8 DEF Fits, Pos
  <2>3. /\ n \in Proxy /\ Aside(q, n) /\ n.handler = q.handler /\ e # None /\ n.replies = q.replies /\ n.early = q.early /\ n.surplus = q.surplus
        /\ Alike(d, e)
        /\ \/ n.htp = "error" /\ e.request_state = "CONNECT_FAIL"
           \/ /\ e.conn = "attached"
              /\ token.body => n.htp = q.htp /\ e.request_state = "HEADER_COMPLETE"
              /\ ~token.body => n.htp = "paused" /\ e.request_state = "MSG_COMPLETE"
    BY <1>2, <1>8, <2>1, <2>2, HeadersFields DEF e
  <2>4. Orderly(n)
    <3> HIDE DEF n
    <3>1. \/ n.htp # "paused" /\ e.request_state \in {"CONNECT_FAIL", "HEADER_COMPLETE"}
             /\ (e.request_state = "HEADER_COMPLETE" => e.conn = "attached")
          \/ n.htp = "paused" /\ e.request_state = "MSG_COMPLETE" /\ e.conn = "attached"
      BY <1>2, <2>3
    <3>2. CASE n.htp # "paused" /\ e.request_state \in {"CONNECT_FAIL", "HEADER_COMPLETE"}
               /\ (e.request_state = "HEADER_COMPLETE" => e.conn = "attached")
      BY <1>a, <2>2, <2>3, <3>2
    <3>3. CASE n.htp = "paused" /\ e.request_state = "MSG_COMPLETE" /\ e.conn = "attached"
      BY <1>b, <2>2, <2>3, <3>3
    <3> QED
      BY <3>1, <3>2, <3>3
  <2> QED
    BY <1>5, <2>3, <2>4
<1>9. CASE token.t = "body"
  <2>1. n = htp_bodycb(q)
    BY <1>9 DEF RequestHook
  <2>2. d # None /\ d.request_state = "HEADER_COMPLETE" /\ d.conn = "attached"
    BY <1>3, <1>9, <1>p DEF Fits, Pos, MsgStates
  <2>3. /\ n \in Proxy /\ Aside(q, n) /\ n.handler = q.handler /\ n.replies = q.replies /\ n.early = q.early /\ n.surplus = q.surplus
        /\ n.htp \in {q.htp, "error"} /\ e # None /\ e.conn = d.conn /\ e.request_state = d.request_state
        /\ Alike(d, e)
    BY <1>2, <2>1, <2>2, BodyFields DEF e
  <2> HIDE DEF n
  <2>4. n.htp # "paused"
    BY <1>2, <2>3
  <2> QED
    BY <1>5, <1>a, <2>2, <2>3, <2>4
<1>10. CASE token.t = "end"
  <2>1. n = htp_msg_completecb(q)
    BY <1>10 DEF RequestHook
  <2>2. d # None /\ d.request_state = "HEADER_COMPLETE" /\ d.conn = "attached"
    BY <1>3, <1>10, <1>p DEF Fits, Pos, MsgStates
  <2>3. /\ n \in Proxy /\ Aside(q, n) /\ n.replies = q.replies /\ n.early = q.early /\ n.surplus = q.surplus /\ n.htp = "paused"
        /\ e # None /\ e.conn = d.conn /\ e.request_state = "MSG_COMPLETE" /\ Alike(d, e)
        /\ n.handler = q.handler
    BY <1>2, <2>1, <2>2, CompleteFields DEF e
  <2> HIDE DEF n
  <2> QED
    BY <1>5, <1>b, <2>2, <2>3
<1>11. CASE token.t = "bad"
  <2>1. n = [q EXCEPT !.htp = "error"]
    BY <1>11 DEF RequestHook
  <2> HIDE DEF n
  <2>2. /\ n \in Proxy /\ Aside(q, n) /\ n.downstream = q.downstream
        /\ n.htp = "error" /\ n.handler = q.handler /\ n.replies = q.replies /\ n.early = q.early /\ n.surplus = q.surplus
    BY <1>2, <2>1 DEF Proxy, Aside
  <2>3. Orderly(n)
    BY <1>2, <1>p, <2>2 DEF Orderly, PausedAtEnd, BlockedInside, UnreadBefore, AnswerOnce, AtMostOne, Aside
  <2> QED
    BY <1>2, <1>5, <2>2, <2>3 DEF e
<1> QED
  BY <1>2, <1>7, <1>8, <1>9, <1>10, <1>11, TokenKinds DEF token

\* Of the hooks only htp_msg_begin changes the history.
LEMMA ExecuteEarly ==
    ASSUME NEW s, Sane(s), s.htp = "ok", s.input # <<>>, Head(s.input).t # "begin",
           NEW w \in Seq(Tokens), NEW c, Chained(Pos(s), s.input \o w, c), NEW ok \in BOOLEAN
    PROVE  Execute(s, ok).early = s.early
<1> DEFINE token == Head(s.input)
           q == [s EXCEPT !.input = Tail(@)]
           n == RequestHook(q, token, ok)
           u == Execute(s, ok)
<1>1. s \in Proxy
  BY DEF Sane
<1>2. q \in Proxy /\ token \in Tokens /\ q.downstream = s.downstream /\ q.early = s.early
  BY <1>1, TakenFields
<1>3. Fits(Pos(s), token)
  <2>1. s.input \in Seq(Tokens)
    BY <1>1 DEF Proxy
  <2> QED
    BY <2>1, ChainTaken
<1>4. u = IF n.htp = "error" THEN [n EXCEPT !.input = <<token>>]
          ELSE [n EXCEPT !.header_length = IF @ > MaxHeader THEN @ ELSE @ + 1]
  BY DEF Execute
<1> HIDE DEF q, u, token
<1>5. n \in Proxy /\ n.early = s.early
  <2>1. CASE token.t = "more"
    BY <1>2, <2>1 DEF RequestHook
  <2>2. CASE token.t = "hdr"
    <3>1. q.downstream # None
      BY <1>2, <1>3, <2>2 DEF Fits, Pos
    <3> QED
      BY <1>2, <2>2, <3>1, HeadersFields DEF RequestHook
  <2>3. CASE token.t = "body"
    <3>1. q.downstream # None
      BY <1>2, <1>3, <2>3 DEF Fits, Pos
    <3> QED
      BY <1>2, <2>3, <3>1, BodyFields DEF RequestHook
  <2>4. CASE token.t = "end"
    <3>1. q.downstream # None
      BY <1>2, <1>3, <2>4 DEF Fits, Pos
    <3> QED
      BY <1>2, <2>4, <3>1, CompleteFields DEF RequestHook
  <2>5. CASE token.t = "bad"
    BY <1>2, <2>5 DEF RequestHook, Proxy
  <2> QED
    BY <1>2, <2>1, <2>2, <2>3, <2>4, <2>5, TokenKinds DEF token
<1> HIDE DEF n
<1> QED
  BY <1>2, <1>4, <1>5, ExecutedFields DEF u

\* A request begins in order, whatever became of the one before.
LEMMA BeginOrderly ==
    ASSUME NEW s, Sane(s), Gate(s), s.handler = "open", s.htp = "ok", s.pc = "request",
           s.input # <<>>, Head(s.input).t = "begin",
           NEW w \in Seq(Tokens), NEW c, Chained(Pos(s), s.input \o w, c), NEW ok \in BOOLEAN
    PROVE  LET u == Execute(s, ok) IN Orderly(u) /\ Concludes(s, u)
<1> DEFINE token == Head(s.input)
           q == [s EXCEPT !.input = Tail(@)]
           n == RequestHook(q, token, ok)
           u == Execute(s, ok)
           e == u.downstream
<1>1. s \in Proxy /\ s.rdbits = {}
  BY DEF Sane, Gate
<1>2. /\ q \in Proxy /\ token \in Tokens /\ q.downstream = s.downstream /\ q.handler = s.handler
      /\ q.pc = s.pc /\ q.htp = s.htp /\ q.rdbits = s.rdbits
  BY <1>1, TakenFields
<1>3. s.downstream = None
  <2>1. s.input \in Seq(Tokens)
    BY <1>1 DEF Proxy
  <2>2. Fits(Pos(s), token)
    BY <2>1, ChainTaken
  <2> QED
    BY <2>2 DEF Fits, Pos, Gate
<1>4. u = IF n.htp = "error" THEN [n EXCEPT !.input = <<token>>]
          ELSE [n EXCEPT !.header_length = IF @ > MaxHeader THEN @ ELSE @ + 1]
  BY DEF Execute
<1>5. /\ n \in Proxy /\ Aside(q, n) /\ n.htp = q.htp /\ n.handler = q.handler
      /\ n.replies = 0 /\ n.downstream = NewDownstream
  <2>1. n = htp_msg_begin(q)
    BY DEF RequestHook
  <2> QED
    BY <1>2, <1>3, <2>1, BeginFields, ZenonT(60)
<1> HIDE DEF q, n, u, token
<1>6. /\ u.handler = "open" /\ u.pc = "request" /\ u.htp = "ok" /\ u.rdbits = {}
      /\ u.replies = 0 /\ e = NewDownstream
  BY <1>1, <1>2, <1>4, <1>5, ExecutedFields DEF Aside
<1>7. /\ e # None /\ e.request_state = "INITIAL" /\ e.response_state = "INITIAL"
      /\ e.conn = "null" /\ e.rx = <<>> /\ e.backend = "silent" /\ e.response_htp = "ok"
  BY <1>6, NewFields
<1>8. PausedAtEnd(u) /\ BlockedInside(u) /\ UnreadBefore(u) /\ AtMostOne(u)
  BY <1>6, <1>7 DEF PausedAtEnd, BlockedInside, UnreadBefore, AtMostOne
<1>9. AnswerOnce(u)
  <2>1. Len(e.rx) = 0
    BY <1>7
  <2>2. Remaining(e, u.replies, u.pc)
    BY <1>6, <1>7, <2>1 DEF Remaining
  <2> QED
    BY <2>2 DEF AnswerOnce
<1> QED
  BY <1>3, <1>6, <1>8, <1>9 DEF Orderly, Concludes, u

\* A request that cannot be served is answered, and the connection will be closed.
LEMMA CloseWithErrorOrderly ==
    ASSUME NEW s \in Proxy, s.handler # "crashed", PausedAtEnd(s), BlockedInside(s), UnreadBefore(s),
           NEW t
    PROVE  Orderly(close_with_error(s)) /\ Concludes(t, close_with_error(s))
<1> DEFINE m == [s EXCEPT !.close_after_write = TRUE]
           u == close_with_error(s)
<1>1. /\ m \in Proxy /\ m.close_after_write = TRUE /\ m.handler = s.handler /\ m.pc = s.pc
      /\ m.htp = s.htp /\ m.rdbits = s.rdbits /\ m.downstream = s.downstream
  BY DEF Proxy
<1>2. u = error_reply(m)
  BY DEF close_with_error
<1> HIDE DEF m, u
<1>3. /\ u \in Proxy /\ (u.downstream = None <=> m.downstream = None)
      /\ u.handler = m.handler /\ u.pc = m.pc /\ u.close_after_write = TRUE
      /\ u.htp = m.htp /\ u.rdbits = m.rdbits
      /\ m.downstream # None =>
            /\ u.downstream.request_state = m.downstream.request_state
            /\ u.downstream.conn = m.downstream.conn /\ u.downstream.rx = m.downstream.rx
            /\ u.downstream.backend = m.downstream.backend
  BY <1>1, <1>2, ErrorReplyFields
<1>4. Orderly(u)
  BY <1>1, <1>3 DEF Orderly, PausedAtEnd, BlockedInside, UnreadBefore, AnswerOnce, AtMostOne
<1>5. Concludes(t, u)
  BY <1>3 DEF Concludes
<1> QED
  BY <1>4, <1>5 DEF u

\* on_read, once the parser has returned: a paused parser finds a complete request with
\* its connection, so none of the assertions fails.
LEMMA ExecutedOrderly ==
    ASSUME NEW s, Sane(s), Orderly(s), s.pc = "request"
    PROVE  LET u == on_read_executed(s) IN Orderly(u) /\ Concludes(s, u)
<1> DEFINE m == [s EXCEPT !.pc = "loop", !.input = IF s.htp = "error" THEN <<Head(@)>> ELSE @]
           d == m.downstream
           u == on_read_executed(s)
<1>1. s \in Proxy /\ KeepsFailure(s)
  BY DEF Sane
<1>2. /\ m \in Proxy /\ m.pc = "loop" /\ m.handler = s.handler
      /\ m.close_after_write = s.close_after_write /\ m.replies = s.replies /\ m.early = s.early /\ m.surplus = s.surplus
      /\ m.htp = s.htp /\ m.rdbits = s.rdbits /\ m.downstream = s.downstream
  BY <1>1, ReturnedFields
<1>3. u = CASE m.htp = "paused" /\ d = None -> Crash(m)
          [] m.htp = "paused" /\ d # None ->
               IF d.request_state = "CONNECT_FAIL" THEN close_with_error(m)
               ELSE IF d.request_state # "MSG_COMPLETE" THEN Crash(m)
               ELSE IF d.conn = "attached" THEN pause_read(m, "MSG_BLOCK")
               ELSE IF d.response_state = "MSG_COMPLETE" THEN delete_downstream(m)
               ELSE Crash(m)
          [] m.htp = "ok" /\ d # None ->
               IF d.request_state = "INITIAL" /\ m.header_length > MaxHeader
               THEN close_with_error(m)
               ELSE IF get_output_buffer_full(d) THEN pause_read(m, "NO_BUFFER") ELSE m
          [] m.htp = "ok" /\ d = None -> m
          [] m.htp = "error"          -> close_with_error(m)
  BY DEF on_read_executed
<1> HIDE DEF m, u
<1>4. m.htp \in {"ok", "paused", "error"} /\ m.rdbits = {} /\ m.handler # "crashed"
  BY <1>2 DEF Proxy, Orderly, BlockedInside
<1>5. BlockedInside(m) /\ UnreadBefore(m) /\ AtMostOne(m) /\ AnswerOnce(m)
  <2>1. BlockedInside(m) /\ UnreadBefore(m) /\ AtMostOne(m)
    BY <1>2, <1>4 DEF Orderly, BlockedInside, UnreadBefore, AtMostOne
  <2>2. AnswerOnce(m)
    BY <1>2 DEF Orderly, AnswerOnce, Remaining
  <2> QED
    BY <2>1, <2>2
<1>6. CASE m.htp = "paused"
  <2>1. d # None /\ d.request_state = "MSG_COMPLETE" /\ d.conn = "attached"
    BY <1>2, <1>6 DEF Orderly, PausedAtEnd
  <2>2. u = pause_read(m, "MSG_BLOCK")
    BY <1>3, <1>6, <2>1
  <2>3. /\ u.handler = m.handler /\ u.htp = m.htp /\ u.downstream = m.downstream
        /\ u.pc = m.pc /\ u.rdbits = m.rdbits \cup {"MSG_BLOCK"} /\ u.replies = m.replies /\ u.early = m.early /\ u.surplus = m.surplus
        /\ u.close_after_write = m.close_after_write
    BY <1>2, <2>2, PauseFields
  <2>4. PausedAtEnd(u) /\ BlockedInside(u)
    BY <1>2, <1>4, <1>6, <2>1, <2>3 DEF PausedAtEnd, BlockedInside
  <2>5. UnreadBefore(u) /\ AtMostOne(u) /\ AnswerOnce(u)
    BY <1>5, <2>3 DEF UnreadBefore, AtMostOne, AnswerOnce
  <2> QED
    BY <1>2, <1>4, <2>3, <2>4, <2>5 DEF Orderly, Concludes, u
<1>7. CASE m.htp # "paused"
  <2>1. d # None => d.request_state # "MSG_COMPLETE"
    BY <1>2, <1>7 DEF Orderly, PausedAtEnd
  <2>2. PausedAtEnd(m)
    BY <1>2, <1>7, <2>1 DEF Orderly, PausedAtEnd
  <2>3. u = close_with_error(m) \/ u = m \/ (u = pause_read(m, "NO_BUFFER") /\ d # None)
    BY <1>3, <1>4, <1>7
  <2>4. CASE u = close_with_error(m)
    BY <1>2, <1>4, <1>5, <2>2, <2>4, CloseWithErrorOrderly DEF u
  <2>5. CASE u = m
    BY <1>2, <1>4, <1>5, <2>2, <2>5 DEF Orderly, Concludes, u
  <2>6. CASE u = pause_read(m, "NO_BUFFER") /\ d # None
    <3>1. /\ u.handler = m.handler /\ u.htp = m.htp /\ u.downstream = m.downstream
          /\ u.pc = m.pc /\ u.replies = m.replies /\ u.early = m.early /\ u.surplus = m.surplus /\ u.close_after_write = m.close_after_write
      BY <1>2, <2>6, PauseFields
    <3>2. PausedAtEnd(u) /\ BlockedInside(u)
      BY <1>2, <2>1, <2>2, <2>6, <3>1 DEF PausedAtEnd, BlockedInside
    <3>3. UnreadBefore(u) /\ AtMostOne(u) /\ AnswerOnce(u)
      BY <1>5, <3>1 DEF UnreadBefore, AtMostOne, AnswerOnce
    <3> QED
      BY <1>2, <1>4, <3>1, <3>2, <3>3 DEF Orderly, Concludes, u
  <2> QED
    BY <2>3, <2>4, <2>5, <2>6
<1> QED
  BY <1>6, <1>7

\* The backend answers, also before the request is complete: it is not read.
LEMMA AnswerOrderly ==
    ASSUME NEW s, Sane(s), Orderly(s), s.downstream # None, s.pc = "loop", NEW piece \in Pieces,
           NEW to \in {"silent", "headed", "garbled", "ended", "closed", "failed"},
           Answers(piece, s.downstream.backend, to), piece = "body" => s.downstream.pieces < MaxBody
    PROVE  Orderly(Grown(s, piece, to)) /\ Concludes(s, Grown(s, piece, to))
<1> DEFINE u == Grown(s, piece, to)
           d == s.downstream
           e == u.downstream
<1>1. s \in Proxy
  BY DEF Sane
<1>2. /\ u \in Proxy /\ e # None /\ Aside(s, u) /\ u.handler = s.handler /\ u.htp = s.htp
      /\ u.replies = s.replies /\ u.early = s.early /\ u.surplus = s.surplus
      /\ e.rx = Append(d.rx, piece) /\ e.backend = to /\ e.response_state = d.response_state
      /\ e.response_htp = d.response_htp /\ e.conn = d.conn /\ e.request_state = d.request_state
  BY <1>1, BackendFields
<1>3. d.rx \in Seq(Pieces)
  BY <1>1, NotNone DEF Proxy, Downstream
<1>4. /\ Len(d.rx) \in Nat /\ Len(e.rx) = Len(d.rx) + 1 /\ e.rx[Len(e.rx)] = piece
      /\ \A k \in 1..Len(d.rx) : e.rx[k] = d.rx[k]
  BY <1>2, <1>3
<1> HIDE DEF u, d, e
<1>5. PausedAtEnd(u) /\ BlockedInside(u) /\ UnreadBefore(u) /\ AtMostOne(u)
  BY <1>2 DEF Orderly, PausedAtEnd, BlockedInside, UnreadBefore, AtMostOne, Aside, d, e
<1>6. ASSUME ~u.close_after_write, ~u.surplus PROVE Remaining(e, u.replies, u.pc)
  <2>1. Remaining(d, s.replies, s.pc)
    BY <1>2, <1>6 DEF Orderly, AnswerOnce, Aside, d
  <2>2. to # "silent" /\ d.backend \notin {"closed", "failed"}
    BY DEF Answers, d
  <2>3. d.response_state # "MSG_COMPLETE"
    BY <2>1 DEF Remaining
  <2>4. piece \in {"head", "headclose"} => Len(d.rx) = 0 /\ d.response_state = "INITIAL"
    <3>1. piece \in {"head", "headclose"} => d.backend = "silent"
      BY DEF Answers, d
    <3>2. d.backend = "silent" => d.rx = <<>> /\ d.response_state = "INITIAL"
      BY <2>1 DEF Remaining
    <3> QED
      BY <3>1, <3>2
  <2>6. ASSUME NEW k \in 1..Len(e.rx)
        PROVE  e.rx[k] \in {"head", "headclose"} => k = 1 /\ e.response_state = "INITIAL"
    <3>1. CASE k = Len(e.rx)
      BY <1>2, <1>4, <2>4, <3>1
    <3>2. CASE k # Len(e.rx)
      <4>1. k \in 1..Len(d.rx) /\ e.rx[k] = d.rx[k]
        BY <1>4, <2>6, <3>2
      <4> QED
        BY <1>2, <2>1, <2>2, <4>1 DEF Remaining
    <3> QED
      BY <3>1, <3>2
  <2>7. e.rx # <<>>
    BY <1>4
  <2>8. ASSUME d.response_state = "INITIAL", d.response_htp = "ok"
        PROVE  e.rx[1] \in {"head", "headclose", "bad"}
    <3>1. CASE d.rx = <<>>
      <4>1. d.backend = "silent"
        BY <2>1, <2>2, <2>8, <3>1 DEF Remaining
      <4>2. piece \in {"head", "headclose", "bad"}
        BY <4>1 DEF Answers, d
      <4> QED
        BY <1>4, <3>1, <4>2
    <3>2. CASE d.rx # <<>>
      <4>1. 1 \in 1..Len(d.rx)
        BY <1>3, <1>4, <3>2
      <4> QED
        BY <1>4, <2>1, <2>8, <3>2, <4>1 DEF Remaining
    <3> QED
      BY <3>1, <3>2
  <2> QED
    BY <1>2, <2>1, <2>2, <2>3, <2>6, <2>7, <2>8 DEF Remaining, Aside
<1>7. AnswerOnce(u)
  BY <1>6 DEF AnswerOnce, e
<1>8. Orderly(u)
  BY <1>2, <1>5, <1>7 DEF Orderly
<1>9. Concludes(s, u)
  BY <1>2 DEF Concludes, e
<1> QED
  BY <1>8, <1>9 DEF u

\* A backend that closes or resets.
LEMMA StopOrderly ==
    ASSUME NEW s, Sane(s), Orderly(s), s.downstream # None, NEW how \in {"closed", "failed"}
    PROVE  LET u == [s EXCEPT !.downstream.backend = how] IN Orderly(u) /\ Concludes(s, u)
<1> DEFINE u == [s EXCEPT !.downstream.backend = how]
           d == s.downstream
           e == u.downstream
<1>1. s \in Proxy
  BY DEF Sane
<1>2. /\ u \in Proxy /\ e # None /\ Aside(s, u) /\ u.handler = s.handler /\ u.htp = s.htp
      /\ u.replies = s.replies /\ u.early = s.early /\ u.surplus = s.surplus
      /\ e.rx = d.rx /\ e.backend = how /\ e.response_state = d.response_state
      /\ e.response_htp = d.response_htp /\ e.conn = d.conn /\ e.request_state = d.request_state
  BY <1>1, StopFields
<1> HIDE DEF u, d, e
<1>3. PausedAtEnd(u) /\ BlockedInside(u) /\ UnreadBefore(u) /\ AtMostOne(u)
  BY <1>2 DEF Orderly, PausedAtEnd, BlockedInside, UnreadBefore, AtMostOne, Aside, d, e
<1>4. ASSUME ~u.close_after_write, ~u.surplus PROVE Remaining(e, u.replies, u.pc)
  <2>1. Remaining(d, s.replies, s.pc)
    BY <1>2, <1>4 DEF Orderly, AnswerOnce, Aside, d
  <2> QED
    BY <1>2, <2>1 DEF Remaining, Aside
<1>5. Orderly(u)
  BY <1>2, <1>3, <1>4 DEF Orderly, AnswerOnce, e
<1>6. Concludes(s, u)
  BY <1>2 DEF Concludes, e
<1> QED
  BY <1>5, <1>6 DEF u

-----------------------------------------------------------------------------
(* When the client is read, whatever the backend does.                      *)

\* ~ClientHandler.
LEMMA DeletedGate == ASSUME NEW s PROVE Gate(Delete(s))
<1> DEFINE u == Delete(s)
<1>1. u.handler = "deleted" /\ u.downstream = None /\ u.pc = "loop"
  BY DeleteFields
<1> HIDE DEF u
<1>2. Gate(u)
  BY <1>1 DEF Gate
<1> QED
  BY <1>2 DEF u

\* A step that leaves the parser, the reasons to pause and the request as they are.
LEMMA StillGate ==
    ASSUME NEW s, NEW u, Gate(s), s.handler = "open", u.handler = "open", u.htp = s.htp, u.rdbits = s.rdbits,
           u.pc = s.pc \/ (u.pc # "request" /\ s.pc # "request"),
           u.downstream # None /\ u.downstream.request_state = "MSG_COMPLETE" =>
              s.downstream # None /\ s.downstream.request_state = "MSG_COMPLETE"
    PROVE  Gate(u)
  BY DEF Gate

\* On to the next request.
LEMMA NextRequestGate ==
    ASSUME NEW s \in Proxy, s.handler = "open", s.htp = "paused", s.pc = "loop"
    PROVE  Gate(next_request(s))
<1> DEFINE u == next_request(s)
<1>1. /\ u.downstream = None /\ u.handler = s.handler
      /\ u.rdbits # {} => u.pc = s.pc
  BY NextRequestFields
<1> HIDE DEF u
<1>2. Gate(u)
  BY <1>1 DEF Gate
<1> QED
  BY <1>2 DEF u

\* EOF, an error or a timeout of the backend connection.
LEMMA EventcbGate ==
    ASSUME NEW s \in Proxy, Gate(s), s.handler = "open", s.downstream # None, s.pc = "loop", NEW event
    PROVE  LET u == https_downstream_eventcb(s, event) IN
           Gate(u) /\ (u.early = s.early \/ \E m : u = Delete(m))
<1> DEFINE u == https_downstream_eventcb(s, event)
<1>0. EventOutcome(s, u)
  BY EventcbCases
<1> HIDE DEF u
<1>1. PICK m : /\ \/ m = ByEof(s) \/ m = error_reply(s) \/ m = s
               /\ \/ u = Delete(m)
                  \/ u = next_request(m) /\ s.downstream.request_state = "MSG_COMPLETE"
                  \/ u = m
  BY <1>0 DEF EventOutcome
<1>2. /\ m \in Proxy /\ m.handler = s.handler /\ m.htp = s.htp /\ m.rdbits = s.rdbits /\ m.pc = s.pc
      /\ m.early = s.early /\ m.downstream # None
      /\ m.downstream.request_state = s.downstream.request_state
  <2>1. CASE m = ByEof(s)
    BY <2>1, ByEofFields
  <2>2. CASE m = error_reply(s)
    BY <2>2, ErrorReplyFields
  <2>3. CASE m = s
    BY <2>3
  <2> QED
    BY <1>1, <2>1, <2>2, <2>3
<1>3. CASE u = Delete(m)
  BY <1>3, DeletedGate DEF u
<1>4. CASE u = next_request(m) /\ s.downstream.request_state = "MSG_COMPLETE"
  <2>1. m.htp = "paused"
    BY <1>2, <1>4 DEF Gate
  <2> QED
    BY <1>2, <1>4, <2>1, NextRequestGate, NextRequestFields DEF u
<1>5. CASE u = m
  BY <1>2, <1>5, StillGate DEF u
<1> QED
  BY <1>1, <1>3, <1>4, <1>5

\* The response parser has returned.
LEMMA ReadcbGate ==
    ASSUME NEW s0, Sane(s0), Gate(s0), s0.handler = "open", s0.pc = "response"
    PROVE  LET u == https_downstream_readcb(s0) IN
           Gate(u) /\ (u.early = s0.early \/ \E m : u = Delete(m))
<1> DEFINE s == [s0 EXCEPT !.pc = "loop"]
           d == s.downstream
           r == Released(s)
           f == error_reply(s)
           u == https_downstream_readcb(s0)
<1>1. s0 \in Proxy /\ s0.downstream # None
  BY DEF Sane, ReadsAttached
<1>2. /\ s \in Proxy /\ s.pc = "loop" /\ s.handler = s0.handler /\ s.htp = s0.htp
      /\ s.rdbits = s0.rdbits /\ s.early = s0.early /\ s.downstream = s0.downstream
  BY <1>1, LoopFields
<1>3. \/ u = Delete(s) \/ u = Delete(r)
      \/ u \in {next_request(r), next_request(f)} /\ d.request_state = "MSG_COMPLETE"
      \/ u \in {r, f, s, [s EXCEPT !.downstream.ev_read = FALSE]}
  BY <1>1, <1>2, ReadcbCases
<1> HIDE DEF s, u
<1>4. Gate(s)
  BY <1>1, <1>2, StillGate
<1>5. ASSUME NEW m \in {r, f, s, [s EXCEPT !.downstream.ev_read = FALSE]}
      PROVE  /\ m \in Proxy /\ m.handler = s.handler /\ m.htp = s.htp /\ m.rdbits = s.rdbits
             /\ m.pc = s.pc /\ m.early = s.early /\ m.downstream # None
             /\ m.downstream.request_state = d.request_state
  <2>1. CASE m = r
    BY <1>1, <1>2, <2>1, ReleasedFields DEF Aside
  <2>2. CASE m = f
    BY <1>1, <1>2, <2>2, ErrorReplyFields
  <2>3. CASE m = s
    BY <1>1, <1>2, <2>3
  <2>4. CASE m = [s EXCEPT !.downstream.ev_read = FALSE]
    BY <1>1, <1>2, <2>4, EvReadSame DEF Same, Marks, Aside
  <2> QED
    BY <1>5, <2>1, <2>2, <2>3, <2>4
<1> HIDE DEF r, f
<1>6. CASE u = Delete(s) \/ u = Delete(r)
  BY <1>6, DeletedGate DEF u
<1>7. CASE u \in {next_request(r), next_request(f)} /\ d.request_state = "MSG_COMPLETE"
  <2>1. PICK m \in {r, f} : u = next_request(m)
    BY <1>7
  <2>2. m.htp = "paused" /\ m \in Proxy /\ m.handler = "open" /\ m.pc = "loop" /\ m.early = s.early
    BY <1>1, <1>2, <1>4, <1>5, <1>7 DEF Gate
  <2> QED
    BY <1>2, <2>1, <2>2, NextRequestGate, NextRequestFields DEF u
<1>8. CASE u \in {r, f, s, [s EXCEPT !.downstream.ev_read = FALSE]}
  BY <1>1, <1>2, <1>4, <1>5, <1>8, StillGate DEF u
<1> QED
  BY <1>3, <1>6, <1>7, <1>8 DEF u

\* The backend has taken what was written: a parser that has failed meets its assertion
\* in the middle of the upload.
LEMMA WriteGate ==
    ASSUME NEW s, Sane(s), Gate(s), s.handler = "open", s.pc = "loop", s.downstream # None,
           s.downstream.conn = "attached"
    PROVE  Gate(resume_read(s, "NO_BUFFER"))
<1> DEFINE u == resume_read(s, "NO_BUFFER")
           d == s.downstream
<1>1. s \in Proxy /\ d.request_state \in MsgStates
  BY NotNone DEF Sane, Proxy, Downstream
<1>2. /\ u.downstream = d
      /\ u.handler \in {s.handler, "aborted"} /\ (s.htp # "error" => u.handler = s.handler)
      /\ u.rdbits = s.rdbits \ {"NO_BUFFER"}
      /\ u.rdbits = {} => u.htp = IF s.htp = "paused" THEN "ok" ELSE s.htp
      /\ u.rdbits # {} => u.pc = s.pc /\ u.htp = s.htp
  BY <1>1, ResumeFields
<1> HIDE DEF u
<1>3. d.request_state = "MSG_COMPLETE" => "MSG_BLOCK" \in u.rdbits /\ u.htp = "paused"
  BY <1>2 DEF Gate
<1>4. u.handler = "aborted" => d.request_state = "HEADER_COMPLETE"
  <2>1. d.request_state \notin {"INITIAL", "CONNECT_FAIL"}
    BY DEF Sane, ConnectsLate
  <2>2. u.handler = "aborted" => d.request_state # "MSG_COMPLETE"
    BY <1>2 DEF Gate
  <2> QED
    BY <1>1, <2>1, <2>2 DEF MsgStates
<1>5. Gate(u)
  BY <1>2, <1>3, <1>4 DEF Gate
<1> QED
  BY <1>5 DEF u

\* The request parser takes a piece.
LEMMA ExecuteGate ==
    ASSUME NEW s, Sane(s), Gate(s), s.handler = "open", s.htp = "ok", s.pc = "request", s.input # <<>>,
           NEW w \in Seq(Tokens), NEW c, Chained(Pos(s), s.input \o w, c), NEW ok \in BOOLEAN
    PROVE  Gate(Execute(s, ok))
<1> DEFINE token == Head(s.input)
           q == [s EXCEPT !.input = Tail(@)]
           n == RequestHook(q, token, ok)
           u == Execute(s, ok)
           d == s.downstream
<1>1. s \in Proxy /\ s.rdbits = {}
  BY DEF Sane, Gate
<1>2. /\ q \in Proxy /\ token \in Tokens /\ q.downstream = d /\ q.handler = "open"
      /\ q.pc = "request" /\ q.htp = "ok" /\ q.rdbits = {}
  BY <1>1, TakenFields
<1>3. Fits(Pos(s), token)
  <2>1. s.input \in Seq(Tokens)
    BY <1>1 DEF Proxy
  <2> QED
    BY <2>1, ChainTaken
<1>4. u = IF n.htp = "error" THEN [n EXCEPT !.input = <<token>>]
          ELSE [n EXCEPT !.header_length = IF @ > MaxHeader THEN @ ELSE @ + 1]
  BY DEF Execute
<1>5. d # None => d.request_state # "MSG_COMPLETE"
  BY DEF Gate
<1> HIDE DEF q, u, token, d
<1>6. /\ n \in Proxy /\ n.pc = "request" /\ n.rdbits = {} /\ n.handler # "aborted"
      /\ n.handler = "open" /\ n.downstream # None /\ n.downstream.request_state = "MSG_COMPLETE" =>
            n.htp = "paused"
  <2>1. CASE token.t = "begin"
    <3>1. n = htp_msg_begin(q)
      BY <2>1 DEF RequestHook
    <3> HIDE DEF n
    <3>2. /\ n \in Proxy /\ Aside(q, n) /\ n.htp = q.htp
          /\ q.downstream = None => n.handler = q.handler /\ n.downstream = NewDownstream
          /\ q.downstream # None => n.handler = "crashed"
      BY <1>2, <3>1, BeginFields
    <3> QED
      BY <1>2, <3>2, NewFields DEF Aside
  <2>2. CASE token.t = "more"
    BY <1>2, <1>5, <2>2 DEF RequestHook
  <2>3. CASE token.t = "hdr"
    <3>1. d # None
      BY <1>3, <2>3 DEF Fits, Pos, d
    <3>2. n = htp_hdrs_completecb(q, token, ok) /\ token.body \in BOOLEAN
      BY <1>2, <2>3, TokenKinds DEF RequestHook
    <3> HIDE DEF n
    <3>3. /\ n \in Proxy /\ Aside(q, n) /\ n.handler = q.handler
          /\ \/ n.downstream.request_state = "CONNECT_FAIL"
             \/ /\ token.body => n.downstream.request_state = "HEADER_COMPLETE"
                /\ ~token.body => n.htp = "paused"
      BY <1>2, <2>3, <3>1, <3>2, HeadersFields
    <3> QED
      BY <1>2, <3>2, <3>3 DEF Aside
  <2>4. CASE token.t = "body"
    <3>1. d # None
      BY <1>3, <2>4 DEF Fits, Pos, d
    <3>2. n = htp_bodycb(q)
      BY <2>4 DEF RequestHook
    <3> HIDE DEF n
    <3>3. /\ n \in Proxy /\ Aside(q, n) /\ n.handler = q.handler
          /\ n.downstream.request_state = d.request_state
      BY <1>2, <3>1, <3>2, BodyFields
    <3> QED
      BY <1>2, <1>5, <3>1, <3>3 DEF Aside
  <2>5. CASE token.t = "end"
    <3>1. d # None
      BY <1>3, <2>5 DEF Fits, Pos, d
    <3>2. n = htp_msg_completecb(q)
      BY <2>5 DEF RequestHook
    <3> HIDE DEF n
    <3>3. n \in Proxy /\ Aside(q, n) /\ n.handler \in {q.handler, "crashed"} /\ n.htp = "paused"
      BY <1>2, <3>1, <3>2, CompleteFields
    <3> QED
      BY <1>2, <3>3 DEF Aside
  <2>6. CASE token.t = "bad"
    <3>1. n = [q EXCEPT !.htp = "error"]
      BY <2>6 DEF RequestHook
    <3> HIDE DEF n
    <3> QED
      BY <1>2, <1>5, <3>1 DEF Proxy
  <2> QED
    BY <1>2, <2>1, <2>2, <2>3, <2>4, <2>5, <2>6, TokenKinds
<1> HIDE DEF n
<1>7. /\ u.handler = n.handler /\ u.pc = n.pc /\ u.htp = n.htp /\ u.rdbits = n.rdbits
      /\ u.downstream = n.downstream
  BY <1>2, <1>4, <1>6, ExecutedFields
<1>8. Gate(u)
  BY <1>6, <1>7 DEF Gate
<1> QED
  BY <1>8 DEF u

\* The request parser has returned.
LEMMA ExecutedGate ==
    ASSUME NEW s, Sane(s), Gate(s), s.handler = "open", s.pc = "request"
    PROVE  LET u == on_read_executed(s) IN Gate(u) /\ u.early = s.early
<1> DEFINE m == [s EXCEPT !.pc = "loop", !.input = IF s.htp = "error" THEN <<Head(@)>> ELSE @]
           d == m.downstream
           u == on_read_executed(s)
<1>1. s \in Proxy /\ KeepsFailure(s) /\ s.rdbits = {}
  BY DEF Sane, Gate
<1>2. /\ m \in Proxy /\ m.pc = "loop" /\ m.handler = "open" /\ m.early = s.early
      /\ m.htp = s.htp /\ m.rdbits = {} /\ m.downstream = s.downstream
  BY <1>1, ReturnedFields
<1>3. u = CASE m.htp = "paused" /\ d = None -> Crash(m)
          [] m.htp = "paused" /\ d # None ->
               IF d.request_state = "CONNECT_FAIL" THEN close_with_error(m)
               ELSE IF d.request_state # "MSG_COMPLETE" THEN Crash(m)
               ELSE IF d.conn = "attached" THEN pause_read(m, "MSG_BLOCK")
               ELSE IF d.response_state = "MSG_COMPLETE" THEN delete_downstream(m)
               ELSE Crash(m)
          [] m.htp = "ok" /\ d # None ->
               IF d.request_state = "INITIAL" /\ m.header_length > MaxHeader
               THEN close_with_error(m)
               ELSE IF get_output_buffer_full(d) THEN pause_read(m, "NO_BUFFER") ELSE m
          [] m.htp = "ok" /\ d = None -> m
          [] m.htp = "error"          -> close_with_error(m)
  BY DEF on_read_executed
<1> HIDE DEF m, u
<1>4. m.htp \in {"ok", "paused", "error"} /\ (d # None /\ d.request_state = "MSG_COMPLETE" => m.htp = "paused")
  BY <1>2 DEF Proxy, Gate
<1>5. \/ u = Crash(m)
      \/ u = close_with_error(m) /\ (d # None => d.request_state # "MSG_COMPLETE")
      \/ u = pause_read(m, "MSG_BLOCK") /\ m.htp = "paused"
      \/ u = delete_downstream(m)
      \/ u \in {pause_read(m, "NO_BUFFER"), m} /\ (d # None => d.request_state # "MSG_COMPLETE")
  BY <1>3, <1>4
<1>6. CASE u = Crash(m)
  <2>1. u.handler = "crashed" /\ u.pc = m.pc /\ u.early = m.early
    BY <1>2, <1>6 DEF Crash, Proxy
  <2> QED
    BY <1>2, <2>1 DEF Gate, u
<1>7. CASE u = close_with_error(m) /\ (d # None => d.request_state # "MSG_COMPLETE")
  <2> DEFINE k == [m EXCEPT !.close_after_write = TRUE]
  <2>1. /\ k \in Proxy /\ k.handler = m.handler /\ k.pc = m.pc /\ k.downstream = d
        /\ k.early = m.early
    BY <1>2 DEF Proxy
  <2>2. u = error_reply(k)
    BY <1>7 DEF close_with_error
  <2> HIDE DEF k
  <2>3. /\ u.handler = k.handler /\ u.pc = k.pc /\ u.early = k.early
        /\ (u.downstream = None <=> d = None)
        /\ d # None => u.downstream.request_state = d.request_state
    BY <2>1, <2>2, ErrorReplyFields
  <2>4. Gate(u)
    BY <1>2, <1>7, <2>1, <2>3 DEF Gate
  <2> QED
    BY <1>2, <2>1, <2>3, <2>4 DEF u
<1>8. CASE u = pause_read(m, "MSG_BLOCK") /\ m.htp = "paused"
  <2>1. /\ u.handler = m.handler /\ u.pc = m.pc /\ u.early = m.early /\ u.htp = "paused"
        /\ "MSG_BLOCK" \in u.rdbits
    BY <1>2, <1>8, PauseFields
  <2> QED
    BY <1>2, <2>1 DEF Gate, u
<1>9. CASE u = delete_downstream(m)
  <2>1. u.handler = m.handler /\ u.pc = m.pc /\ u.early = m.early /\ u.downstream = None
    BY <1>2, <1>9, DeleteDownstreamFields
  <2> QED
    BY <1>2, <2>1 DEF Gate, u
<1>10. CASE u \in {pause_read(m, "NO_BUFFER"), m} /\ (d # None => d.request_state # "MSG_COMPLETE")
  <2>1. u.handler = m.handler /\ u.pc = m.pc /\ u.early = m.early /\ u.downstream = d
    BY <1>2, <1>10, PauseFields
  <2> QED
    BY <1>2, <1>10, <2>1 DEF Gate, u
<1> QED
  BY <1>5, <1>6, <1>7, <1>8, <1>9, <1>10

-----------------------------------------------------------------------------
(* The steps of the specification, in order.                               *)

\* A new connection is in order.
LEMMA InitOrderly == Init => OrderlyInv
<1>1. ASSUME px = Fresh PROVE Gate(px) /\ Orderly(px)
  BY <1>1, FreshFields DEF Gate, Orderly, PausedAtEnd, BlockedInside, UnreadBefore, AnswerOnce, AtMostOne
<1> QED
  BY <1>1 DEF Init, OrderlyInv

\* What a step has to show.
InOrder(s, u) == Gate(u) /\ (~u.early => Orderly(u) /\ Concludes(s, u))

\* The end of the connection.
LEMMA DeletedInOrder == ASSUME NEW s, NEW m PROVE InOrder(s, Delete(m))
  BY DeletedGate, DeletedOrderly DEF InOrder, Concludes

\* A step that changes nothing the invariant is about.
LEMMA SameInOrder ==
    ASSUME NEW s, NEW u, s.handler = "open", Gate(s), ~s.early => Orderly(s), Same(s, u), Marks(s, u)
    PROVE  InOrder(s, u)
<1>1. Gate(u)
  BY StillGate DEF Same, Aside
<1>2. ~u.early => Orderly(u) /\ Concludes(s, u)
  BY SameOrderly DEF Same, Marks, Concludes
<1> QED
  BY <1>1, <1>2 DEF InOrder

\* A step that changes the reader only.
LEMMA ReaderOrderly ==
    ASSUME NEW s, NEW u, Orderly(s), s.pc = "loop", u.pc # "loop", u.handler = s.handler, u.htp = s.htp,
           u.close_after_write = s.close_after_write, u.rdbits = s.rdbits,
           u.downstream = s.downstream, u.replies = s.replies, u.surplus = s.surplus,
           u.pc = "request" => s.rdbits = {},
           u.pc = "response" => s.downstream # None /\ s.downstream.request_state = "MSG_COMPLETE"
    PROVE  Orderly(u) /\ Concludes(s, u)
<1>1. PausedAtEnd(u) /\ BlockedInside(u) /\ UnreadBefore(u) /\ AtMostOne(u)
  BY DEF Orderly, PausedAtEnd, BlockedInside, UnreadBefore, AtMostOne
<1>2. AnswerOnce(u)
  <2>1. ASSUME ~s.close_after_write, ~s.surplus, s.downstream # None
        PROVE  Remaining(s.downstream, s.replies, u.pc)
    <3>1. Remaining(s.downstream, s.replies, "loop") /\ Alike(s.downstream, s.downstream)
      BY <2>1 DEF Orderly, AnswerOnce, Alike
    <3> QED
      BY <3>1, RemainingAlike
  <2> QED
    BY <2>1 DEF AnswerOnce
<1> QED
  BY <1>1, <1>2 DEF Orderly, Concludes

\* An event of the backend connection: before the end of the request it is early.
LEMMA EventInOrder ==
    ASSUME NEW s, NEW t, NEW u, NEW event, Sane(s), Gate(s), ~s.early => Orderly(s), s.handler = "open",
           s.downstream # None, s.pc = "loop", Same(s, t), t.surplus = s.surplus,
           t.early = (s.early \/ s.downstream.request_state # "MSG_COMPLETE"),
           u = https_downstream_eventcb(t, event)
    PROVE  InOrder(s, u)
<1>1. /\ t \in Proxy /\ t.handler = "open" /\ t.downstream # None /\ t.pc = "loop" /\ Sane(t)
      /\ t.downstream.request_state = s.downstream.request_state /\ t.htp = s.htp /\ t.rdbits = s.rdbits
  BY SameSane DEF Same, Aside
<1>2. Gate(t)
  BY <1>1, StillGate
<1>3. Gate(u) /\ (u.early = t.early \/ \E m : u = Delete(m))
  BY <1>1, <1>2, EventcbGate
<1>4. CASE \E m : u = Delete(m)
  BY <1>4, DeletedInOrder
<1>5. CASE u.early = t.early
  <2>1. ASSUME ~u.early PROVE Orderly(u) /\ Concludes(s, u)
    <3>1. s.downstream.request_state = "MSG_COMPLETE" /\ Orderly(s)
      BY <1>5, <2>1
    <3>2. Orderly(t)
      BY <3>1, SameOrderly
    <3>3. Orderly(u) /\ Concludes(t, u)
      BY <1>1, <3>1, <3>2, EventcbOrderly
    <3> QED
      BY <1>1, <3>3 DEF Concludes
  <2> QED
    BY <1>3, <2>1 DEF InOrder
<1> QED
  BY <1>3, <1>4, <1>5

\* Every step keeps the proxy in order, and lets no request go unanswered.
LEMMA NextOrderly ==
    ASSUME IndInv, OrderlyInv, [Next]_vars
    PROVE  OrderlyInv' /\ (~px'.early => Concludes(px, px'))
<1>0. Sane(px) /\ px \in Proxy /\ wire \in Seq(Tokens) /\ Gate(px) /\ (~px.early => Orderly(px))
  BY DEF IndInv, TypeOK, OrderlyInv
<1> SUFFICES InOrder(px, px')
  BY DEF OrderlyInv, InOrder
<1>1. CASE ClientSend \/ ClientSendMalformed \/ UNCHANGED vars
  BY <1>0, <1>1 DEF ClientSend, ClientSendMalformed, vars, InOrder, Concludes
<1>2. CASE upstream_readcb
  <2>1. /\ wire # <<>> /\ px' = on_read([px EXCEPT !.input = @ \o wire]) /\ px.rdbits = {}
        /\ px.pc = "loop" /\ px.handler = "open"
    BY <1>2 DEF upstream_readcb, Waiting, Open
  <2>2. /\ px'.pc = "request" /\ px'.handler = px.handler /\ px'.htp = px.htp
        /\ px'.close_after_write = px.close_after_write /\ px'.rdbits = px.rdbits
        /\ px'.downstream = px.downstream /\ px'.replies = px.replies /\ px'.early = px.early
        /\ px'.surplus = px.surplus
    BY <1>0, <2>1, ReceivedFields
  <2>3. Gate(px')
    BY <1>0, <2>1, <2>2 DEF Gate
  <2>4. ~px'.early => Orderly(px') /\ Concludes(px, px')
    BY <1>0, <2>1, <2>2, ReaderOrderly
  <2> QED
    BY <2>3, <2>4 DEF InOrder
<1>3. CASE upstream_writecb
  <2>1. CASE px.close_after_write
    BY <1>3, <2>1, DeletedInOrder DEF upstream_writecb
  <2>2. CASE ~px.close_after_write
    <3>1. Same(px, px') /\ Marks(px, px') /\ px.handler = "open"
      BY <1>0, <1>3, <2>2, SentSame DEF upstream_writecb, Waiting, Open
    <3> QED
      BY <1>0, <3>1, SameInOrder
  <2> QED
    BY <2>1, <2>2
<1>4. CASE upstream_eventcb
  BY <1>4, DeletedInOrder DEF upstream_eventcb
<1>5. CASE downstream_read
  <2>1. px.downstream # None /\ px.pc = "loop" /\ px.handler = "open"
    BY <1>5 DEF downstream_read, Attached, Waiting, Open
  <2>2. /\ px'.pc = "response" /\ px'.handler = px.handler /\ px'.htp = px.htp
        /\ px'.close_after_write = px.close_after_write /\ px'.rdbits = px.rdbits
        /\ px'.downstream = px.downstream /\ px'.replies = px.replies /\ px'.surplus = px.surplus
        /\ px'.early = (px.early \/ px.downstream.request_state # "MSG_COMPLETE")
    BY <1>0, <1>5, ReadFields
  <2>3. Gate(px')
    BY <1>0, <2>1, <2>2, StillGate
  <2>4. ~px'.early => Orderly(px') /\ Concludes(px, px')
    BY <1>0, <2>1, <2>2, ReaderOrderly
  <2> QED
    BY <2>3, <2>4 DEF InOrder
<1>6. CASE downstream_event
  <2>1. px.downstream # None /\ px.pc = "loop" /\ px.handler = "open"
    BY <1>6 DEF downstream_event, Attached, Waiting, Open
  <2>2. PICK s, event : /\ s = [WithEvent(px) EXCEPT !.downstream.ev_read = FALSE]
                        /\ px' = https_downstream_eventcb(s, event)
    BY <1>6 DEF downstream_event
  <2>3. /\ Same(px, s) /\ s.surplus = px.surplus
        /\ s.early = (px.early \/ px.downstream.request_state # "MSG_COMPLETE")
    BY <1>0, <2>1, <2>2, EventFields
  <2> QED
    BY <1>0, <2>1, <2>2, <2>3, EventInOrder
<1>7. CASE downstream_write
  <2>1. px.downstream # None /\ px.downstream.conn = "attached" /\ px.pc = "loop" /\ px.handler = "open"
    BY <1>7 DEF downstream_write, Attached, Waiting, Open
  <2>2. CASE px' = resume_read([px EXCEPT !.downstream.tx = 0], "NO_BUFFER")
    <3> DEFINE s == [px EXCEPT !.downstream.tx = 0]
    <3>1. Same(px, s) /\ Marks(px, s)
      BY <1>0, <2>1, WrittenSame
    <3> HIDE DEF s
    <3>2. /\ Sane(s) /\ s \in Proxy /\ s.downstream # None /\ s.pc = "loop" /\ s.handler = "open"
          /\ s.downstream.conn = "attached" /\ Gate(s) /\ (~s.early => Orderly(s))
      BY <1>0, <2>1, <3>1, SameSane, SameInOrder DEF Same, Aside, Marks, InOrder
    <3>3. px' = resume_read(s, "NO_BUFFER") /\ px'.early = s.early
      BY <2>2, <3>2, ResumeFields DEF s
    <3>4. Gate(px')
      BY <3>2, <3>3, WriteGate
    <3>5. ~px'.early => Orderly(px') /\ Concludes(s, px')
      BY <3>2, <3>3, WriteOrderly
    <3> QED
      BY <2>1, <3>2, <3>4, <3>5 DEF InOrder, Concludes
  <2>3. ASSUME NEW event, px' = https_downstream_eventcb([WithEvent(px) EXCEPT !.downstream.ev_write = FALSE], event)
        PROVE  InOrder(px, px')
    <3>1. PICK s : /\ s = [WithEvent(px) EXCEPT !.downstream.ev_write = FALSE]
                   /\ px' = https_downstream_eventcb(s, event)
      BY <2>3
    <3>2. /\ Same(px, s) /\ s.surplus = px.surplus
          /\ s.early = (px.early \/ px.downstream.request_state # "MSG_COMPLETE")
      BY <1>0, <2>1, <3>1, EventFields
    <3> QED
      BY <1>0, <2>1, <3>1, <3>2, EventInOrder
  <2> QED
    BY <1>7, <2>2, <2>3 DEF downstream_write
<1>8. CASE ParseRequest
  <2>1. px.handler = "open" /\ px.pc = "request"
    BY <1>8 DEF ParseRequest, Open
  <2>2. CASE px.htp = "ok" /\ px.input # <<>>
    <3>1. PICK ok \in BOOLEAN : px' = Execute(px, ok)
      BY <1>8, <2>2 DEF ParseRequest
    <3>2. Chained(Pos(px), px.input \o wire, client.phase)
      BY <2>1, <2>2 DEF IndInv, StreamOK, Open
    <3>3. Gate(px')
      BY <1>0, <2>1, <2>2, <3>1, <3>2, ExecuteGate
    <3>4. CASE Head(px.input).t = "begin"
      <4>1. Orderly(px') /\ Concludes(px, px')
        BY <1>0, <2>1, <2>2, <3>1, <3>2, <3>4, BeginOrderly
      <4> QED
        BY <3>3, <4>1 DEF InOrder
    <3>5. CASE Head(px.input).t # "begin"
      <4>1. px'.early = px.early
        BY <1>0, <2>1, <2>2, <3>1, <3>2, <3>5, ExecuteEarly
      <4>2. Orderly(px) => Orderly(px') /\ Concludes(px, px')
        BY <1>0, <2>1, <2>2, <3>1, <3>2, <3>5, ExecuteOrderly
      <4> QED
        BY <1>0, <3>3, <4>1, <4>2 DEF InOrder
    <3> QED
      BY <3>4, <3>5
  <2>3. CASE ~(px.htp = "ok" /\ px.input # <<>>)
    <3>1. px' = on_read_executed(px)
      BY <1>8, <2>3 DEF ParseRequest
    <3>2. Gate(px') /\ px'.early = px.early
      BY <1>0, <2>1, <3>1, ExecutedGate
    <3>3. Orderly(px) => Orderly(px') /\ Concludes(px, px')
      BY <1>0, <2>1, <3>1, ExecutedOrderly
    <3> QED
      BY <1>0, <3>2, <3>3 DEF InOrder
  <2> QED
    BY <2>2, <2>3
<1>9. CASE ParseResponse
  <2>1. px.pc = "response" /\ px.handler = "open" /\ px.downstream # None
    BY <1>0, <1>9 DEF ParseResponse, Open, Sane, ReadsAttached
  <2>2. CASE px.downstream.rx # <<>>
    <3>1. px' = parse_http_response(px)
      BY <1>9, <2>2 DEF ParseResponse
    <3>2. /\ px'.downstream # None /\ px'.early = px.early
          /\ px'.handler = px.handler /\ px'.pc = px.pc /\ px'.htp = px.htp /\ px'.rdbits = px.rdbits
          /\ px'.downstream.request_state = px.downstream.request_state
      BY <1>0, <2>1, <2>2, <3>1, ParseResponseFields
    <3>3. Gate(px')
      BY <1>0, <2>1, <3>2, StillGate
    <3>4. Orderly(px) => Orderly(px') /\ Concludes(px, px')
      BY <1>0, <2>1, <2>2, <3>1, ParseResponseOrderly
    <3> QED
      BY <1>0, <3>2, <3>3, <3>4 DEF InOrder
  <2>3. CASE px.downstream.rx = <<>>
    <3>1. px' = https_downstream_readcb(px)
      BY <1>9, <2>3 DEF ParseResponse
    <3>2. Gate(px') /\ (px'.early = px.early \/ \E m : px' = Delete(m))
      BY <1>0, <2>1, <3>1, ReadcbGate
    <3>3. Orderly(px) => Orderly(px') /\ Concludes(px, px')
      BY <1>0, <2>1, <2>3, <3>1, ReadcbOrderly
    <3> QED
      BY <1>0, <3>2, <3>3, DeletedInOrder DEF InOrder
  <2> QED
    BY <2>2, <2>3
<1>10. CASE BackendAnswer
  <2>1. px.downstream # None /\ px.pc = "loop" /\ px.handler = "open"
    BY <1>10, BackendPieces DEF Attached, Waiting, Open
  <2>2. PICK piece \in Pieces : \E to \in {"silent", "headed", "garbled", "ended", "closed", "failed"} :
          /\ Answers(piece, px.downstream.backend, to) /\ px' = Grown(px, piece, to)
          /\ piece = "body" => px.downstream.pieces < MaxBody
    BY <1>10, BackendPieces
  <2>3. /\ px'.downstream # None /\ Aside(px, px') /\ px'.handler = px.handler /\ px'.htp = px.htp
        /\ px'.early = px.early /\ px'.downstream.request_state = px.downstream.request_state
    BY <1>0, <2>1, <2>2, BackendFields
  <2>4. Gate(px')
    BY <1>0, <2>1, <2>3, StillGate DEF Aside
  <2>5. Orderly(px) => Orderly(px') /\ Concludes(px, px')
    BY <1>0, <2>1, <2>2, AnswerOrderly
  <2> QED
    BY <1>0, <2>3, <2>4, <2>5 DEF InOrder
<1>11. CASE BackendStop
  <2>1. PICK how \in {"closed", "failed"} : px' = [px EXCEPT !.downstream.backend = how]
    BY <1>11 DEF BackendStop
  <2>2. px.downstream # None /\ px.handler = "open"
    BY <1>11 DEF BackendStop, Attached, Waiting, Open
  <2>3. /\ px'.downstream # None /\ Aside(px, px') /\ px'.handler = px.handler /\ px'.htp = px.htp
        /\ px'.early = px.early /\ px'.downstream.request_state = px.downstream.request_state
    BY <1>0, <2>1, <2>2, StopFields
  <2>4. Gate(px')
    BY <1>0, <2>2, <2>3, StillGate DEF Aside
  <2>5. Orderly(px) => Orderly(px') /\ Concludes(px, px')
    BY <1>0, <2>1, <2>2, StopOrderly
  <2> QED
    BY <1>0, <2>3, <2>4, <2>5 DEF InOrder
<1>12. CASE idle_eventcb
  <2>1. px.pool > 0 /\ px' = [px EXCEPT !.pool = @ - 1] /\ px.handler = "open"
    BY <1>12 DEF idle_eventcb, Waiting, Open
  <2>2. /\ Aside(px, px') /\ px'.handler = px.handler /\ px'.htp = px.htp
        /\ px'.downstream = px.downstream /\ px'.replies = px.replies /\ px'.early = px.early
        /\ px'.surplus = px.surplus
    BY <1>0, <2>1, IdleFields
  <2>3. Gate(px')
    BY <1>0, <2>1, <2>2, StillGate, ZenonT(60) DEF Aside
  <2>4. Orderly(px) => Orderly(px') /\ Concludes(px, px')
    BY <1>0, <2>2 DEF Orderly, PausedAtEnd, BlockedInside, UnreadBefore, AnswerOnce, AtMostOne, Aside,
                      Concludes
  <2> QED
    BY <1>0, <2>2, <2>3, <2>4 DEF InOrder
<1> QED
  BY <1>1, <1>2, <1>3, <1>4, <1>5, <1>6, <1>7, <1>8, <1>9, <1>10, <1>11, <1>12
     DEF Next, DownstreamStep, ParserStep

-----------------------------------------------------------------------------
(* Theorems about the order of requests and answers, for any backend.       *)

\* The parser and the client's connection stay in order whatever the backend does, the
\* answer as long as the backend connection has no event before the request is complete.
THEOREM Order == Spec => []OrderlyInv
<1>1. Init => OrderlyInv
  BY InitOrderly
<1>2. IndInv /\ OrderlyInv /\ [Next]_vars => OrderlyInv'
  BY NextOrderly
<1> QED
  BY <1>1, <1>2, Invariance, PTL DEF Spec

\* The process stops only while, or because, a backend connection has an event during an
\* upload: apart from that no assertion of htp_msg_begin and on_read fails, end_upload_data
\* finds its connection, and no failed parser is unpaused.
THEOREM StopsInUpload == Spec => []StopsOnlyInUpload
<1>1. OrderlyInv => StopsOnlyInUpload
  BY DEF OrderlyInv, Gate, Orderly, StopsOnlyInUpload
<1> QED
  BY <1>1, Order, PTL

\* A request whose connection is kept is answered at most once, by the backend or by the
\* proxy's own error_reply, unless its backend connection had an event before the request
\* was complete or bytes behind the answer.
THEOREM RepliesOnce == Spec => []OneReplyPerRequest
<1>1. OrderlyInv => OneReplyPerRequest
  BY DEF OrderlyInv, Orderly, AtMostOne, OneReplyPerRequest
<1> QED
  BY <1>1, Order, PTL

\* With the same two exceptions no request is dropped: before the next one is parsed
\* exactly one head has been written for it.
THEOREM NoneDropped == Spec => AnsweredBeforeNext
<1>1. IndInv /\ OrderlyInv /\ [Next]_vars =>
          [px.downstream # None /\ px'.downstream = None /\ px'.handler = "open"
           /\ ~px'.close_after_write /\ ~px'.early /\ ~px'.surplus => px'.replies = 1]_vars
  BY NextOrderly DEF Concludes
<1> QED
  BY <1>1, Invariance, Order, PTL DEF Spec, AnsweredBeforeNext
=============================================================================
