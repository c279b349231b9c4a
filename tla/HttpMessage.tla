----------------------------- MODULE HttpMessage -----------------------------
(***************************************************************************)
(* The reference for HttpParser: messages described by their parts, the bytes   *)
(* that write them down (RFC 2616), and the callbacks those bytes stand for.       *)
(* Nothing here is taken from the parser's state machine, with two exceptions: the     *)
(* rest of a connection after CONNECT or Upgrade is a body, as the comment in              *)
(* s_headers_done has it (the parser's README and tests say that parsing stops), and a      *)
(* length that wraps unnoticed stands for what is left of it.                                *)
(***************************************************************************)
EXTENDS Integers, Sequences, SequencesExt, TLC

CRLF == <<"CR", "LF">>
HTTP(minor) == <<"H", "T", "T", "P", "/", "1", ".", minor>>

Nothing == [bytes |-> <<>>, events |-> <<>>]

\* bytes that no callback gets
Skip(r, bytes) == [r EXCEPT !.bytes = @ \o bytes]

\* bytes that the callback cb gets
Data(r, cb, bytes) ==
    [bytes |-> r.bytes \o bytes,
     events |-> Append(r.events, [cb |-> cb, from |-> Len(r.bytes) + 1,
                                  to |-> Len(r.bytes) + Len(bytes)])]

Event(r, event) == [r EXCEPT !.events = Append(@, event)]

\* A header line: the name and the parts of its value, one per continuation line.
Header(r, h) ==
    LET named == Skip(Data(r, "header_field", h.name), <<":", "SP">>)
        value(q, part) == Skip(Data(q, "header_value", part), CRLF)
        first == value(named, Head(h.values))
    IN  FoldLeft(LAMBDA q, part : value(Skip(q, <<"SP">>), part), first, Tail(h.values))

Headers(r, hs) == FoldLeft(Header, r, hs)

Body(r, bytes) == IF bytes = <<>> THEN r ELSE Data(r, "body", bytes)

\* A chunk with its size, or with its size and a parameter.
Chunk(r, chunk) == Skip(Data(Skip(r, chunk.size \o CRLF), "body", chunk.data), CRLF)

\* How a body is delimited: by its length or the end of the connection, or in chunks
\* followed by a trailer.
Framed(r, m) ==
    IF m.chunks = <<>> THEN Body(r, m.body)
    ELSE Skip(Headers(Skip(FoldLeft(Chunk, r, m.chunks), <<"0">> \o CRLF), m.trailer), CRLF)

\* A url is described by its parts, a function from the names of the fields that are
\* there; an address in a host has colons and is written in brackets.
UrlOrder == <<"SCHEMA", "USERINFO", "HOST", "PORT", "PATH", "QUERY", "FRAGMENT">>
Address(uf, data) == uf = "HOST" /\ ":" \in Range(data)
UrlBefore(uf, data) ==
    CASE uf = "PORT" -> <<":">> [] uf = "QUERY" -> <<"?">> [] uf = "FRAGMENT" -> <<"#">>
      [] Address(uf, data) -> <<"[">> [] OTHER -> <<>>
UrlAfter(uf, data) ==
    CASE uf = "SCHEMA" -> <<":", "/", "/">> [] uf = "USERINFO" -> <<"@">>
      [] Address(uf, data) -> <<"]">> [] OTHER -> <<>>

UrlPart(r, uf, data) ==
    LET before == r.bytes \o UrlBefore(uf, data)
    IN  [bytes |-> before \o data \o UrlAfter(uf, data),
         fields |-> IF data = <<>> THEN r.fields
                    ELSE (uf :> [off |-> Len(before) + 1, len |-> Len(data)]) @@ r.fields]

NoUrl == [bytes |-> <<>>, fields |-> [none \in {} |-> 0]]

\* The bytes of a url, and where its fields are in it.
UrlOf(parts) ==
    FoldLeft(LAMBDA r, uf : IF uf \in DOMAIN parts THEN UrlPart(r, uf, parts[uf]) ELSE r,
             NoUrl, UrlOrder)

\* The start line of a request and of a response.
RequestLine(r, m) ==
    Skip(Data(Skip(Event(r, [cb |-> "message_begin"]), m.start \o <<"SP">>), "url", UrlOf(m.url).bytes),
         IF m.minor = "none" THEN <<"LF">> ELSE <<"SP">> \o HTTP(m.minor) \o CRLF)

StatusLine(r, m) ==
    Skip(Event(r, [cb |-> "message_begin"]), HTTP(m.minor) \o <<"SP">> \o m.start \o CRLF)

\* A whole message after what r stands for; m.empty is the empty line after the headers.
Message(r, m) ==
    LET start == IF m.type = "request" THEN RequestLine(r, m) ELSE StatusLine(r, m)
        headed == Event(Skip(Headers(start, m.headers), m.empty),
                        [cb |-> "headers_complete", method |-> m.method, status |-> m.status,
                         keep_alive |-> m.keep_alive, upgrade |-> m.upgrade])
    IN  Event(Framed(headed, m), [cb |-> "message_complete"])

\* What the parser is given: messages that follow each other on a connection.
Input(messages, skip) ==
    LET r == FoldLeft(Message, Nothing, messages)
        url(m) == [connect |-> m.method = "CONNECT", parts |-> m.url,
                   ok |-> m.valid, fields |-> IF m.valid THEN UrlOf(m.url).fields ELSE NoUrl.fields]
    IN  [type |-> messages[1].type, bytes |-> r.bytes, events |-> r.events, errno |-> "OK", skip |-> skip,
         urls |-> [k \in DOMAIN messages |-> url(messages[k])]]

\* An input with a byte that is wrong, and what is wrong with it.
Broken(in, k, byte, errno) == [in EXCEPT !.bytes[k] = byte, !.errno = errno]

\* An input that ends too early.
Cut(in, k) == [in EXCEPT !.bytes = SubSeq(@, 1, k), !.errno = "INVALID_EOF_STATE"]

=============================================================================
