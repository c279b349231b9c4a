----------------------------- MODULE HttpParser -----------------------------
(***************************************************************************)
(* http_parser.c (strict build): the incremental HTTP parser that the proxy   *)
(* feeds with whatever a read returned.  A byte of the input is a step; a call   *)
(* of http_parser_execute begins and ends at any byte; a callback may pause the    *)
(* parser, after which the caller unpauses it and passes again what was not          *)
(* consumed, or fail.                                                                 *)
(*                                                                         *)
(* The arms of a CASE are tried in order, like the code's: the first that  *)
(* applies is taken.                                                       *)
(*                                                                         *)
(* Bytes are symbols, one string per character or character class.  The names  *)
(* that are matched letter by letter are abbreviated.  A callback is recorded     *)
(* with the range of input bytes it was given.                                     *)
(***************************************************************************)
EXTENDS Uri, FiniteSets

CONSTANTS
    Inputs,          \* [type, bytes, events, urls, errno, skip]: what is parsed and what should result
    ULLONG_MAX,      \* 2^64 - 1 in the code
    MaxHeaderSize,   \* HTTP_MAX_HEADER_SIZE
    MaxEofCalls      \* bound: calls without bytes at the end of the connection

ASSUME HttpParserAssumption ==
    /\ ULLONG_MAX \in Nat /\ MaxHeaderSize \in Nat /\ MaxEofCalls \in Nat \ {0}
    /\ \A i \in Inputs : i.type \in {"request", "response", "both"}

VARIABLES
    input,     \* the input being parsed
    parser,    \* struct http_parser
    p, limit,  \* next byte, and data + len of the call (0: between two calls)
    counted,   \* nread counts the byte at p already (reexecute_byte)
    mark,      \* the four local marks of http_parser_execute, 0 for NULL
    events,    \* the callbacks so far, adjacent data of the same kind joined
    eofs,      \* calls without bytes so far
    done       \* the caller has stopped: end of input, or an error

vars == <<input, parser, p, limit, counted, mark, events, eofs, done>>

\* The literals that are matched in header lines, abbreviated.
CONNECTION == <<"c","o","n","n","e">>
PROXY_CONNECTION == <<"p","x">>
CONTENT_LENGTH == <<"c","o","n","t","e">>
TRANSFER_ENCODING == <<"t","e">>
UPGRADE == <<"u","p">>
CHUNKED == <<"c","h">>
KEEP_ALIVE == <<"k","a">>
CLOSE == <<"c","l">>

\* the states of which PARSING_HEADER is false
BodyStates == {"s_chunk_data", "s_chunk_data_almost_done", "s_chunk_data_done",
               "s_body_identity", "s_body_identity_eof", "s_message_done"}
UrlStates == {"s_req_path", "s_req_schema", "s_req_schema_slash", "s_req_schema_slash_slash",
              "s_req_server_start", "s_req_server", "s_req_server_with_at",
              "s_req_query_string_start", "s_req_query_string", "s_req_fragment_start",
              "s_req_fragment"}

\* the header states while a name is read
FieldStates == {"h_general", "h_C", "h_CO", "h_CON", "h_matching_connection",
                "h_matching_proxy_connection", "h_matching_content_length",
                "h_matching_transfer_encoding", "h_matching_upgrade", "h_connection",
                "h_content_length", "h_transfer_encoding", "h_upgrade"}

NoMarks == [header_field |-> 0, header_value |-> 0, url |-> 0, body |-> 0]

start_state(type) == IF type = "request" THEN "s_start_req" ELSE "s_start_res"

http_parser_init(type) ==
    [type |-> type, header_state |-> "h_general", index |-> 0,
     nread |-> 0, flags |-> {}, content_length |-> 0, major |-> 0, minor |-> 0, status |-> 0,
     method |-> "DELETE", upgrade |-> FALSE, errno |-> "OK",
     state |-> IF type = "both" THEN "s_start_req_or_res" ELSE start_state(type)]

Init == /\ input \in Inputs
        /\ parser = http_parser_init(input.type)
        /\ p = 1 /\ limit = 0 /\ counted = FALSE /\ mark = NoMarks
        /\ events = <<>> /\ eofs = 0 /\ done = FALSE

-----------------------------------------------------------------------------
(* What a message needs.                                                    *)

http_message_needs_eof(ps) ==
    /\ ps.type = "response"
    /\ ps.status \div 100 # 1 /\ ps.status \notin {204, 304} /\ "SKIPBODY" \notin ps.flags
    /\ "CHUNKED" \notin ps.flags /\ ps.content_length = ULLONG_MAX

http_should_keep_alive(ps) ==
    /\ IF ps.major > 0 /\ ps.minor > 0 THEN "CLOSE" \notin ps.flags ELSE "KEEP_ALIVE" \in ps.flags
    /\ ~http_message_needs_eof(ps)

NEW_MESSAGE(ps) == IF http_should_keep_alive(ps) THEN start_state(ps.type) ELSE "s_dead"

-----------------------------------------------------------------------------
(* The transition on one byte: the new parser, the callback it runs, the mark  *)
(* it sets, and whether the byte is executed again.                            *)

Go(ps) == [parser |-> ps, cb |-> "none", mark |-> "none", again |-> FALSE]
Goto(state) == Go([parser EXCEPT !.state = state])
Stay == Go(parser)
Fail(errno) == Go([parser EXCEPT !.errno = errno])
Notify(ps, cb) == [Go(ps) EXCEPT !.cb = cb]
Again(r) == [r EXCEPT !.again = TRUE]
Marking(r, kind) == [r EXCEPT !.mark = kind]
Expect(ch, wanted, state, errno) == IF ch = wanted THEN Goto(state) ELSE Fail(errno)

Begin(state) == [parser EXCEPT !.state = state, !.flags = {}, !.content_length = ULLONG_MAX]

\* s_dead
DeadState(ch) == IF ch \in {"CR", "LF"} THEN Stay ELSE Fail("CLOSED_CONNECTION")

\* s_start_req_or_res: anything but an H begins a request
StartEither(ch) ==
    CASE ch \in {"CR", "LF"}   -> Stay
      [] ch = "H"              -> Notify(Begin("s_res_or_resp_H"), "message_begin")
      [] OTHER                 -> Again(Go([Begin("s_start_req") EXCEPT !.type = "request"]))

\* s_res_or_resp_H: HTTP or HEAD
EitherH(ch) ==
    CASE ch = "T"   -> Go([parser EXCEPT !.type = "response", !.state = "s_res_HT"])
      [] ch = "E"   -> Go([parser EXCEPT !.type = "request", !.method = "HEAD", !.index = 2,
                                         !.state = "s_req_method"])
      [] OTHER      -> Fail("INVALID_CONSTANT")

\* s_start_res: the line ends before a response count as its beginning, too
StartResponse(ch) ==
    CASE ch = "H"              -> Notify(Begin("s_res_H"), "message_begin")
      [] ch \in {"CR", "LF"}   -> Notify(Begin("s_start_res"), "message_begin")
      [] OTHER                 -> Fail("INVALID_CONSTANT")

\* one digit more of a number that must stay below 1000
Digit(ps, field, ch, errno) ==
    IF ~IS_NUM(ch) \/ 10 * ps[field] + Digits[ch] > 999 THEN Fail(errno)
    ELSE Go([ps EXCEPT ![field] = 10 * @ + Digits[ch]])

FirstDigit(field, ch, state, errno) ==
    IF ~IS_NUM(ch) THEN Fail(errno)
    ELSE Go([parser EXCEPT !.state = state, ![field] = Digits[ch]])

\* s_res_H .. s_res_line_almost_done
ResponseLine(ch) ==
    LET s == parser.state
    IN  CASE s = "s_res_H"    -> Expect(ch, "T", "s_res_HT", "STRICT")
          [] s = "s_res_HT"   -> Expect(ch, "T", "s_res_HTT", "STRICT")
          [] s = "s_res_HTT"  -> Expect(ch, "P", "s_res_HTTP", "STRICT")
          [] s = "s_res_HTTP" -> Expect(ch, "/", "s_res_first_http_major", "STRICT")
          [] s = "s_res_first_http_major" -> FirstDigit("major", ch, "s_res_http_major", "INVALID_VERSION")
          [] s = "s_res_http_major" /\ ch = "." -> Goto("s_res_first_http_minor")
          [] s = "s_res_http_major" -> Digit(parser, "major", ch, "INVALID_VERSION")
          [] s = "s_res_first_http_minor" -> FirstDigit("minor", ch, "s_res_http_minor", "INVALID_VERSION")
          [] s = "s_res_http_minor" /\ ch = "SP" -> Goto("s_res_first_status_code")
          [] s = "s_res_http_minor" -> Digit(parser, "minor", ch, "INVALID_VERSION")
          [] s = "s_res_first_status_code" /\ ch = "SP" -> Stay
          [] s = "s_res_first_status_code" -> FirstDigit("status", ch, "s_res_status_code", "INVALID_STATUS")
          [] s = "s_res_status_code" /\ ch = "SP" -> Goto("s_res_status")
          [] s \in {"s_res_status_code", "s_res_status"} /\ ch = "CR" -> Goto("s_res_line_almost_done")
          [] s \in {"s_res_status_code", "s_res_status"} /\ ch = "LF" -> Goto("s_header_field_start")
          [] s = "s_res_status_code" -> Digit(parser, "status", ch, "INVALID_STATUS")
          [] s = "s_res_status" -> Stay
          [] OTHER -> Expect(ch, "LF", "s_header_field_start", "STRICT")

\* s_start_req: the first letter selects the first method that begins with it
first_method == [C |-> "CONNECT", D |-> "DELETE", G |-> "GET", H |-> "HEAD", L |-> "LOCK",
                 M |-> "MKCOL", N |-> "NOTIFY", O |-> "OPTIONS", P |-> "POST", R |-> "REPORT",
                 S |-> "SUBSCRIBE", T |-> "TRACE", U |-> "UNLOCK"]

StartRequest(ch) ==
    CASE ch \in {"CR", "LF"}         -> Stay
      [] ch \in DOMAIN first_method  -> Notify([Begin("s_req_method") EXCEPT !.method = first_method[ch],
                                                                            !.index = 1], "message_begin")
      [] OTHER                       -> Fail("INVALID_METHOD")

\* the methods that are recognised only by a later letter
other_method == [CONNECT |-> {<<1, "H", "CHECKOUT">>, <<2, "P", "COPY">>},
                 MKCOL |-> {<<1, "O", "MOVE">>, <<1, "E", "MERGE">>, <<1, "-", "MSEARCH">>,
                            <<2, "A", "MKACTIVITY">>},
                 SUBSCRIBE |-> {<<1, "E", "SEARCH">>},
                 POST |-> {<<1, "R", "PROPFIND">>, <<1, "U", "PUT">>, <<1, "A", "PATCH">>},
                 PUT |-> {<<2, "R", "PURGE">>}, UNLOCK |-> {<<2, "S", "UNSUBSCRIBE">>},
                 PROPFIND |-> {<<4, "P", "PROPPATCH">>}]

\* s_req_method.  A third letter that fits no method is accepted, except after the
\* methods that are looked at before the index is.
RequestMethod(ch) ==
    LET name == method_strings[parser.method]
        k == parser.index
        others == {o \in IF parser.method \in DOMAIN other_method THEN other_method[parser.method] ELSE {} :
                     o[1] = k /\ o[2] = ch}
        next == [parser EXCEPT !.index = k + 1]
    IN  CASE ch = "SP" /\ k = Len(name) -> Go([next EXCEPT !.state = "s_req_spaces_before_url"])
          [] k < Len(name) /\ name[k + 1] = ch -> Go(next)
          [] others # {} -> Go([next EXCEPT !.method = (CHOOSE o \in others : TRUE)[3]])
          [] parser.method \in {"CONNECT", "MKCOL", "SUBSCRIBE"} -> Fail("UNKNOWN")
          [] k = 1 /\ parser.method = "POST" -> Fail("UNKNOWN")
          [] k = 2 -> Go(next)
          [] OTHER -> Fail("INVALID_METHOD")

-----------------------------------------------------------------------------
(* The url.                                                                 *)

UrlChar(s, ch) ==
    LET t == parse_url_char(s, ch)
    IN  IF t = "s_dead" THEN Go([parser EXCEPT !.state = t, !.errno = "INVALID_URL"]) ELSE Goto(t)

\* s_req_spaces_before_url .. s_req_fragment: the url ends with a space, or with the
\* line (HTTP/0.9)
Url(ch) ==
    LET s == parser.state
    IN  CASE s = "s_req_spaces_before_url" /\ ch = "SP" -> Stay
          [] s = "s_req_spaces_before_url" ->
               Marking(UrlChar(IF parser.method = "CONNECT" THEN "s_req_server_start" ELSE s, ch), "url")
          [] s \in {"s_req_schema", "s_req_schema_slash", "s_req_schema_slash_slash", "s_req_server_start"} ->
               IF ch \in {"SP", "CR", "LF"} THEN Fail("INVALID_URL") ELSE UrlChar(s, ch)
          [] ch = "SP" -> Notify([parser EXCEPT !.state = "s_req_http_start"], "url")
          [] ch \in {"CR", "LF"} ->
               Notify([parser EXCEPT !.major = 0, !.minor = 9,
                                     !.state = IF ch = "CR" THEN "s_req_line_almost_done"
                                               ELSE "s_header_field_start"], "url")
          [] OTHER -> UrlChar(s, ch)

\* s_req_http_start .. s_req_line_almost_done
RequestVersion(ch) ==
    LET s == parser.state
    IN  CASE s = "s_req_http_start" /\ ch = "SP" -> Stay
          [] s = "s_req_http_start" -> Expect(ch, "H", "s_req_http_H", "INVALID_CONSTANT")
          [] s = "s_req_http_H"    -> Expect(ch, "T", "s_req_http_HT", "STRICT")
          [] s = "s_req_http_HT"   -> Expect(ch, "T", "s_req_http_HTT", "STRICT")
          [] s = "s_req_http_HTT"  -> Expect(ch, "P", "s_req_http_HTTP", "STRICT")
          [] s = "s_req_http_HTTP" -> Expect(ch, "/", "s_req_first_http_major", "STRICT")
          [] s = "s_req_first_http_major" ->
               IF ch = "0" THEN Fail("INVALID_VERSION")
               ELSE FirstDigit("major", ch, "s_req_http_major", "INVALID_VERSION")
          [] s = "s_req_http_major" /\ ch = "." -> Goto("s_req_first_http_minor")
          [] s = "s_req_http_major" -> Digit(parser, "major", ch, "INVALID_VERSION")
          [] s = "s_req_first_http_minor" -> FirstDigit("minor", ch, "s_req_http_minor", "INVALID_VERSION")
          [] s = "s_req_http_minor" /\ ch = "CR" -> Goto("s_req_line_almost_done")
          [] s = "s_req_http_minor" /\ ch = "LF" -> Goto("s_header_field_start")
          [] s = "s_req_http_minor" -> Digit(parser, "minor", ch, "INVALID_VERSION")
          [] OTHER -> Expect(ch, "LF", "s_header_field_start", "LF_EXPECTED")

-----------------------------------------------------------------------------
(* Header lines.                                                            *)

\* Mutant of BareNewline: the \n is executed again in the same state.
BareNewline_stays == Again(Stay)

\* a line that is only "\n" ends the headers, too
BareNewline == Again(Goto("s_headers_almost_done"))

\* s_header_field_start
HeaderFieldStart(ch) ==
    CASE ch = "CR"    -> Goto("s_headers_almost_done")
      [] ch = "LF"    -> BareNewline
      [] ~TOKEN(ch)   -> Fail("INVALID_HEADER_TOKEN")
      [] OTHER        ->
           Marking(Go([parser EXCEPT !.index = 0, !.state = "s_header_field",
                         !.header_state = CASE LOWER(ch) = "c" -> "h_C"
                                            [] LOWER(ch) = "p" -> "h_matching_proxy_connection"
                                            [] LOWER(ch) = "t" -> "h_matching_transfer_encoding"
                                            [] LOWER(ch) = "u" -> "h_matching_upgrade"
                                            [] OTHER           -> "h_general"]), "header_field")

\* the next letter of a literal: is it the last one, one of several, or another
Matched(ch, literal, matching, found) ==
    LET k == parser.index + 1
    IN  [parser EXCEPT !.index = k,
           !.header_state = CASE k >= Len(literal) \/ literal[k + 1] # LOWER(ch) -> "h_general"
                              [] k = Len(literal) - 1 -> found
                              [] OTHER -> matching]

FieldLetter(ch) ==
    LET h == parser.header_state
        next(state) == [parser EXCEPT !.index = @ + 1, !.header_state = state]
    IN  CASE h = "h_general" -> parser
          [] h = "h_C"   -> next(IF LOWER(ch) = "o" THEN "h_CO" ELSE "h_general")
          [] h = "h_CO"  -> next(IF LOWER(ch) = "n" THEN "h_CON" ELSE "h_general")
          [] h = "h_CON" -> next(CASE LOWER(ch) = "n" -> "h_matching_connection"
                                   [] LOWER(ch) = "t" -> "h_matching_content_length"
                                   [] OTHER           -> "h_general")
          [] h = "h_matching_connection" -> Matched(ch, CONNECTION, h, "h_connection")
          [] h = "h_matching_proxy_connection" -> Matched(ch, PROXY_CONNECTION, h, "h_connection")
          [] h = "h_matching_content_length" -> Matched(ch, CONTENT_LENGTH, h, "h_content_length")
          [] h = "h_matching_transfer_encoding" -> Matched(ch, TRANSFER_ENCODING, h, "h_transfer_encoding")
          [] h = "h_matching_upgrade" -> Matched(ch, UPGRADE, h, "h_upgrade")
          [] OTHER -> [parser EXCEPT !.header_state = "h_general"]

\* s_header_field
HeaderField(ch) ==
    CASE TOKEN(ch)  -> Go(FieldLetter(ch))
      [] ch = ":"   -> Notify([parser EXCEPT !.state = "s_header_value_start"], "header_field")
      [] ch = "CR"  -> Notify([parser EXCEPT !.state = "s_header_almost_done"], "header_field")
      [] ch = "LF"  -> Notify([parser EXCEPT !.state = "s_header_field_start"], "header_field")
      [] OTHER      -> Fail("INVALID_HEADER_TOKEN")

\* s_header_value_start
HeaderValueStart(ch) ==
    LET h == parser.header_state
        value(state) == Marking(Go([parser EXCEPT !.state = "s_header_value", !.index = 0,
                                                  !.header_state = state]), "header_value")
    IN  CASE ch \in {"SP", "HT"} -> Stay
          [] ch = "CR" -> Marking(Notify([parser EXCEPT !.state = "s_header_almost_done", !.index = 0,
                                            !.header_state = "h_general"], "header_value"), "header_value")
          [] ch = "LF" -> Marking(Notify([parser EXCEPT !.state = "s_header_field_start", !.index = 0],
                                         "header_value"), "header_value")
          [] h = "h_upgrade" -> [value("h_general") EXCEPT !.parser.flags = @ \cup {"UPGRADE"}]
          [] h = "h_transfer_encoding" /\ LOWER(ch) = "c" -> value("h_matching_transfer_encoding_chunked")
          [] h = "h_content_length" /\ IS_NUM(ch) -> [value(h) EXCEPT !.parser.content_length = Digits[ch]]
          [] h = "h_content_length" -> Fail("INVALID_CONTENT_LENGTH")
          [] h = "h_connection" /\ LOWER(ch) = "k" -> value("h_matching_connection_keep_alive")
          [] h = "h_connection" /\ LOWER(ch) = "c" -> value("h_matching_connection_close")
          [] OTHER -> value("h_general")

\* One digit more of a length in the given base: 64 bit arithmetic, the overflow check
\* of the code.
LengthDigit(base, digit) ==
    LET t == (parser.content_length * base + digit) % (ULLONG_MAX + 1)
    IN  IF t < parser.content_length \/ t = ULLONG_MAX THEN Fail("INVALID_CONTENT_LENGTH")
        ELSE Go([parser EXCEPT !.content_length = t])

\* s_header_value
HeaderValue(ch) ==
    LET h == parser.header_state
    IN  CASE ch = "CR" -> Notify([parser EXCEPT !.state = "s_header_almost_done"], "header_value")
          [] ch = "LF" -> Again(Notify([parser EXCEPT !.state = "s_header_almost_done"], "header_value"))
          [] h = "h_general" -> Stay
          [] h = "h_content_length" /\ ch = "SP" -> Stay
          [] h = "h_content_length" /\ IS_NUM(ch) -> LengthDigit(10, Digits[ch])
          [] h = "h_content_length" -> Fail("INVALID_CONTENT_LENGTH")
          [] h = "h_matching_transfer_encoding_chunked" ->
               Go(Matched(ch, CHUNKED, h, "h_transfer_encoding_chunked"))
          [] h = "h_matching_connection_keep_alive" ->
               Go(Matched(ch, KEEP_ALIVE, h, "h_connection_keep_alive"))
          [] h = "h_matching_connection_close" -> Go(Matched(ch, CLOSE, h, "h_connection_close"))
          [] ch = "SP" -> Stay
          [] OTHER -> Go([parser EXCEPT !.header_state = "h_general"])

\* s_header_almost_done and s_header_value_lws: the flags are set at the end of the
\* line; a line that begins with white space continues the value
HeaderLineEnd(ch) ==
    CASE parser.state = "s_header_almost_done" ->
           IF ch # "LF" THEN Fail("STRICT")
           ELSE Go([parser EXCEPT !.state = "s_header_value_lws",
                      !.flags = @ \cup CASE parser.header_state = "h_connection_keep_alive" -> {"KEEP_ALIVE"}
                                         [] parser.header_state = "h_connection_close" -> {"CLOSE"}
                                         [] parser.header_state = "h_transfer_encoding_chunked" -> {"CHUNKED"}
                                         [] OTHER -> {}])
      [] ch \in {"SP", "HT"} -> Goto("s_header_value_start")
      [] OTHER -> Again(Goto("s_header_field_start"))

\* s_headers_almost_done: the trailer ends the message; else on_headers_complete runs,
\* and the byte is executed again
HeadersAlmostDone(ch) ==
    CASE ch # "LF" -> Fail("STRICT")
      [] "TRAILING" \in parser.flags -> Notify([parser EXCEPT !.state = NEW_MESSAGE(parser)], "message_complete")
      [] OTHER -> Again(Notify([parser EXCEPT !.state = "s_headers_done",
                                  !.upgrade = "UPGRADE" \in parser.flags \/ parser.method = "CONNECT",
                                  !.flags = IF input.skip THEN @ \cup {"SKIPBODY"} ELSE @],
                               "headers_complete"))

\* s_headers_done: how the body is delimited; an upgraded connection is read to its end
HeadersDone(ch) ==
    LET counted0 == [parser EXCEPT !.nread = 0]
        over == Notify([counted0 EXCEPT !.state = NEW_MESSAGE(parser)], "message_complete")
        body(state) == Go([counted0 EXCEPT !.state = state])
    IN  CASE ch # "LF" -> Fail("STRICT")
          [] parser.upgrade -> body("s_body_identity_eof")
          [] "SKIPBODY" \in parser.flags -> over
          [] "CHUNKED" \in parser.flags -> body("s_chunk_size_start")
          [] parser.content_length = 0 -> over
          [] parser.content_length # ULLONG_MAX -> body("s_body_identity")
          [] http_message_needs_eof(parser) -> body("s_body_identity_eof")
          [] OTHER -> over

-----------------------------------------------------------------------------
(* Chunks.                                                                  *)

\* Mutant of ChunkSizeDone: the chunk of size zero is read like the others.
ChunkSizeDone_reads_last == Go([parser EXCEPT !.nread = 0, !.state = "s_chunk_data"])

\* s_chunk_size_almost_done: the chunk of size zero is the last one
ChunkSizeDone ==
    Go(IF parser.content_length = 0
       THEN [parser EXCEPT !.nread = 0, !.flags = @ \cup {"TRAILING"}, !.state = "s_header_field_start"]
       ELSE [parser EXCEPT !.nread = 0, !.state = "s_chunk_data"])

\* s_chunk_size_start .. s_chunk_data_done, s_chunk_data aside
ChunkLine(ch) ==
    LET s == parser.state
    IN  CASE s = "s_chunk_size_start" ->
               IF unhex(ch) = -1 THEN Fail("INVALID_CHUNK_SIZE")
               ELSE Go([parser EXCEPT !.content_length = unhex(ch), !.state = "s_chunk_size"])
          [] s \in {"s_chunk_size", "s_chunk_parameters"} /\ ch = "CR" -> Goto("s_chunk_size_almost_done")
          [] s = "s_chunk_size" /\ unhex(ch) # -1 -> LengthDigit(16, unhex(ch))
          [] s = "s_chunk_size" -> IF ch \in {";", "SP"} THEN Goto("s_chunk_parameters")
                                   ELSE Fail("INVALID_CHUNK_SIZE")
          [] s = "s_chunk_parameters" -> Stay
          [] s = "s_chunk_size_almost_done" /\ ch = "LF" -> ChunkSizeDone
          [] s = "s_chunk_data_almost_done" /\ ch = "CR" ->
               Notify([parser EXCEPT !.state = "s_chunk_data_done"], "body")
          [] s = "s_chunk_data_done" /\ ch = "LF" ->
               Go([parser EXCEPT !.nread = 0, !.state = "s_chunk_size_start"])
          [] OTHER -> Fail("STRICT")

\* the switch over parser->state
Switch(ch) ==
    LET s == parser.state
    IN  CASE s = "s_dead" -> DeadState(ch)
          [] s = "s_start_req_or_res" -> StartEither(ch)
          [] s = "s_res_or_resp_H" -> EitherH(ch)
          [] s = "s_start_res" -> StartResponse(ch)
          [] s \in {"s_res_H", "s_res_HT", "s_res_HTT", "s_res_HTTP", "s_res_first_http_major",
                    "s_res_http_major", "s_res_first_http_minor", "s_res_http_minor",
                    "s_res_first_status_code", "s_res_status_code", "s_res_status",
                    "s_res_line_almost_done"} -> ResponseLine(ch)
          [] s = "s_start_req" -> StartRequest(ch)
          [] s = "s_req_method" -> RequestMethod(ch)
          [] s \in UrlStates \cup {"s_req_spaces_before_url"} -> Url(ch)
          [] s \in {"s_req_http_start", "s_req_http_H", "s_req_http_HT", "s_req_http_HTT",
                    "s_req_http_HTTP", "s_req_first_http_major", "s_req_http_major",
                    "s_req_first_http_minor", "s_req_http_minor", "s_req_line_almost_done"} ->
               RequestVersion(ch)
          [] s = "s_header_field_start" -> HeaderFieldStart(ch)
          [] s = "s_header_field" -> HeaderField(ch)
          [] s = "s_header_value_start" -> HeaderValueStart(ch)
          [] s = "s_header_value" -> HeaderValue(ch)
          [] s \in {"s_header_almost_done", "s_header_value_lws"} -> HeaderLineEnd(ch)
          [] s = "s_headers_almost_done" -> HeadersAlmostDone(ch)
          [] s = "s_headers_done" -> HeadersDone(ch)
          [] s = "s_message_done" -> Notify([parser EXCEPT !.state = NEW_MESSAGE(parser)], "message_complete")
          [] OTHER -> ChunkLine(ch)

-----------------------------------------------------------------------------
(* http_parser_execute and its caller.                                      *)

InCall == limit # 0
Ok == parser.errno = "OK"

\* A data callback with the bytes from .. to continues the one before it, if that has
\* the same kind and ends there.
WithData(cb, from, to) ==
    LET last == Len(events)
    IN  IF last > 0 /\ events[last].cb = cb /\ events[last].to = from - 1
        THEN [events EXCEPT ![last].to = to]
        ELSE Append(events, [cb |-> cb, from |-> from, to |-> to])

\* what a user sees in on_headers_complete
Summary(ps) == [cb |-> "headers_complete", method |-> IF ps.type = "request" THEN ps.method ELSE "none",
                status |-> ps.status, keep_alive |-> http_should_keep_alive(ps), upgrade |-> ps.upgrade]

\* The callback of a step runs and returns 0, pauses the parser, or fails: then
\* http_parser_execute returns with the byte at next as the first one not consumed.
Callback(ps, log, next) ==
    /\ events' = log
    /\ \E errno \in {"OK", "PAUSED", "CALLBACK"} :
          /\ parser' = [ps EXCEPT !.errno = errno]
          /\ p' = next
          /\ limit' = IF errno = "OK" THEN limit ELSE 0

\* Mutant of ExecuteBegins: a url that the last call left unfinished is not marked.
ExecuteBegins_drops_url ==
    /\ ~done /\ ~InCall /\ Ok /\ p <= Len(input.bytes)
    /\ limit' \in p .. Len(input.bytes)
    /\ mark' = CASE parser.state = "s_header_field" -> [NoMarks EXCEPT !.header_field = p]
                 [] parser.state = "s_header_value" -> [NoMarks EXCEPT !.header_value = p]
                 [] OTHER -> NoMarks
    /\ UNCHANGED <<input, parser, p, counted, events, eofs, done>>

\* a call with the next bytes, any number of them; what was being read is marked
ExecuteBegins ==
    /\ ~done /\ ~InCall /\ Ok /\ p <= Len(input.bytes)
    /\ limit' \in p .. Len(input.bytes)
    /\ mark' = CASE parser.state = "s_header_field" -> [NoMarks EXCEPT !.header_field = p]
                 [] parser.state = "s_header_value" -> [NoMarks EXCEPT !.header_value = p]
                 [] parser.state \in UrlStates -> [NoMarks EXCEPT !.url = p]
                 [] OTHER -> NoMarks
    /\ UNCHANGED <<input, parser, p, counted, events, eofs, done>>

HasByte == InCall /\ Ok /\ p <= limit

\* the byte is a header byte that nread does not count yet
CountByte ==
    /\ HasByte /\ ~counted /\ parser.state \notin BodyStates
    /\ parser' = [parser EXCEPT !.nread = @ + 1,
                                !.errno = IF parser.nread + 1 > MaxHeaderSize THEN "HEADER_OVERFLOW" ELSE "OK"]
    /\ counted' = TRUE
    /\ limit' = IF parser.nread + 1 > MaxHeaderSize THEN 0 ELSE limit
    /\ UNCHANGED <<input, p, mark, events, eofs, done>>

\* one byte through the switch
Byte ==
    /\ HasByte /\ (counted \/ parser.state \in BodyStates)
    /\ parser.state \notin {"s_body_identity", "s_body_identity_eof", "s_chunk_data"}
    /\ LET r == Switch(input.bytes[p])
           next == IF r.again THEN p ELSE p + 1
           marked == IF r.mark = "none" \/ mark[r.mark] # 0 THEN mark ELSE [mark EXCEPT ![r.mark] = p]
       IN  /\ IF r.parser.errno # "OK"
              THEN parser' = r.parser /\ limit' = 0 /\ UNCHANGED <<p, mark, events>>
              ELSE CASE r.cb = "none" ->
                          parser' = r.parser /\ p' = next /\ mark' = marked /\ UNCHANGED <<limit, events>>
                     [] r.cb \in DOMAIN mark /\ marked[r.cb] = 0 ->
                          parser' = r.parser /\ p' = next /\ UNCHANGED <<limit, mark, events>>
                     [] r.cb \in DOMAIN mark ->
                          /\ Callback(r.parser, WithData(r.cb, marked[r.cb], p - 1), next)
                          /\ mark' = [marked EXCEPT ![r.cb] = 0]
                     [] r.cb = "headers_complete" ->
                          Callback(r.parser, Append(events, Summary(r.parser)), next) /\ mark' = marked
                     [] OTHER ->
                          Callback(r.parser, Append(events, [cb |-> r.cb]), next) /\ mark' = marked
           /\ counted' = (r.again /\ limit' # 0)
    /\ UNCHANGED <<input, eofs, done>>

\* s_body_identity, s_chunk_data and s_body_identity_eof take all they can of the
\* buffer.  A body that is complete is delivered at once, and its last byte looked at
\* again.
BodyBytes ==
    /\ HasByte /\ parser.state \in {"s_body_identity", "s_body_identity_eof", "s_chunk_data"}
    /\ LET left == limit - p + 1
           taken == IF parser.state = "s_body_identity_eof" \/ parser.content_length > left
                    THEN left ELSE parser.content_length
           rest == IF parser.state = "s_body_identity_eof" THEN parser.content_length
                   ELSE parser.content_length - taken
           marked == IF mark.body # 0 THEN mark ELSE [mark EXCEPT !.body = p]
           ended == parser.state # "s_body_identity_eof" /\ rest = 0
       IN  IF ended /\ parser.state = "s_body_identity"
           THEN /\ Callback([parser EXCEPT !.content_length = 0, !.state = "s_message_done"],
                            WithData("body", marked.body, p + taken - 1), p + taken - 1)
                /\ mark' = [marked EXCEPT !.body = 0]
           ELSE /\ parser' = [parser EXCEPT !.content_length = rest,
                                            !.state = IF ended THEN "s_chunk_data_almost_done" ELSE @]
                /\ p' = p + taken /\ mark' = marked
                /\ UNCHANGED <<limit, events>>
    /\ counted' = FALSE
    /\ UNCHANGED <<input, eofs, done>>

Marked == {kind \in DOMAIN mark : mark[kind] # 0}

\* the buffer is used up: what is marked is delivered
ExecuteEnds ==
    /\ InCall /\ Ok /\ p > limit
    /\ IF Marked = {} THEN UNCHANGED <<events, parser>>
       ELSE LET kind == CHOOSE k \in Marked : TRUE
            IN  /\ events' = WithData(kind, mark[kind], p - 1)
                /\ \E errno \in {"OK", "PAUSED", "CALLBACK"} : parser' = [parser EXCEPT !.errno = errno]
    /\ limit' = 0 /\ mark' = NoMarks /\ counted' = FALSE
    /\ UNCHANGED <<input, p, eofs, done>>

\* http_parser_pause(htp, 0)
Resume ==
    /\ ~done /\ ~InCall /\ parser.errno = "PAUSED"
    /\ parser' = [parser EXCEPT !.errno = "OK"]
    /\ UNCHANGED <<input, p, limit, counted, mark, events, eofs, done>>

\* The end of the connection is a call without bytes.  message_complete leaves the state
\* as it is: a caller that repeats the call, having been paused in it, gets it again.
Eof ==
    /\ ~done /\ ~InCall /\ Ok /\ p > Len(input.bytes) /\ eofs < MaxEofCalls
    /\ eofs' = eofs + 1
    /\ IF parser.state = "s_body_identity_eof"
       THEN Callback(parser, Append(events, [cb |-> "message_complete"]), p)
       ELSE /\ UNCHANGED <<p, limit, events>>
            /\ parser' = IF parser.state \in {"s_dead", "s_start_req_or_res", "s_start_res", "s_start_req"} THEN parser
                         ELSE [parser EXCEPT !.errno = "INVALID_EOF_STATE"]
    /\ UNCHANGED <<input, counted, mark, done>>

\* the caller gives up after an error, or is through with the connection
Stop ==
    /\ ~done /\ ~InCall /\ (parser.errno \notin {"OK", "PAUSED"} \/ eofs > 0)
    /\ done' = TRUE
    /\ UNCHANGED <<input, parser, p, limit, counted, mark, events, eofs>>

Next == ExecuteBegins \/ CountByte \/ Byte \/ BodyBytes \/ ExecuteEnds \/ Resume \/ Eof \/ Stop

Spec == Init /\ [][Next]_vars

\* The caller goes on until the input is used up.
FairSpec == Spec /\ WF_vars(Next)

-----------------------------------------------------------------------------
(* Properties.                                                              *)

\* A data callback may have had only the first bytes of what it is going to get.
PartOf(event, whole) ==
    \/ event = whole
    \/ {"from", "to"} \subseteq DOMAIN event \cap DOMAIN whole
       /\ event.cb = whole.cb /\ event.from = whole.from /\ event.to <= whole.to

\* The callbacks so far are those of input.events, the last one perhaps in part; only the
\* message_complete of the end of the connection may be repeated.
Delivered ==
    LET n == Len(input.events)
        repeated == IF parser.state = "s_body_identity_eof" THEN eofs - 1 ELSE 0
    IN  /\ Len(events) > n => Len(events) <= n + repeated
        /\ \A i \in DOMAIN events :
              CASE i > n           -> events[i].cb = "message_complete"
                [] i < Len(events) -> events[i] = input.events[i]
                [] OTHER           -> PartOf(events[i], input.events[i])

\* However the input is cut into calls and wherever callbacks pause, the callbacks and
\* the bytes they get are those the message stands for (its url, headers, the body its
\* framing delimits), in order, no byte twice and none left out.
CallbacksExact ==
    /\ Delivered
    /\ done /\ parser.errno \in {"OK", "PAUSED"} =>
          Len(events) >= Len(input.events) /\ input.errno = "OK"
    /\ done /\ parser.errno \notin {"OK", "PAUSED"} => parser.errno \in {input.errno, "CALLBACK"}

WrittenPart(parts, uf) == IF uf \in DOMAIN parts THEN parts[uf] ELSE <<>>
WrittenAfter(parts, uf, ch) == IF uf \in DOMAIN parts THEN <<ch>> \o parts[uf] ELSE <<>>

\* uri::parse finds the parts the url was written with, and finds them again in what
\* uri::construct makes of them.
UriExact(url, parts) ==
    \A us \in {uri_parse(url)} :
        /\ us.ok /\ us.protocol = parts["SCHEMA"] /\ us.host = parts["HOST"]
        /\ percentEncode(us.username) \o (IF us.hasPassword THEN <<":">> \o percentEncode(us.password) ELSE <<>>)
              = WrittenPart(parts, "USERINFO")
        /\ IF "PORT" \in DOMAIN parts THEN Decimal(us.port) = parts["PORT"]
           ELSE us.port = (IF us.protocol = http THEN 80 ELSE 443)
        /\ us.dir \o us.file \in {WrittenPart(parts, "PATH"), <<"/">>} /\ "/" \notin Range(us.file)
        /\ us.query = WrittenAfter(parts, "QUERY", "?")
        /\ \A again \in {uri_construct(us)} : uri_parse(again) = us

\* parse_uri of the clients finds host, port and path, and the host header but for
\* addresses.
ClientUriExact(url, parts) ==
    \A uri \in {parse_uri(url)} :
        /\ uri.ok /\ uri.host = parts["HOST"]
        /\ uri.path \in {WrittenPart(parts, "PATH") \o WrittenAfter(parts, "QUERY", "?"), <<"/">>}
        /\ IF "PORT" \in DOMAIN parts THEN Decimal(uri.port) = parts["PORT"] ELSE uri.port = 443
        /\ url[9] # "[" => uri.hostport = uri.host \o WrittenAfter(parts, "PORT", ":")

\* The url of a request line, taken apart by http_parser_parse_url, has the fields it was
\* written with; what is no valid host or port, or has a schema but no host, is refused,
\* although http_parser_execute takes the request line.  The other two parsers find the
\* same parts in the urls they are for.
UrlFieldsExact ==
    \A i \in 1 .. Len(events) - 1 :
        events[i].cb = "url" =>
            LET n == input.urls[Cardinality({j \in 1 .. i : events[j].cb = "url"})]
                url == SubSeq(input.bytes, events[i].from, events[i].to)
                absolute == n.ok /\ "SCHEMA" \in DOMAIN n.parts
            IN  /\ http_parser_parse_url(url, n.connect) = [ok |-> n.ok, fields |-> n.fields]
                /\ absolute => UriExact(url, n.parts)
                /\ absolute /\ n.parts["SCHEMA"] = https /\ "USERINFO" \notin DOMAIN n.parts =>
                      ClientUriExact(url, n.parts)

\* The assertions of http_parser_execute hold: the count of header bytes restarts at a
\* chunk size, there is something left to read in a body, a header name and a value are in
\* states of their own, and at most one mark is set.  (Those of the callback macros, errno
\* is HPE_OK, are in the guards: every error leaves http_parser_execute at once.)
AssertionsHold ==
    /\ parser.state = "s_chunk_size_start" /\ counted => parser.nread = 1
    /\ parser.state \in {"s_chunk_size_start", "s_chunk_size", "s_chunk_parameters",
                         "s_chunk_size_almost_done", "s_chunk_data", "s_chunk_data_almost_done",
                         "s_chunk_data_done"} => "CHUNKED" \in parser.flags
    /\ parser.state \in {"s_body_identity", "s_chunk_data"} =>
          parser.content_length \notin {0, ULLONG_MAX}
    /\ parser.state = "s_chunk_data_almost_done" => parser.content_length = 0
    /\ parser.state = "s_header_field" => parser.header_state \in FieldStates
    /\ parser.state = "s_header_value" => parser.header_state \notin {"h_connection", "h_transfer_encoding"}
    /\ Cardinality(Marked) <= 1

\* Whatever the input, the parser gets to its end: re-executing a byte and passing it
\* again after a pause make progress.
InputIsConsumed == <>done

=============================================================================
