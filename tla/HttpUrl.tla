------------------------------ MODULE HttpUrl -------------------------------
(***************************************************************************)
(* The characters http_parser.c tells apart (strict build), the state machine  *)
(* that follows the url of a request, and http_parser_parse_url, which takes a  *)
(* url apart.  Bytes are symbols, one string per character or character class.  *)
(***************************************************************************)
EXTENDS Integers, Sequences, SequencesExt, TLC

method_strings ==
    [GET |-> <<"G","E","T">>, HEAD |-> <<"H","E","A","D">>, POST |-> <<"P","O","S","T">>,
     PUT |-> <<"P","U","T">>, DELETE |-> <<"D","E","L","E","T","E">>,
     CONNECT |-> <<"C","O","N","N","E","C","T">>, OPTIONS |-> <<"O","P","T","I","O","N","S">>,
     TRACE |-> <<"T","R","A","C","E">>, COPY |-> <<"C","O","P","Y">>, LOCK |-> <<"L","O","C","K">>,
     MKCOL |-> <<"M","K","C","O","L">>, MOVE |-> <<"M","O","V","E">>,
     PROPFIND |-> <<"P","R","O","P","F","I","N","D">>,
     PROPPATCH |-> <<"P","R","O","P","P","A","T","C","H">>,
     SEARCH |-> <<"S","E","A","R","C","H">>, UNLOCK |-> <<"U","N","L","O","C","K">>,
     REPORT |-> <<"R","E","P","O","R","T">>,
     MKACTIVITY |-> <<"M","K","A","C","T","I","V","I","T","Y">>,
     CHECKOUT |-> <<"C","H","E","C","K","O","U","T">>, MERGE |-> <<"M","E","R","G","E">>,
     MSEARCH |-> <<"M","-","S","E","A","R","C","H">>, NOTIFY |-> <<"N","O","T","I","F","Y">>,
     SUBSCRIBE |-> <<"S","U","B","S","C","R","I","B","E">>,
     UNSUBSCRIBE |-> <<"U","N","S","U","B","S","C","R","I","B","E">>,
     PATCH |-> <<"P","A","T","C","H">>, PURGE |-> <<"P","U","R","G","E">>]

Digits == [d \in {"0","1","2","3","4","5","6","7","8","9"} |->
             CHOOSE n \in 0 .. 9 : ToString(n) = d]
IS_NUM(ch) == ch \in DOMAIN Digits

\* tokens[] and LOWER: a letter in lower case; separators and controls are no tokens
Separators == {"CR", "LF", "SP", "HT", ":", "/", "?", "#", "@", ";", "[", "]"}
Lower == [A |-> "a", B |-> "b", C |-> "c", D |-> "d", E |-> "e", F |-> "f", H |-> "h",
          K |-> "k", L |-> "l", N |-> "n", O |-> "o", P |-> "p", S |-> "s", T |-> "t", U |-> "u", X |-> "x"]
LOWER(ch) == IF ch \in DOMAIN Lower THEN Lower[ch] ELSE ch
TOKEN(ch) == ch \notin Separators

\* unhex[]
HexDigits == [a |-> 10, b |-> 11, c |-> 12, d |-> 13, e |-> 14, f |-> 15]
unhex(ch) == IF IS_NUM(ch) THEN Digits[ch] ELSE IF ch \in DOMAIN HexDigits THEN HexDigits[ch] ELSE -1

Alpha == DOMAIN Lower \cup {Lower[c] : c \in DOMAIN Lower} \cup DOMAIN HexDigits
         \cup (UNION {Range(method_strings[m]) : m \in DOMAIN method_strings} \ {"-"})
IS_ALPHA(ch) == ch \in Alpha
IS_HEX(ch) == IS_NUM(ch) \/ LOWER(ch) \in DOMAIN HexDigits
IS_HOST_CHAR(ch) == IS_ALPHA(ch) \/ IS_NUM(ch) \/ ch \in {".", "-"}
IS_USERINFO_CHAR(ch) == IS_ALPHA(ch) \/ IS_NUM(ch) \/ ch \in {"-", ".", "%", ";", ":"}
IS_URL_CHAR(ch) == ch \notin {"CR", "LF", "SP", "HT", "?", "#"}

-----------------------------------------------------------------------------
\* the next state within a url
parse_url_char(s, ch) ==
    CASE ch \in {"SP", "CR", "LF", "HT"} -> "s_dead"
      [] s = "s_req_spaces_before_url" /\ ch \in {"/", "*"} -> "s_req_path"
      [] s \in {"s_req_spaces_before_url", "s_req_schema"} /\ IS_ALPHA(ch) -> "s_req_schema"
      [] s = "s_req_schema" /\ ch = ":" -> "s_req_schema_slash"
      [] s = "s_req_schema_slash" /\ ch = "/" -> "s_req_schema_slash_slash"
      [] s = "s_req_schema_slash_slash" /\ ch = "/" -> "s_req_server_start"
      [] s = "s_req_server_with_at" /\ ch = "@" -> "s_dead"
      [] s \in {"s_req_server_with_at", "s_req_server_start", "s_req_server"} ->
           (CASE ch = "/" -> "s_req_path"
              [] ch = "?" -> "s_req_query_string_start"
              [] ch = "@" -> "s_req_server_with_at"
              [] IS_USERINFO_CHAR(ch) \/ ch \in {"[", "]"} -> "s_req_server"
              [] OTHER -> "s_dead")
      [] s = "s_req_path" /\ IS_URL_CHAR(ch) -> s
      [] s = "s_req_path" /\ ch = "?" -> "s_req_query_string_start"
      [] s \in {"s_req_query_string_start", "s_req_query_string"} /\ (IS_URL_CHAR(ch) \/ ch = "?") ->
           "s_req_query_string"
      [] s \in {"s_req_path", "s_req_query_string_start", "s_req_query_string"} /\ ch = "#" ->
           "s_req_fragment_start"
      [] s = "s_req_fragment_start" /\ ch = "#" -> s
      [] s \in {"s_req_fragment_start", "s_req_fragment"} -> "s_req_fragment"
      [] OTHER -> "s_dead"

-----------------------------------------------------------------------------
(* http_parser_parse_url: where the fields of a url are.                    *)

\* One byte more of a field, or the first one.  (field_set is the domain.)
Grown(fields, uf, k, first) ==
    IF first THEN (uf :> [off |-> k, len |-> 1]) @@ fields
    ELSE [fields EXCEPT ![uf].len = @ + 1]

http_parse_host_char(s, ch) ==
    CASE s \in {"s_http_userinfo", "s_http_userinfo_start"} /\ ch = "@" -> "s_http_host_start"
      [] s \in {"s_http_userinfo", "s_http_userinfo_start"} /\ IS_USERINFO_CHAR(ch) -> "s_http_userinfo"
      [] s = "s_http_host_start" /\ ch = "[" -> "s_http_host_v6_start"
      [] s \in {"s_http_host_start", "s_http_host"} /\ IS_HOST_CHAR(ch) -> "s_http_host"
      [] s \in {"s_http_host", "s_http_host_v6_end"} /\ ch = ":" -> "s_http_host_port_start"
      [] s = "s_http_host_v6" /\ ch = "]" -> "s_http_host_v6_end"
      [] s \in {"s_http_host_v6_start", "s_http_host_v6"} /\ (IS_HEX(ch) \/ ch = ":") -> "s_http_host_v6"
      [] s \in {"s_http_host_port_start", "s_http_host_port"} /\ IS_NUM(ch) -> "s_http_host_port"
      [] OTHER -> "s_http_host_dead"

HostField == [s_http_host |-> "HOST", s_http_host_v6 |-> "HOST", s_http_host_port |-> "PORT",
              s_http_userinfo |-> "USERINFO"]

\* The field HOST is taken apart from its first byte on, whose state is s0.  A HOST that
\* is not set is empty, if the caller has zeroed the structure.
ParseHostFrom(s0, buf, fields) ==
    LET host == IF "HOST" \in DOMAIN fields THEN fields["HOST"] ELSE [off |-> 0, len |-> 0]
        Step(q, k) ==
            LET s == http_parse_host_char(q.s, buf[k])
            IN  [s |-> s, fields |-> IF s \in DOMAIN HostField
                                     THEN Grown(q.fields, HostField[s], k, s # q.s) ELSE q.fields]
    IN  FoldLeft(Step, [s |-> s0, fields |-> fields], [i \in 1 .. host.len |-> host.off + i - 1])

\* Mutant of http_parse_host: a user before the host is not expected.
http_parse_host_without_user(buf, fields, found_at) ==
    ParseHostFrom("s_http_host_start", buf, fields)

http_parse_host(buf, fields, found_at) ==
    ParseHostFrom(IF found_at THEN "s_http_userinfo_start" ELSE "s_http_host_start", buf, fields)

\* where a host may end
HostComplete(s) == s \in {"s_http_host", "s_http_host_v6_end", "s_http_host_port"}

UrlField == [s_req_schema |-> "SCHEMA", s_req_server_with_at |-> "HOST", s_req_server |-> "HOST",
             s_req_path |-> "PATH", s_req_query_string |-> "QUERY", s_req_fragment |-> "FRAGMENT"]

\* strtoul of the port's digits
PortNumber(buf, port) ==
    FoldLeft(LAMBDA v, i : 10 * v + Digits[buf[port.off + i - 1]], 0, [i \in 1 .. port.len |-> i])

NoFields == [none \in {} |-> 0]

\* The fields of a url, if it is valid: "host must be present if there is a schema".
http_parser_parse_url(buf, is_connect) ==
    LET Step(q, k) ==
            LET s == parse_url_char(q.s, buf[k])
                uf == IF s \in DOMAIN UrlField THEN UrlField[s] ELSE q.uf
            IN  CASE q.s = "s_dead" -> q
                  [] s \notin DOMAIN UrlField -> [q EXCEPT !.s = s]
                  [] OTHER -> [s |-> s, uf |-> uf, at |-> q.at \/ s = "s_req_server_with_at",
                               fields |-> Grown(q.fields, uf, k, uf # q.uf)]
        start == [s |-> IF is_connect THEN "s_req_server_start" ELSE "s_req_spaces_before_url",
                  uf |-> "MAX", at |-> FALSE, fields |-> NoFields]
        end == FoldLeft(Step, start, [k \in 1 .. Len(buf) |-> k])
        host == http_parse_host(buf, end.fields, end.at)
        hosted == {"SCHEMA", "HOST"} \cap DOMAIN end.fields # {}
        fields == IF hosted THEN host.fields ELSE end.fields
    IN  IF \/ end.s = "s_dead"
           \/ hosted /\ ~HostComplete(host.s)
           \/ is_connect /\ DOMAIN fields # {"HOST", "PORT"}
           \/ "PORT" \in DOMAIN fields /\ PortNumber(buf, fields["PORT"]) > 65535
        THEN [ok |-> FALSE, fields |-> NoFields] ELSE [ok |-> TRUE, fields |-> fields]

=============================================================================
