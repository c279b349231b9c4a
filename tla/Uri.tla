--------------------------------- MODULE Uri ---------------------------------
(***************************************************************************)
(* The other two url parsers of the repository: uri::parse of uri.cc with its   *)
(* inverse uri::construct, and parse_uri of the C clients.  Positions in the    *)
(* url are indices; an end is the index after the last character, as with the   *)
(* iterators of the code.                                                       *)
(***************************************************************************)
EXTENDS HttpUrl

http == <<"h", "t", "t", "p">>
https == <<"h", "t", "t", "p", "s">>
Colon3 == <<":", "/", "/">>

\* the first of chars in s from position from on, or end
Find(s, from, end, chars) ==
    LET k == SelectInSubSeq(s, from, end - 1, LAMBDA ch : ch \in chars) IN IF k = 0 THEN end ELSE k

Part(s, from, end) == SubSeq(s, from, end - 1)

-----------------------------------------------------------------------------
(* util.cc.                                                                 *)

\* The codes of the characters a url may have encoded (of those the instances use).
Code == ("%" :> <<"2", "5">>) @@ (":" :> <<"3", "A">>) @@ ("@" :> <<"4", "0">>) @@ ("/" :> <<"2", "F">>)

inRFC3986UnreservedChars(ch) == IS_ALPHA(ch) \/ IS_NUM(ch) \/ ch \in {"-", ".", "_", "~"}

percentEncode(s) ==
    FlattenSeq([i \in DOMAIN s |-> IF inRFC3986UnreservedChars(s[i]) THEN <<s[i]>> ELSE <<"%">> \o Code[s[i]]])

\* A "%" that no two hexadecimal digits follow stands for itself.
percentDecode(s) ==
    LET escape(k) == s[k] = "%" /\ k + 2 <= Len(s) /\ IS_HEX(s[k + 1]) /\ IS_HEX(s[k + 2])
        Step(q, k) ==
            CASE q.skip > 0 -> [q EXCEPT !.skip = @ - 1]
              [] escape(k)  -> [out |-> Append(q.out, CHOOSE ch \in DOMAIN Code :
                                                         Code[ch] = <<s[k + 1], s[k + 2]>>), skip |-> 2]
              [] OTHER      -> [q EXCEPT !.out = Append(@, s[k])]
    IN  FoldLeft(Step, [out |-> <<>>, skip |-> 0], [k \in DOMAIN s |-> k]).out

-----------------------------------------------------------------------------
(* uri.cc.                                                                  *)

DefaultPort(protocol) == IF protocol = http THEN 80 ELSE 443

\* strtol: the digits before the first other character (a sign is in no instance)
strtol(s) ==
    FoldLeft(LAMBDA v, i : 10 * v + Digits[s[i]], 0,
             [i \in 1 .. Find(s, 1, Len(s) + 1, Range(s) \ DOMAIN Digits) - 1 |-> i])

\* find("://"), 0 if there is none
ProtocolOffset(uri) ==
    SelectInSeq([k \in 1 .. Len(uri) - 2 |-> SubSeq(uri, k, k + 2)], LAMBDA c : c = Colon3)

\* userinfo is the authority up to its last "@", the password starts after the first ":"
UserInfo(uri, first, at) ==
    LET colon == Find(uri, first, at, {":"})
    IN  [username |-> percentDecode(Part(uri, first, colon)),
         password |-> percentDecode(Part(uri, colon + 1, at)), hasPassword |-> colon < at]

NoUri == [ok |-> FALSE]

uri_parse(uri) ==
    LET fragmentFirst == Find(uri, 1, Len(uri) + 1, {"#"})
        queryFirst == Find(uri, 1, fragmentFirst, {"?"})
        protocolOffset == ProtocolOffset(uri)
        protocol == Part(uri, 1, protocolOffset)
        authorityFirst == protocolOffset + 3
        authorityLast == Find(uri, authorityFirst, queryFirst, {"/"})
        at == SelectLastInSubSeq(uri, authorityFirst, authorityLast - 1, LAMBDA ch : ch = "@")
        hostPortFirst == IF at = 0 THEN authorityFirst ELSE at + 1
        literal == hostPortFirst < authorityLast /\ uri[hostPortFirst] = "["
        bracket == Find(uri, hostPortFirst, authorityLast, {"]"})
        closed == bracket < authorityLast
                  /\ (bracket + 1 = authorityLast \/ uri[bracket + 1] = ":")
        hostLast == IF literal THEN bracket + 1 ELSE Find(uri, hostPortFirst, authorityLast, {":"})
        digits == Part(uri, hostLast + 1, authorityLast)
        slash == SelectLastInSubSeq(uri, authorityLast, queryFirst - 1, LAMBDA ch : ch = "/")
        dirLast == IF slash = 0 THEN authorityLast ELSE slash + 1
        port == IF digits = <<>> THEN DefaultPort(protocol) ELSE strtol(digits)
        fields ==
          [ok |-> TRUE, protocol |-> protocol, port |-> port, ipv6LiteralAddress |-> literal,
           host |-> IF literal THEN Part(uri, hostPortFirst + 1, bracket)
                    ELSE Part(uri, hostPortFirst, hostLast),
           dir |-> IF slash = 0 THEN <<"/">> ELSE Part(uri, authorityLast, dirLast),
           file |-> Part(uri, dirLast, queryFirst), query |-> Part(uri, queryFirst, fragmentFirst)]
          @@ (IF at = 0 THEN [username |-> <<>>, password |-> <<>>, hasPassword |-> FALSE]
              ELSE UserInfo(uri, authorityFirst, at))
    IN  IF \/ protocolOffset = 0 \/ protocol \notin {http, https} \/ authorityFirst = authorityLast
           \/ literal /\ ~closed
           \/ hostPortFirst = hostLast \/ port > 65535
        THEN NoUri ELSE fields

\* "%u"
Decimal(n) ==
    LET len == CHOOSE d \in 1 .. 5 : n < 10 ^ d /\ (d = 1 \/ n >= 10 ^ (d - 1))
    IN  [i \in 1 .. len |-> ToString((n \div 10 ^ (len - i)) % 10)]

uri_construct(us) ==
    LET password == IF us.hasPassword THEN <<":">> \o percentEncode(us.password) ELSE <<>>
    IN  us.protocol \o Colon3
        \o (IF us.username = <<>> THEN <<>> ELSE percentEncode(us.username) \o password \o <<"@">>)
        \o (IF us.ipv6LiteralAddress THEN <<"[">> \o us.host \o <<"]">> ELSE us.host)
        \o (IF us.port \in {0, DefaultPort(us.protocol)} THEN <<>> ELSE <<":">> \o Decimal(us.port))
        \o us.dir \o (IF us.dir # <<>> /\ Last(us.dir) = "/" THEN <<>> ELSE <<"/">>)
        \o us.file \o us.query

-----------------------------------------------------------------------------
(* client/spdycli.c.                                                        *)

\* parse_uri: only https, no userinfo, the path with the query.  A "[" without "]" has
\* no host.  (hostport starts at the "[" of an address but its length is counted from
\* the address, so it lacks the last character.)
parse_uri(uri) ==
    LET end == Len(uri) + 1
        literal == uri[9] = "["
        host == IF literal THEN 10 ELSE 9
        hostend == IF literal THEN SelectInSubSeq(uri, 10, Len(uri), LAMBDA ch : ch = "]")
                   ELSE Find(uri, 9, end, {":", "/", "?", "#"})
        after == IF literal THEN hostend + 1 ELSE hostend
        colon == after < end /\ uri[after] = ":"
        portend == IF colon THEN Find(uri, after + 1, end, {"/", "?", "#"}) ELSE after
        digits == Part(uri, after + 1, portend)
        path == Part(uri, portend, Find(uri, portend, end, {"#"}))
        port == IF colon THEN strtol(digits) ELSE 443
    IN  IF \/ Len(uri) < 9 \/ SubSeq(uri, 1, 8) # https \o Colon3 \/ hostend <= host
           \/ colon /\ ~(Range(digits) \subseteq DOMAIN Digits)
           \/ port \notin 1 .. 65535
        THEN NoUri
        ELSE [ok |-> TRUE, host |-> Part(uri, host, hostend), port |-> port,
              hostport |-> SubSeq(uri, 9, 9 + (portend - host) - 1),
              path |-> IF path = <<>> THEN <<"/">> ELSE path]

=============================================================================
