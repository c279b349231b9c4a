---------------------------- MODULE MCHttpParser ----------------------------
(* One or two messages for every way a body can be delimited, and inputs that *)
(* are malformed, cut off or too long.                                       *)
EXTENDS HttpParser, HttpMessage

MCPlain == [type |-> "request", start |-> <<"G", "E", "T">>, url |-> [PATH |-> <<"/">>], valid |-> TRUE, minor |-> "1",
            method |-> "GET", status |-> 0, headers |-> <<>>, keep_alive |-> TRUE,
            upgrade |-> FALSE, body |-> <<>>, chunks |-> <<>>, trailer |-> <<>>, empty |-> CRLF]
MCReply == [MCPlain EXCEPT !.type = "response", !.start = <<"2", "0", "0">>, !.url = [PATH |-> <<>>],
                           !.method = "none", !.status = 200]

MCLength(digits) == [name |-> <<"C", "o", "n", "t", "e">>, values |-> <<digits>>]
MCChunked == [name |-> <<"T", "e">>, values |-> <<<<"c", "h">>>>]
MCClose == [name |-> <<"C", "o", "n", "n", "e">>, values |-> <<<<"c", "l">>>>]
MCKeepAlive == [name |-> <<"p", "X">>, values |-> <<<<"K", "a">>>>]
MCUpgrade == [name |-> <<"u", "p">>, values |-> <<<<"x">>>>]
MCOther == [name |-> <<"c", "o", "x">>, values |-> <<<<"c">>, <<"h">>>>]
MCEmpty == [name |-> <<"p", "a">>, values |-> <<<<>>>>]
MCChunks == <<[size |-> <<"2">>, data |-> <<"a", "b">>], [size |-> <<"1", ";", "x">>, data |-> <<"CR">>]>>

MCPost == [MCPlain EXCEPT !.start = <<"P", "O", "S", "T">>, !.method = "POST",
                          !.headers = <<MCLength(<<"0", "2">>)>>, !.body = <<"a", "LF">>]
MCMethod(m) == [MCPlain EXCEPT !.start = method_strings[m], !.method = m]
MCLong == [MCPlain EXCEPT !.url = [PATH |-> [i \in 1 .. 30 |-> IF i = 1 THEN "/" ELSE "a"]]]

\* Urls: absolute, with a user, an address, ports at the limit, and what is no host.
MCUrl(parts, valid) == Input(<<[MCPlain EXCEPT !.url = parts, !.valid = valid, !.minor = "none",
                                                !.keep_alive = FALSE]>>, FALSE)
MCHost == [SCHEMA |-> http, HOST |-> <<"a", ".", "b">>]
MCUrls ==
    {MCUrl(MCHost, TRUE),
     MCUrl(MCHost @@ [USERINFO |-> <<"a", "%", "4", "0", ":", "b", "%", "3", "A">>, PORT |-> <<"6", "5", "5", "3", "5">>], TRUE),
     MCUrl(MCHost @@ [PORT |-> <<"6", "5", "5", "3", "6">>, PATH |-> <<"/">>], FALSE),
     MCUrl(MCHost @@ [PORT |-> <<>>, PATH |-> <<"/">>], FALSE),
     MCUrl(MCHost @@ [PORT |-> <<"a">>], FALSE),
     MCUrl(MCHost @@ [USERINFO |-> <<>>, QUERY |-> <<"?", "a">>, FRAGMENT |-> <<"?">>], TRUE),
     MCUrl([SCHEMA |-> http, USERINFO |-> <<"a">>, HOST |-> <<>>], FALSE),
     MCUrl([SCHEMA |-> http, HOST |-> <<"a", ":", ":", "1">>, PORT |-> <<"8">>, PATH |-> <<"/", "x">>], TRUE),
     MCUrl([SCHEMA |-> http, HOST |-> <<"x", ":">>], FALSE),
     MCUrl([SCHEMA |-> http, PATH |-> <<"/", "x">>], FALSE),
     MCUrl([SCHEMA |-> http, QUERY |-> <<"x">>], FALSE),
     MCUrl([PATH |-> <<"*">>], TRUE),
     MCUrl([SCHEMA |-> https, HOST |-> <<"a">>, PORT |-> <<"8", "0">>, PATH |-> <<"/", "b", "/", "x">>,
            QUERY |-> <<"/">>], TRUE),
     MCUrl([SCHEMA |-> https, HOST |-> <<":", ":", "1">>, PATH |-> <<"/">>, FRAGMENT |-> <<"a">>], TRUE),
     MCUrl([SCHEMA |-> https, HOST |-> <<"a", ".", "b">>, QUERY |-> <<"a">>], TRUE),
     MCUrl([PATH |-> <<"/", "a">>, QUERY |-> <<>>, FRAGMENT |-> <<"a">>], TRUE)}

MCConnect(parts, valid) ==
    Input(<<[MCPlain EXCEPT !.start = method_strings["CONNECT"], !.method = "CONNECT", !.url = parts,
                            !.valid = valid, !.upgrade = TRUE, !.body = <<"a", "b">>]>>, FALSE)

\* Lengths that do not fit the counter, and that its check misses: 71 is taken for 7,
\* and 45 in hexadecimal for 5.
MCWrapped ==
    {Input(<<[MCReply EXCEPT !.headers = <<MCLength(<<"7", "1">>)>>,
                             !.body = <<"a", "b", "c", "d", "e", "f", "x">>]>>, FALSE),
     Input(<<[MCReply EXCEPT !.headers = <<MCChunked>>,
                !.chunks = <<[size |-> <<"4", "5">>, data |-> <<"a", "b", "c", "d", "e">>]>>]>>, FALSE)}

MCGood ==
    {Input(<<[MCPlain EXCEPT !.headers = <<MCOther, MCEmpty>>], MCPlain>>, FALSE),
     Input(<<MCPost, [MCPlain EXCEPT !.headers = <<MCClose>>, !.keep_alive = FALSE]>>, FALSE),
     Input(<<[MCPlain EXCEPT !.headers = <<MCChunked>>, !.chunks = MCChunks,
                             !.trailer = <<MCOther>>], MCPlain>>, FALSE),
     Input(<<[MCPlain EXCEPT !.minor = "0", !.headers = <<MCKeepAlive>>]>>, FALSE),
     Input(<<[MCPlain EXCEPT !.minor = "none", !.keep_alive = FALSE, !.empty = <<"LF">>]>>, FALSE),
     MCConnect([HOST |-> <<"a">>, PORT |-> <<"4">>], TRUE), MCConnect([HOST |-> <<"a">>], FALSE),
     Input(<<[MCPlain EXCEPT !.headers = <<MCUpgrade>>, !.upgrade = TRUE, !.body = <<"LF", "a">>]>>, FALSE),
     Input(<<[MCReply EXCEPT !.headers = <<MCLength(<<"2">>)>>, !.body = <<"a", "b">>],
             [MCReply EXCEPT !.start = <<"3", "0", "4", "SP", "x">>, !.status = 304]>>, FALSE),
     Input(<<[MCReply EXCEPT !.headers = <<MCChunked>>, !.chunks = MCChunks]>>, FALSE),
     Input(<<[MCReply EXCEPT !.body = <<"a", "b", "c">>, !.keep_alive = FALSE]>>, FALSE),
     Input(<<[MCReply EXCEPT !.headers = <<MCLength(<<"9">>)>>]>>, TRUE)}
    \cup MCWrapped
    \cup MCUrls
    \cup {[Input(<<m>>, FALSE) EXCEPT !.type = "both"] :
             m \in {MCPlain, MCMethod("HEAD"), [MCReply EXCEPT !.status = 304, !.start = <<"3", "0", "4">>]}}
    \cup {Input(<<MCMethod(m)>>, FALSE) : m \in DOMAIN method_strings \ {"CONNECT"}}

MCBad ==
    {Broken(Input(<<MCPost>>, FALSE), 8, "x", "INVALID_CONSTANT"),
     Broken(Input(<<MCPost>>, FALSE), 26, "x", "INVALID_CONTENT_LENGTH"),
     Broken(Input(<<MCPost>>, FALSE), 28, "x", "STRICT"),
     Broken(Input(<<[MCPlain EXCEPT !.headers = <<MCLength(<<"6", "3">>)>>]>>, FALSE), 25, "4",
            "INVALID_CONTENT_LENGTH"),
     Broken(Input(<<[MCPlain EXCEPT !.headers = <<MCChunked>>, !.chunks = MCChunks]>>, FALSE), 27, "x",
            "INVALID_CHUNK_SIZE"),
     Cut(Input(<<MCPost>>, FALSE), 31),
     [Input(<<MCLong>>, FALSE) EXCEPT !.errno = "HEADER_OVERFLOW"]}

MCInputs == MCGood \cup MCBad
=============================================================================
