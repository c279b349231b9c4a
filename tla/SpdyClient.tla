----------------------------- MODULE SpdyClient -----------------------------
(***************************************************************************)
(* The two C test clients of the push server: spdycli (register or refresh, *)
(* then listen, acknowledge every push, reconnect) and the older scalecli   *)
(* (many clients that register or listen, without retries).  Both run one   *)
(* thread per client, and a thread is a loop around one SPDY session.  Which *)
(* program runs, and in which mode, is chosen in the initial state.         *)
(*                                                                         *)
(* The server is the environment: it answers, rejects, pushes and closes.   *)
(***************************************************************************)
EXTENDS Integers, Sequences, FiniteSets, TLC

CONSTANTS
    Threads,      \* the clients that may be asked for, created in this order
    None,         \* an empty clientId or pushId
    Cut,          \* what is stored of a push id that does not end in its chunk
    Modes,        \* subset of {"full", "refresh", "listen", "register", "unit", "profile"}
    Programs,     \* subset of {"spdycli", "scalecli"}
    numclients,   \* how many clients, per mode
    MaxRetries,   \* bound, per thread: sessions it opens after its first one
    MaxPushes,    \* bound, per mode and thread: pushes to it
    MaxFrames     \* bound: unread frames per connection

ASSUME SpdyClientAssumption ==
    /\ IsFiniteSet(Threads) /\ Threads = 1 .. Cardinality(Threads)
    /\ {None, Cut} \cap (Nat \cup (Nat \X Nat) \cup ((Nat \X Nat) \X Nat)) = {} /\ None # Cut
    /\ Modes \subseteq {"full", "refresh", "listen", "register", "unit", "profile"}
    /\ Programs \subseteq {"spdycli", "scalecli"} /\ numclients \in [Modes -> Threads]
    /\ MaxRetries \in [Threads -> Nat] /\ MaxPushes \in [Modes -> [Threads -> Nat]] /\ MaxFrames \in Nat \ {0}

VARIABLES
    program, mode, backoff,   \* which program, its mode flags, "retry" or "none"
    process,   \* "main" (creating threads), "joining", "exited" or "crashed"
    global,    \* the globals of scalecli: gUri, the client created last, and assoc_stream_id
    th,        \* per thread: its ThreadUri
    session,   \* per thread: its SPDY session
    inbox,     \* per thread: frames from the server it has not read
    srv        \* per thread: what the server still has to send in the session

vars == <<program, mode, backoff, process, global, th, session, inbox, srv>>

\* The client id that main gives every client that is to refresh its push id.
RefreshTestClient == <<0, 0>>

\* A client id is <<t, 0>>, made up by thread t, or <<t, n>>, issued by the server
\* for its n-th registration; a push id is <<client id, n>>.
ClientIds(t) == {RefreshTestClient} \cup {<<t, n>> : n \in 0 .. MaxRetries[t] + 1}
PushIds(t) == ClientIds(t) \X (0 .. MaxRetries[t] + 1)

NewSession == [queue |-> <<>>, streams |-> <<>>, open |-> {}, pushes |-> {}, assoc |-> 0,
               goaway |-> FALSE, dead |-> FALSE]

\* streams answered, those answered in full, pushes announced without their data, streams
\* being closed
NewServer == [answered |-> {}, ended |-> {}, announced |-> {}, closing |-> {}]

\* the options of scalecli: -p and -r
scalecli_modes == {"listen", "register"}

Init == /\ program \in Programs /\ mode \in Modes
        /\ backoff \in {"retry", "none"}
        /\ program = "scalecli" => mode \in scalecli_modes /\ backoff = "none"
        /\ process = "main" /\ global = [gUri |-> None, assoc |-> 0]
        /\ th = [t \in Threads |-> [pc |-> "none", clientId |-> None, pushId |-> None,
                                    retries |-> 0, pushed |-> 0, issued |-> 0]]
        /\ session = [t \in Threads |-> NewSession]
        /\ inbox = [t \in Threads |-> <<>>]
        /\ srv = [t \in Threads |-> NewServer]

config == <<program, mode, backoff>>
Running == process \in {"main", "joining"}

-----------------------------------------------------------------------------
(* main.                                                                    *)

\* The ids main of spdycli starts a client with: in listen mode both are made up,
\* in refresh mode every client gets the same client id.
spdycli_ids(t) ==
    [clientId |-> CASE mode = "listen" -> <<t, 0>> [] mode = "refresh" -> RefreshTestClient
                    [] OTHER -> None,
     pushId |-> IF mode = "listen" THEN <<<<t, 0>>, 0>> ELSE None]

\* main of scalecli makes up one name, from which the request takes both ids
scalecli_ids(t) ==
    [clientId |-> <<t, 0>>, pushId |-> IF mode = "listen" THEN <<<<t, 0>>, 0>> ELSE None]

\* main creates the threads one after the other.
CreateThread(t) ==
    /\ process = "main" /\ th[t].pc = "none" /\ \A u \in Threads : u < t => th[u].pc # "none"
    /\ LET ids == IF program = "spdycli" THEN spdycli_ids(t) ELSE scalecli_ids(t) IN
          \E created \in BOOLEAN :          \* pthread_create
             th' = [th EXCEPT ![t].pc = IF created THEN "connect" ELSE "exited",
                              ![t].clientId = ids.clientId, ![t].pushId = ids.pushId]
    /\ global' = [global EXCEPT !.gUri = t]      \* "cache the last req for ack" (scalecli)
    /\ process' = IF t = numclients[mode] THEN "joining" ELSE process
    /\ UNCHANGED <<config, session, inbox, srv>>

\* pthread_join has returned for every thread
JoinAll ==
    /\ process = "joining" /\ \A t \in 1 .. numclients[mode] : th[t].pc = "exited"
    /\ process' = "exited"
    /\ UNCHANGED <<config, global, th, session, inbox, srv>>

-----------------------------------------------------------------------------
(* A session's life.                                                        *)

\* spdylay_submit_request only queues the request.
Queued(s, request) == [s EXCEPT !.queue = Append(@, request)]
Request(kind, clientId, pushId) ==
    [kind |-> kind, clientId |-> clientId, pushId |-> pushId, push |-> 0]

\* The requests of spdycli, with the ids they carry.  Registering and acknowledging
\* have a body.
submit_request_registrateV2 == Request("register", None, None)
submit_request == Request("get", None, None)
submit_request_refresh(p) == Request("refresh", p.clientId, None)
submit_request_listenV2(p) == Request("listen", p.clientId, p.pushId)
submit_request_pushack(sender, push) == [Request("ack", sender, None) EXCEPT !.push = push]

\* The requests of scalecli: none has a body, the ack names a client in its header.
scale_submit_registrate == Request("register", None, None)
scale_submit_listen(p) == Request("listen", p.clientId, p.pushId)
scale_submit_pushack(sender, push) == [Request("ack", sender, None) EXCEPT !.push = push]

register_has_body == program = "spdycli"
ack_has_body == program = "spdycli"
HasBody(kind) == (kind = "register" /\ register_has_body) \/ (kind = "ack" /\ ack_has_body)

\* Mutant of first_request: a client whose url is the register url always registers.
first_request_by_path(p) ==
    IF mode \in {"full", "register", "unit"} THEN submit_request_registrateV2
    ELSE IF p.pushId # None THEN submit_request_listenV2(p) ELSE submit_request_refresh(p)

\* what initSpdySession submits first: listen with both ids, refresh with only the
\* client id, else what the path says: register, or the url of the memory profile
first_request(p) ==
    IF p.clientId # None
    THEN IF p.pushId # None THEN submit_request_listenV2(p) ELSE submit_request_refresh(p)
    ELSE IF mode = "profile" THEN submit_request ELSE submit_request_registrateV2

\* fetch_uri of scalecli goes by the path alone
scale_first_request(p) ==
    IF mode = "register" THEN scale_submit_registrate ELSE scale_submit_listen(p)

\* back in createSpdyClient after initSpdySession has returned
SessionOver(t) ==
    /\ session' = [session EXCEPT ![t] = NewSession]
    /\ inbox' = [inbox EXCEPT ![t] = <<>>]
    /\ srv' = [srv EXCEPT ![t] = NewServer]
    /\ th' = [th EXCEPT ![t].pc = IF backoff = "retry" THEN "backoff" ELSE "exited",
                        ![t].retries = IF @ <= MaxRetries[t] THEN @ + 1 ELSE @]
    /\ UNCHANGED <<config, process, global>>

\* die, dief and diec of scalecli end the process (those of spdycli only print)
ProcessOver(how) ==
    /\ process' = how
    /\ UNCHANGED <<config, global, th, session, inbox, srv>>

\* the session is set up and its first request queued
Connected(t, dead, request) ==
    /\ th' = [th EXCEPT ![t].pc = "loop"]
    /\ session' = [session EXCEPT ![t] = Queued([NewSession EXCEPT !.dead = dead], request)]
    /\ UNCHANGED <<config, process, global, inbox, srv>>

\* connect_to and ssl_handshake of spdycli: it gives up on a negative result only, and
\* with 0 it goes on with a connection on which every read and write fails
initSpdySession(t) ==
    /\ Running /\ program = "spdycli" /\ th[t].pc = "connect"
    /\ \/ \E dead \in BOOLEAN : Connected(t, dead, first_request(th[t]))
       \/ SessionOver(t)

\* ssl_handshake of scalecli gives up with the process, also when connect_to had failed
scale_handshake_fails == ProcessOver("exited")

\* scalecli: the request is what the path says
fetch_uri(t) ==
    /\ Running /\ program = "scalecli" /\ th[t].pc = "connect"
    /\ Connected(t, FALSE, scale_first_request(th[t])) \/ scale_handshake_fails

\* retryBackoff sleeps, then the next session is opened
retryBackoff(t) ==
    /\ Running /\ th[t].pc = "backoff" /\ th[t].retries <= MaxRetries[t]
    /\ th' = [th EXCEPT ![t].pc = "connect"]
    /\ UNCHANGED <<config, process, global, session, inbox, srv>>

-----------------------------------------------------------------------------
(* exec_io: session_recv with a callback per frame, then session_send.      *)

InLoop(t) == Running /\ th[t].pc = "loop"

\* what updateClientPushId does with a data chunk of an answer
updateClientPushId(t) ==
    CASE mode = "unit" -> "exit"
      [] \/ mode = "full" /\ th[t].clientId = None
         \/ mode = "refresh" /\ th[t].pushId = None -> "parse"
      [] OTHER -> "nothing"

\* The client the server's answer is about: a new one, or the one that refreshed.
AnsweredId(t) == IF mode = "refresh" THEN th[t].clientId ELSE <<t, th[t].issued>>

\* getPushId looks for the closing quote beyond the end of a chunk that has none: what
\* it stores ends wherever a zero byte or a quote happens to be, maybe at once.
getPushId(t, body) == IF body = "ids" THEN {<<AnsweredId(t), th[t].issued>>} ELSE {Cut, None}

\* getClientId or getPushId does not find its key, and strstr has returned NULL.  The
\* rest of an answer may have the keys of its first chunk behind it in the buffer.
KeysMissing(body) == body \in {"error", "rest"}
KeysFound(body) == body \in {"ids", "cut", "rest"}

\* spdycli, a chunk on a stream of ours: stream_user_data is the request.  The listen
\* that follows the ids is only queued here.
DataChunk(t, frame) ==
    LET what == IF frame.id \in session[t].open THEN updateClientPushId(t) ELSE "nothing" IN
    /\ \/ what = "nothing" /\ UNCHANGED <<process, session, th>>
       \/ what = "exit" /\ process' = "exited" /\ UNCHANGED <<session, th>>
       \/ /\ what = "parse" /\ KeysMissing(frame.body)
          /\ process' = "crashed" /\ UNCHANGED <<session, th>>
       \/ /\ what = "parse" /\ KeysFound(frame.body)
          /\ \E id \in getPushId(t, frame.body) :
                LET known == [th[t] EXCEPT !.clientId = AnsweredId(t), !.pushId = id] IN
                /\ th' = [th EXCEPT ![t] = known]
                /\ session' = [session EXCEPT ![t] = Queued(@, submit_request_listenV2(known))]
          /\ UNCHANGED process
    /\ UNCHANGED global

\* A chunk with data on a push stream is acknowledged if the associated stream is
\* still open.
Acknowledges(s, assoc, frame) ==
    frame.body # "empty" /\ frame.push \in s.pushes /\ assoc \in s.open

\* the client spdycli acknowledges for, from the thread's data
pushack_sender(t) == th[t].clientId

\* spdycli, a chunk on a push stream; "diehard" ends the thread instead
PushChunk(t, frame) ==
    LET ack == Acknowledges(session[t], session[t].assoc, frame)
    IN  /\ UNCHANGED <<process, global>>
        /\ session' = [session EXCEPT ![t] =
                          IF ack /\ frame.body # "diehard"
                          THEN Queued(@, submit_request_pushack(pushack_sender(t), frame.push))
                          ELSE @]
        /\ th' = [th EXCEPT ![t].pc =
                     IF ack /\ frame.body = "diehard" THEN "exited" ELSE "loop"]

\* the client scalecli acknowledges for: whichever main created last
scale_pushack_sender == <<global.gUri, 0>>

\* scalecli, any chunk: answers are printed, pushes acknowledged
scale_data_chunk(t, frame) ==
    /\ session' = [session EXCEPT ![t] =
          IF frame.type = "pdata" /\ Acknowledges(@, global.assoc, frame)
          THEN Queued(@, scale_submit_pushack(scale_pushack_sender, frame.push))
          ELSE @]
    /\ UNCHANGED <<process, global, th>>

\* on_ctrl_recv_callback of spdycli: a push is announced
on_ctrl_recv_callback(t, frame) ==
    /\ session' = [session EXCEPT ![t].assoc = frame.id, ![t].pushes = @ \cup {frame.push}]
    /\ UNCHANGED <<process, global, th>>

\* Mutant of scale_on_ctrl_recv: the push stream is kept, not the associated one.
scale_on_ctrl_recv_own(t, frame) ==
    /\ IF session[t].goaway THEN UNCHANGED <<session, global>>
       ELSE /\ session' = [session EXCEPT ![t].pushes = @ \cup {frame.push}]
            /\ global' = [global EXCEPT !.assoc = 2 * frame.push]
    /\ UNCHANGED <<process, th>>

\* that of scalecli keeps the associated stream in a global of all threads; a session
\* that has sent GOAWAY takes no new stream
scale_on_ctrl_recv(t, frame) ==
    /\ IF session[t].goaway THEN UNCHANGED <<session, global>>
       ELSE /\ session' = [session EXCEPT ![t].pushes = @ \cup {frame.push}]
            /\ global' = [global EXCEPT !.assoc = frame.id]
    /\ UNCHANGED <<process, th>>

\* on_stream_close_callback of spdycli only logs
on_stream_close_callback(s, id) == [s EXCEPT !.open = @ \ {id}]

\* on_stream_close_callback of scalecli submits GOAWAY for a stream of its own
scale_on_stream_close(s, id) ==
    [s EXCEPT !.open = @ \ {id}, !.goaway = @ \/ id \in s.open]

StreamClosed(t, frame) ==
    /\ session' = [session EXCEPT ![t] =
          IF program = "spdycli" THEN on_stream_close_callback(@, frame.id)
          ELSE scale_on_stream_close(@, frame.id)]
    /\ UNCHANGED <<process, global, th>>

\* recv_callback delivers the next frame
RecvFrame(t) ==
    /\ InLoop(t) /\ ~session[t].dead /\ inbox[t] # <<>> /\ Head(inbox[t]).type # "eof"
    /\ inbox' = [inbox EXCEPT ![t] = Tail(@)]
    /\ LET frame == Head(inbox[t]) IN
          \/ program = "spdycli" /\ frame.type = "data" /\ DataChunk(t, frame)
          \/ program = "spdycli" /\ frame.type = "pdata" /\ PushChunk(t, frame)
          \/ program = "scalecli" /\ frame.type \in {"data", "pdata"} /\ scale_data_chunk(t, frame)
          \/ program = "spdycli" /\ frame.type = "push" /\ on_ctrl_recv_callback(t, frame)
          \/ program = "scalecli" /\ frame.type = "push" /\ scale_on_ctrl_recv(t, frame)
          \/ frame.type = "close" /\ StreamClosed(t, frame)
    /\ UNCHANGED <<config, srv>>

Broken(t) == session[t].dead \/ (inbox[t] # <<>> /\ Head(inbox[t]).type = "eof")

\* exec_io of spdycli fails: what is queued is lost with the session
exec_io(t) == InLoop(t) /\ Broken(t) /\ program = "spdycli" /\ SessionOver(t)

\* exec_io of scalecli fails: so does every other client of the process
scale_exec_io(t) == InLoop(t) /\ Broken(t) /\ program = "scalecli" /\ ProcessOver("exited")

\* the id before_ctrl_send_callback finds in the frame: the next odd one
stream_id(s) == 2 * Len(s.streams) + 1

\* A request is sent on the next stream; on_data_send_callback of spdycli closes
\* stream 3 and later ones as soon as their data is sent.
Opened(s) ==
    LET request == Head(s.queue)
        id == stream_id(s)
        stays == ~HasBody(request.kind) \/ id < 3
    IN  IF request.kind = "ping" THEN [s EXCEPT !.queue = Tail(@)]
        ELSE [s EXCEPT !.queue = Tail(@), !.streams = Append(@, request.kind),
                       !.open = IF stays THEN @ \cup {id} ELSE @]

\* session_send, once session_recv has read everything there is
SendFrame(t) ==
    /\ InLoop(t) /\ ~session[t].dead /\ session[t].queue # <<>> /\ inbox[t] = <<>>
    /\ session' = [session EXCEPT ![t] = Opened(@)]
    /\ th' = [th EXCEPT ![t].issued =
                 IF Head(session[t].queue).kind \in {"register", "refresh"} THEN @ + 1 ELSE @]
    /\ UNCHANGED <<config, process, global, inbox, srv>>

\* Mutant of submitPingOrRefresh: it refreshes the push id, as in the lines commented out.
submitPingOrRefresh_refreshes(t) ==
    /\ InLoop(t) /\ program = "spdycli" /\ ~session[t].dead
    /\ inbox[t] = <<>> /\ session[t].queue = <<>> /\ th[t].issued <= MaxRetries[t]
    /\ session' = [session EXCEPT ![t] = Queued(@, submit_request_refresh(th[t]))]
    /\ UNCHANGED <<config, process, global, th, inbox, srv>>

\* poll times out after 15 minutes without a frame
submitPingOrRefresh(t) ==
    /\ InLoop(t) /\ program = "spdycli" /\ ~session[t].dead
    /\ inbox[t] = <<>> /\ session[t].queue = <<>>
    /\ session' = [session EXCEPT ![t] = Queued(@, Request("ping", None, None))]
    /\ UNCHANGED <<config, process, global, th, inbox, srv>>

\* scalecli leaves the loop when GOAWAY is sent and no stream is left
LoopEnds(t) ==
    /\ InLoop(t) /\ session[t].goaway /\ session[t].open = {} /\ session[t].queue = <<>>
    /\ SessionOver(t)

ThreadStep(t) ==
    \/ initSpdySession(t) \/ fetch_uri(t) \/ retryBackoff(t) \/ RecvFrame(t)
    \/ exec_io(t) \/ scale_exec_io(t) \/ SendFrame(t) \/ LoopEnds(t)

-----------------------------------------------------------------------------
(* The server (external).                                                   *)

Kind(t, id) == session[t].streams[(id + 1) \div 2]
StreamIds(t) == {2 * k - 1 : k \in DOMAIN session[t].streams}

Frame(t, type, id, push, body) ==
    /\ Len(inbox[t]) < MaxFrames
    /\ inbox[t] # <<>> => inbox[t][Len(inbox[t])].type # "eof"
    /\ inbox' = [inbox EXCEPT ![t] = Append(@, [type |-> type, id |-> id, push |-> push,
                                                body |-> body])]
    /\ UNCHANGED <<config, process, global, session>>

\* Register and refresh are answered with the ids, or with an error; a listen request
\* that is refused is answered with an error.  An answer may come in two chunks, and the
\* first of them may end inside the push id ("cut") or before its key (as "error").
ServerAnswer(t, id, body) ==
    /\ InLoop(t) /\ id \in StreamIds(t) \ srv[t].closing
    /\ \/ Kind(t, id) \in {"register", "refresh"} /\ body \in {"ids", "cut"} /\ id \notin srv[t].answered
       \/ Kind(t, id) # "ack" /\ body = "error" /\ id \notin srv[t].answered
       \/ /\ Kind(t, id) \in {"register", "refresh"} /\ body = "rest"
          /\ id \in srv[t].answered \ srv[t].ended
    /\ Frame(t, "data", id, 0, body)
    /\ srv' = [srv EXCEPT ![t].answered = @ \cup {id},
                          ![t].ended = IF body = "rest" THEN @ \cup {id} ELSE @]
    /\ UNCHANGED th

ServerPush(t, id) ==
    /\ InLoop(t) /\ id \in StreamIds(t) \ srv[t].closing /\ Kind(t, id) = "listen"
    /\ th[t].pushed < MaxPushes[mode][t]
    /\ Frame(t, "push", id, th[t].pushed + 1, "none")
    /\ srv' = [srv EXCEPT ![t].announced = @ \cup {th[t].pushed + 1}]
    /\ th' = [th EXCEPT ![t].pushed = @ + 1]

ServerPushData(t, push, body) ==
    /\ InLoop(t) /\ push \in srv[t].announced
    /\ Frame(t, "pdata", 0, push, body)
    /\ srv' = [srv EXCEPT ![t].announced = @ \ {push}]
    /\ UNCHANGED th

ServerClose(t, id) ==
    /\ InLoop(t) /\ id \in StreamIds(t) \ srv[t].closing
    /\ Frame(t, "close", id, 0, "none")
    /\ srv' = [srv EXCEPT ![t].closing = @ \cup {id}]
    /\ UNCHANGED th

ServerEof(t) ==
    /\ InLoop(t) /\ ~session[t].dead /\ Frame(t, "eof", 0, 0, "none")
    /\ UNCHANGED <<th, srv>>

Server(t) ==
    \/ \E id \in StreamIds(t) :
          \/ \E body \in {"ids", "cut", "error", "rest"} : ServerAnswer(t, id, body)
          \/ ServerPush(t, id) \/ ServerClose(t, id)
    \/ \E push \in srv[t].announced, body \in {"msg", "diehard", "empty"} :
          ServerPushData(t, push, body)
    \/ ServerEof(t)

Next == \/ \E t \in Threads : CreateThread(t) \/ ThreadStep(t) \/ submitPingOrRefresh(t)
                               \/ Server(t)
        \/ JoinAll

Spec == Init /\ [][Next]_vars

-----------------------------------------------------------------------------
(* Properties.                                                              *)

\* Type invariant; a session's open streams are among the odd ids it has used.
TypeOK ==
    /\ process \in {"main", "joining", "exited", "crashed"} /\ global.gUri \in Threads \cup {None}
    /\ \A t \in Threads :
          /\ th[t].pc \in {"none", "connect", "loop", "backoff", "exited"}
          /\ th[t].clientId \in ClientIds(t) \cup {None}
          /\ th[t].pushId \in PushIds(t) \cup {None, Cut}
          /\ th[t].retries \in 0 .. MaxRetries[t] + 1 /\ th[t].pushed \in 0 .. MaxPushes[mode][t]
          /\ session[t].open \subseteq StreamIds(t)
          /\ session[t].pushes \subseteq 1 .. MaxPushes[mode][t]
          /\ Len(inbox[t]) <= MaxFrames

Count(seq, kind(_)) == Cardinality({k \in DOMAIN seq : kind(seq[k])})

Whole(pushId) == pushId \notin {None, Cut}

\* A session of a client that has its push id listens with it, and listens once: the
\* second chunk of an answer and the answers to later requests do not start another
\* listen.  (After a chunk that was cut in the push id, updateClientPushId may.)
ExactlyOneListen ==
    \A t \in Threads :
        InLoop(t) /\ Whole(th[t].pushId) =>
            Count(session[t].queue, LAMBDA r : r.kind = "listen")
              + Count(session[t].streams, LAMBDA kind : kind = "listen") = 1

\* A client that has a push id, whole or cut, keeps it: no later session registers or
\* refreshes ("listen when client has both clientid and pushid").
NeverRegistersAgain ==
    \A t \in Threads :
        th[t].pushId # None =>
            Count(session[t].queue, LAMBDA r : r.kind \in {"register", "refresh"}) = 0

\* The stream a push is taken to belong to: kept by the thread in spdycli, in a global
\* of all threads in scalecli.
Assoc(t) == IF program = "spdycli" THEN session[t].assoc ELSE global.assoc

\* A push is acknowledged if its listen request is still open: the associated stream that
\* on_data_chunk_recv_callback looks up is the listen request of this very session, also
\* in scalecli, where every thread overwrites it between the announcement and the data.
PushFindsListen ==
    \A t \in Threads :
        InLoop(t) /\ session[t].pushes # {} /\ Whole(th[t].pushId) =>
            \A id \in session[t].open : Kind(t, id) = "listen" => Assoc(t) = id

=============================================================================
