----------------------------- MODULE SpdyServer -----------------------------
(***************************************************************************)
(* The event loop of spdyd (SpdyServer.cc): one thread polls, lets the      *)
(* handler of every event execute, and deletes the marked handlers at the   *)
(* end of the batch.  A connection is served by an SSLAcceptEventHandler    *)
(* and then by a SpdyEventHandler that takes over its descriptor.           *)
(* Descriptors are numbers the kernel hands out again, lowest first.        *)
(*                                                                         *)
(* The spdylay session is external: it calls back for every frame, and it   *)
(* drops what is queued for a stream that is closed.                        *)
(***************************************************************************)
EXTENDS Integers, Sequences, FiniteSets, FiniteSetsExt, TLC

CONSTANTS
    Conns,        \* bound: the connections that clients make
    MaxStreams,   \* bound, per connection: its streams are 1 .. MaxStreams[c]
    MaxFd,        \* bound: descriptors are 1 .. MaxFd (the listening socket aside)
    Files,        \* the files below htdocs, numbered
    HangupAlone   \* kinds of handler that may get POLLERR or POLLHUP alone (epoll)

ASSUME SpdyServerAssumption ==
    /\ IsFiniteSet(Conns) /\ Conns = 1 .. Cardinality(Conns)
    /\ MaxStreams \in [Conns -> Nat] /\ MaxFd \in Nat /\ Files \subseteq Nat
    /\ HangupAlone \subseteq {"spdy"}    \* a socket that hangs up before that is readable, too

VARIABLES
    backend,    \* which EventPoll was built: "epoll" or "kqueue"
    fdtab,      \* what each open descriptor refers to
    poll,       \* the user data registered for each descriptor
    hd,         \* the handlers
    connfd,     \* per connection: its descriptor, 0 before accept
    goaway,     \* per connection: its session has received GOAWAY
    stream,     \* per connection and stream: its Request and the queued response
    phase, cur, batch, del_list,   \* where run() is
    lost        \* history: descriptors whose last reference was overwritten

vars == <<backend, fdtab, poll, hd, connfd, goaway, stream, phase, cur, batch, del_list, lost>>

Free == <<"free", 0>>     \* what a descriptor that is not open refers to
Page == <<"page", 0>>     \* the pipe with a status page
Listener == <<0, "listen">>
Handlers == (Conns \X {"accept", "spdy"}) \cup {Listener}
None == <<0, "none">>
Streams(c) == 1 .. MaxStreams[c]

NewHandler == [state |-> "live", mark |-> FALSE, fail |-> FALSE, finish |-> FALSE]

\* file is that of the Request, src the descriptor in the queued data provider, want
\* what the answer promises and got what was read for it
NewStream == [state |-> "idle", file |-> 0, resp |-> "none", src |-> 0, want |-> <<"none", 0>>, got |-> {}]

Init == /\ backend \in {"epoll", "kqueue"}
        /\ fdtab = [fd \in 1 .. MaxFd |-> Free]
        /\ poll = [fd \in 1 .. MaxFd |-> None]
        /\ hd = [h \in Handlers |-> IF h = Listener THEN NewHandler
                                    ELSE [NewHandler EXCEPT !.state = "none"]]
        /\ connfd = [c \in Conns |-> 0]
        /\ goaway = [c \in Conns |-> FALSE]
        /\ stream = [c \in Conns |-> [s \in Streams(c) |-> NewStream]]
        /\ phase = "poll" /\ cur = None /\ batch = {} /\ del_list = <<>>
        /\ lost = {}

Unused(tab) == {fd \in DOMAIN tab : tab[fd] = Free}
Close(tab, fds) == [fd \in DOMAIN tab |-> IF fd \in fds THEN Free ELSE tab[fd]]
Unpoll(fds) == [fd \in DOMAIN poll |-> IF fd \in fds THEN None ELSE poll[fd]]

-----------------------------------------------------------------------------
(* Sessions::poll and the loop of run().                                    *)

\* What may become ready: a registered descriptor, the listener while clients come.
Ready == ({poll[fd] : fd \in DOMAIN poll} \ {None})
         \cup IF \E c \in Conns : connfd[c] = 0 THEN {Listener} ELSE {}

\* epoll reports a descriptor once, with all its events in one
epoll_events == {e \in SUBSET ([hd : Ready, ev : {"in"}]
                              \cup [hd : {h \in Ready : h[2] \in HangupAlone}, ev : {"hup"}]) :
                   \A f, g \in e : f.hd = g.hd => f = g}

\* kqueue reports a descriptor once per filter, and never a hangup
kqueue_events == SUBSET ([hd : Ready, ev : {"in"}] \cup [hd : Ready \ {Listener}, ev : {"out"}])

Poll ==
    /\ phase = "poll"
    /\ batch' \in (IF backend = "epoll" THEN epoll_events ELSE kqueue_events) \ {{}}
    /\ phase' = "batch"
    /\ UNCHANGED <<backend, fdtab, poll, hd, connfd, goaway, stream, cur, del_list, lost>>

\* Mutant of Executed: the handler is registered again before finish() is looked at.
Executed_registers(h, r, handlers, registered) ==
    LET gone == r # 0 \/ handlers[h].finish \/ handlers[h].mark
    IN  /\ hd' = [handlers EXCEPT ![h].mark = gone]
        /\ poll' = IF r = 0 /\ h # Listener
                   THEN [registered EXCEPT ![connfd[h[1]]] = h] ELSE registered
        /\ del_list' = IF gone THEN Append(del_list, h) ELSE del_list

\* the rest of an iteration, after execute has returned r
Executed(h, r, handlers, registered) ==
    LET gone == r # 0 \/ handlers[h].finish \/ handlers[h].mark
    IN  /\ hd' = [handlers EXCEPT ![h].mark = gone]
        /\ poll' = IF r = 0 /\ ~handlers[h].finish /\ h # Listener
                   THEN [registered EXCEPT ![connfd[h[1]]] = h]      \* mod_poll
                   ELSE registered
        /\ del_list' = IF gone THEN Append(del_list, h) ELSE del_list

\* ListenEventHandler::execute and add_next_handler
AcceptConnection ==
    \/ \E c \in Conns :
          /\ connfd[c] = 0 /\ \A d \in Conns : d < c => connfd[d] # 0
          /\ Unused(fdtab) # {}
          /\ LET fd == Min(Unused(fdtab)) IN
                /\ connfd' = [connfd EXCEPT ![c] = fd]
                /\ fdtab' = [fdtab EXCEPT ![fd] = <<"conn", c>>]
                /\ Executed(Listener, 0, [hd EXCEPT ![<<c, "accept">>] = NewHandler],
                            [poll EXCEPT ![fd] = <<c, "accept">>])
    \/ \* accept, SSL_set_fd or add_poll failed: the descriptor is closed again
       /\ Executed(Listener, 0, hd, poll)
       /\ UNCHANGED <<connfd, fdtab>>

\* Mutant of SslAccepted: fail_ stays set although the descriptor was handed over.
SslAccepted_fails(c) ==
    LET accept == [hd EXCEPT ![<<c, "accept">>].finish = TRUE, ![<<c, "accept">>].fail = TRUE]
        spdy == <<c, "spdy">>
    IN  /\ Executed(<<c, "accept">>, 0, [accept EXCEPT ![spdy] = NewHandler],
                    [poll EXCEPT ![connfd[c]] = spdy])
        /\ UNCHANGED fdtab

\* SSL_accept returned 1 and a SPDY version was negotiated: the descriptor passes to a
\* SpdyEventHandler, which is deleted at once, and closes it, if mod_poll fails.
SslAccepted(c) ==
    LET accept == [hd EXCEPT ![<<c, "accept">>].finish = TRUE]
        spdy == <<c, "spdy">>
    IN  \/ /\ Executed(<<c, "accept">>, 0, [accept EXCEPT ![spdy] = NewHandler],
                       [poll EXCEPT ![connfd[c]] = spdy])
           /\ UNCHANGED fdtab
        \/ /\ Executed(<<c, "accept">>, 0, [accept EXCEPT ![spdy].state = "deleted"],
                       Unpoll({connfd[c]}))
           /\ fdtab' = Close(fdtab, {connfd[c]})

\* SSLAcceptEventHandler::execute
SslAccept(c) ==
    /\ UNCHANGED connfd
    /\ \/ SslAccepted(c)
       \/ /\ Executed(<<c, "accept">>, 0,
                      [hd EXCEPT ![<<c, "accept">>].finish = TRUE,
                                 ![<<c, "accept">>].fail = TRUE], poll)
          /\ UNCHANGED fdtab
       \/ Executed(<<c, "accept">>, 0, hd, poll) /\ UNCHANGED fdtab   \* wants more

\* one event of the batch; a marked handler is skipped
Handle(e) ==
    /\ phase = "batch" /\ e \in batch
    /\ batch' = batch \ {e}
    /\ UNCHANGED <<backend, goaway, stream, lost>>
    /\ \/ hd[e.hd].mark /\ UNCHANGED <<phase, cur, hd, poll, del_list, connfd, fdtab>>
       \/ /\ ~hd[e.hd].mark /\ e.ev # "hup" /\ e.hd = Listener
          /\ AcceptConnection /\ UNCHANGED <<phase, cur>>
       \/ /\ ~hd[e.hd].mark /\ e.ev # "hup" /\ e.hd[2] = "accept"
          /\ SslAccept(e.hd[1]) /\ UNCHANGED <<phase, cur>>
       \/ /\ ~hd[e.hd].mark /\ e.ev # "hup" /\ e.hd[2] = "spdy"
          /\ phase' = "recv" /\ cur' = e.hd
          /\ UNCHANGED <<hd, poll, del_list, connfd, fdtab>>
       \/ /\ ~hd[e.hd].mark /\ e.ev = "hup"
          /\ Executed(e.hd, 0, [hd EXCEPT ![e.hd].mark = TRUE], poll)
          /\ UNCHANGED <<phase, cur, connfd, fdtab>>

\* ~SSLAcceptEventHandler closes the descriptor unless it was handed over
accept_closes(c) == IF hd[<<c, "accept">>].fail THEN {connfd[c]} ELSE {}

\* ~SpdyEventHandler closes the connection and, with the Requests, their files
spdy_closes(c) == {connfd[c]} \cup ({stream[c][s].file : s \in Streams(c)} \ {0})

ClosedBy(h) == CASE h[2] = "accept" -> accept_closes(h[1])
                 [] h[2] = "spdy"   -> spdy_closes(h[1])
                 [] OTHER           -> {}

\* on_close for every handler of del_list
DeleteMarked ==
    /\ phase = "batch" /\ batch = {}
    /\ LET gone == {del_list[i] : i \in DOMAIN del_list}
           closed == UNION {ClosedBy(h) : h \in gone}
       IN  /\ fdtab' = Close(fdtab, closed)
           /\ poll' = Unpoll(closed)
           /\ hd' = [h \in Handlers |-> IF h \in gone THEN [hd[h] EXCEPT !.state = "deleted"]
                                        ELSE hd[h]]
           /\ stream' = [c \in Conns |-> IF <<c, "spdy">> \in gone
                                         THEN [s \in Streams(c) |-> [NewStream EXCEPT !.state = "closed"]]
                                         ELSE stream[c]]
    /\ del_list' = <<>> /\ phase' = "poll"
    /\ UNCHANGED <<backend, connfd, goaway, cur, batch, lost>>

-----------------------------------------------------------------------------
(* Answers.                                                                 *)

\* Mutant of prepare_status_response: the wrong end of the pipe is closed.
prepare_status_response_closes(tab, file) ==
    LET first == Min(Unused(tab))
    IN  {[tab |-> tab, file |-> file, src |-> 0, want |-> <<"nothing", 0>>, lost |-> {}]}
        \cup IF Cardinality(Unused(tab)) < 2 THEN {}
             ELSE {[tab |-> tab, file |-> first, src |-> first,
                    want |-> Page, lost |-> {file} \ {0}]}

\* The page is written into a pipe whose read end becomes the Request's file, in place
\* of the one it may already have.  Without a pipe the answer has no body.
prepare_status_response(tab, file) ==
    LET first == Min(Unused(tab))
    IN  {[tab |-> tab, file |-> file, src |-> 0, want |-> <<"nothing", 0>>, lost |-> {}]}
        \cup IF Cardinality(Unused(tab)) < 2 THEN {}
             ELSE {[tab |-> [tab EXCEPT ![first] = Page], file |-> first, src |-> first,
                    want |-> Page, lost |-> {file} \ {0}]}

\* The outcomes of prepare_response for a complete request: "bad" has no usable header
\* or path, "norespond" asks for no answer, else the path of a file.
prepare_response(request) ==
    LET fd == Min(Unused(fdtab))
        opened == [fdtab EXCEPT ![fd] = request]
    IN  CASE request[1] = "norespond" ->
               {[tab |-> fdtab, file |-> 0, src |-> 0, want |-> <<"none", 0>>, lost |-> {}]}
          [] request[1] = "bad" \/ (request[1] = "file" /\ Unused(fdtab) = {}) ->
               prepare_status_response(fdtab, 0)
          [] OTHER ->
               prepare_status_response(fdtab, 0)          \* open or fstat failed
               \cup prepare_status_response(opened, fd)    \* not modified
               \cup {[tab |-> opened, file |-> fd, src |-> fd, want |-> request, lost |-> {}]}

\* htdocs_on_request_recv_callback
RequestComplete(c, s, request) ==
    \E r \in prepare_response(request) :
        /\ fdtab' = r.tab
        /\ lost' = lost \cup r.lost
        /\ stream' = [stream EXCEPT ![c][s] =
              [@ EXCEPT !.state = "complete", !.file = r.file, !.src = r.src, !.want = r.want,
                        !.resp = IF r.want[1] = "none" THEN "none" ELSE "queued"]]

-----------------------------------------------------------------------------
(* SpdyEventHandler::execute: session_recv, then session_send.              *)

\* Mutant of remove_stream: the Request is not deleted.
remove_stream_keeps(c, s) ==
    /\ fdtab' = fdtab
    /\ stream' = [stream EXCEPT ![c][s] = [@ EXCEPT !.state = "closed", !.file = 0, !.resp = "none",
                                                    !.src = 0]]

\* on_stream_close_callback: the Request is deleted, and closes its file
remove_stream(c, s) ==
    /\ fdtab' = Close(fdtab, {stream[c][s].file} \ {0})
    /\ stream' = [stream EXCEPT ![c][s] = [@ EXCEPT !.state = "closed", !.file = 0, !.resp = "none",
                                                    !.src = 0]]

Requests == ({"file"} \X Files) \cup {<<"bad", 0>>, <<"norespond", 0>>}

\* hd_on_ctrl_recv_callback and the callbacks that follow a frame: SYN_STREAM with or
\* without FIN, the frame with the FIN, RST_STREAM and GOAWAY
RecvFrame(c) ==
    /\ phase = "recv" /\ cur = <<c, "spdy">>
    /\ \/ \E s \in Streams(c) :
             \/ /\ stream[c][s].state = "idle" /\ ~goaway[c]
                /\ \A r \in Streams(c) : r < s => stream[c][r].state # "idle"
                /\ \/ /\ stream' = [stream EXCEPT ![c][s].state = "open"]
                      /\ UNCHANGED <<fdtab, lost>>
                   \/ \E request \in Requests : RequestComplete(c, s, request)
                /\ UNCHANGED goaway
             \/ /\ stream[c][s].state = "open"
                /\ \E request \in Requests : RequestComplete(c, s, request)
                /\ UNCHANGED goaway
             \/ /\ stream[c][s].state \in {"open", "complete"}
                /\ remove_stream(c, s) /\ UNCHANGED <<goaway, lost>>
       \/ /\ ~goaway[c] /\ goaway' = [goaway EXCEPT ![c] = TRUE]
          /\ UNCHANGED <<stream, fdtab, lost>>
    /\ UNCHANGED <<backend, poll, hd, connfd, phase, cur, batch, del_list>>

\* session_recv has read everything
RecvDone ==
    /\ phase = "recv" /\ phase' = "send"
    /\ UNCHANGED <<backend, fdtab, poll, hd, connfd, goaway, stream, cur, batch, del_list, lost>>

\* session_send sends a part of an answer; file_read_callback reads it from the
\* descriptor in the data provider.  The last part closes the stream, and so does the
\* RST_STREAM after a failed read.
SendFrame(c) ==
    /\ phase = "send" /\ cur = <<c, "spdy">>
    /\ \E s \in Streams(c) :
          /\ stream[c][s].resp = "queued"
          /\ \/ remove_stream(c, s)
             \/ /\ stream[c][s].src # 0
                /\ stream' = [stream EXCEPT ![c][s].got = @ \cup {fdtab[stream[c][s].src]}]
                /\ UNCHANGED fdtab
    /\ UNCHANGED <<backend, poll, hd, connfd, goaway, phase, cur, batch, del_list, lost>>

\* SpdyEventHandler::finish: the session wants neither to read nor to write
SessionFinished(c) ==
    goaway[c] /\ \A s \in Streams(c) : stream[c][s].state \in {"idle", "closed"}

\* execute returns: session_recv or session_send has failed, or session_send has sent
\* all there is or would block
ExecuteReturns(c) ==
    /\ phase \in {"recv", "send"} /\ cur = <<c, "spdy">>
    /\ \/ Executed(cur, -1, hd, poll)
       \/ phase = "send" /\ Executed(cur, 0, [hd EXCEPT ![cur].finish = SessionFinished(c)], poll)
    /\ phase' = "batch" /\ cur' = None
    /\ UNCHANGED <<backend, fdtab, connfd, goaway, stream, batch, lost>>

Next == \/ Poll \/ DeleteMarked \/ RecvDone
        \/ \E e \in batch : Handle(e)
        \/ \E c \in Conns : RecvFrame(c) \/ SendFrame(c) \/ ExecuteReturns(c)

Spec == Init /\ [][Next]_vars

-----------------------------------------------------------------------------
(* Properties.                                                              *)

Live(h) == hd[h].state = "live"

\* Nothing points to a deleted handler: not the user data the kernel holds, not an
\* event of the batch (kqueue reports a descriptor twice), not the list of handlers to
\* delete, which holds each of them once.
NoStaleHandler ==
    /\ \A fd \in DOMAIN poll : poll[fd] # None => Live(poll[fd])
    /\ \A e \in batch : Live(e.hd)
    /\ \A i, j \in DOMAIN del_list : Live(del_list[i]) /\ (i # j => del_list[i] # del_list[j])

\* A connection that is open is registered with a handler of its own, which a new one
\* replaces before the old one is deleted; and a handler that is not marked has its
\* connection open, although add_next_handler hands the descriptor over and may close it.
ConnectionServed ==
    \A c \in Conns :
        /\ \A fd \in DOMAIN fdtab : fdtab[fd] = <<"conn", c>> => connfd[c] = fd /\ poll[fd][1] = c
        /\ \A h \in Handlers :
              h[1] = c /\ Live(h) /\ ~hd[h].mark =>
                  fdtab[connfd[c]] = <<"conn", c>> /\ poll[connfd[c]] = h

\* Every open file is held by the Request of an open stream, and by only one; the rest
\* are the files of requests that were answered 304, which nobody closes.
FilesOwned ==
    \A fd \in DOMAIN fdtab :
        /\ fdtab[fd][1] \in {"file", "page"} =>
              (fd \in lost <=> ~\E c \in Conns : \E s \in Streams(c) : stream[c][s].file = fd)
        /\ fd \in lost => fdtab[fd][1] = "file"
        /\ \A c, d \in Conns : \A s \in Streams(c), t \in Streams(d) :
              stream[c][s].file = fd /\ stream[d][t].file = fd => c = d /\ s = t

\* What is sent on a stream was read from what its request named, however often the
\* descriptor numbers are reused.
ServesItsFile ==
    \A c \in Conns : \A s \in Streams(c) : stream[c][s].got \subseteq {stream[c][s].want}

=============================================================================
