-------------------------- MODULE SpdyServerProofs --------------------------
(***************************************************************************)
(* For any number of connections, streams, descriptors and files, with both *)
(* event backends and every order of events: spdyd never calls a handler    *)
(* that is deleted, every connection that is open is served by a handler of *)
(* its own, every open file has one owner, and an answer is read from what  *)
(* its request named, although descriptor numbers are used again and again. *)
(***************************************************************************)
EXTENDS SpdyServer, WellFoundedInduction, FiniteSetTheorems, SequenceTheorems, TLAPS

-----------------------------------------------------------------------------
(* The inductive invariant.                                                *)

Fds == 1 .. MaxFd
ConnHandlers == Conns \X {"accept", "spdy"}
Conn(c) == <<"conn", c>>
Opened == ({"file"} \X Files) \cup {Page}        \* what a Request has open
AnyHandler == [state : {"none", "live", "deleted"}, mark : BOOLEAN, fail : BOOLEAN,
               finish : BOOLEAN]
AnyStream == [state : {"idle", "open", "complete", "closed"}, file : 0 .. MaxFd,
              resp : {"none", "queued"}, src : 0 .. MaxFd,
              want : Opened \cup {<<"nothing", 0>>, <<"none", 0>>},
              got : SUBSET (Opened \cup {<<"nothing", 0>>, <<"none", 0>>})]

Typed ==
    /\ backend \in {"epoll", "kqueue"}
    /\ fdtab \in [Fds -> {Free} \cup {Conn(c) : c \in Conns} \cup Opened]
    /\ poll \in [Fds -> ConnHandlers \cup {None}]
    /\ hd \in [Handlers -> AnyHandler]
    /\ connfd \in [Conns -> 0 .. MaxFd]
    /\ goaway \in [Conns -> BOOLEAN]
    /\ DOMAIN stream = Conns /\ \A c \in Conns : stream[c] \in [Streams(c) -> AnyStream]
    /\ phase \in {"poll", "batch", "recv", "send"}
    /\ phase \in {"recv", "send"} => cur \in Conns \X {"spdy"}
    /\ batch \subseteq [hd : Handlers, ev : {"in", "out", "hup"}]
    /\ del_list \in Seq(Handlers)
    /\ lost \subseteq Fds

\* Connection c is open, and registered with its handler of this kind.
Serves(c, kind) ==
    connfd[c] \in Fds /\ fdtab[connfd[c]] = Conn(c) /\ poll[connfd[c]] = <<c, kind>>

\* The life of a connection.  Its accept handler serves it until it is marked: then it
\* has failed and is to close the descriptor, or has handed it over to a SpdyEventHandler,
\* which serves the connection or was deleted at once.
ConnInv(c) ==
    LET accept == hd[<<c, "accept">>]
        spdy == hd[<<c, "spdy">>]
    IN  /\ connfd[c] = 0 => accept.state = "none" /\ spdy.state = "none"
        /\ accept.state = "none" => spdy.state = "none" /\ connfd[c] = 0
        /\ accept.state = "live" /\ ~accept.mark => ~accept.fail /\ ~accept.finish /\ spdy.state = "none"
        /\ accept.state = "live" /\ (accept.fail \/ spdy.state = "none") =>
              spdy.state = "none" /\ Serves(c, "accept") /\ (accept.mark => accept.fail)
        /\ spdy.state = "live" => Serves(c, "spdy")

\* What is registered belongs to a connection that is open, and the other way round.
PollInv ==
    /\ \A fd \in Fds : poll[fd] # None =>
          /\ fdtab[fd] = Conn(poll[fd][1]) /\ hd[poll[fd]].state = "live"
          /\ poll[fd][2] = "accept" => hd[<<poll[fd][1], "spdy">>].state = "none"
    /\ \A fd \in Fds, c \in Conns : fdtab[fd] = Conn(c) => connfd[c] = fd /\ poll[fd] # None

\* The handlers to delete are those that are marked, each of them once; nothing is left
\* of a batch before the next poll, and the handler that executes is live.
BatchInv ==
    /\ hd[Listener].state = "live" /\ ~hd[Listener].mark /\ ~hd[Listener].finish
    /\ \A i \in DOMAIN del_list : hd[del_list[i]].state = "live" /\ hd[del_list[i]].mark
    /\ \A i, j \in DOMAIN del_list : i # j => del_list[i] # del_list[j]
    /\ \A h \in Handlers : hd[h].state = "live" /\ hd[h].mark => \E i \in DOMAIN del_list : del_list[i] = h
    /\ \A e \in batch : /\ hd[e.hd].state = "live"
                        /\ e.ev = "hup" => e.hd \in Conns \X {"spdy"}
    /\ phase = "poll" => batch = {} /\ del_list = <<>>
    /\ phase \in {"recv", "send"} => hd[cur].state = "live" /\ ~hd[cur].mark

\* A stream has a file only while its request is complete, and sends what is in it.
StreamInv ==
    \A c \in Conns : \A s \in Streams(c) :
        LET r == stream[c][s] IN
        /\ r.file # 0 => r.state = "complete" /\ fdtab[r.file] \in Opened /\ r.file \notin lost
        /\ r.src # 0 => r.src = r.file /\ fdtab[r.src] = r.want
        /\ r.state \in {"idle", "open"} => r.got = {} /\ r.resp = "none"
        /\ r.got \subseteq {r.want}

IndInv == Typed /\ (\A c \in Conns : ConnInv(c)) /\ PollInv /\ BatchInv /\ StreamInv /\ FilesOwned

-----------------------------------------------------------------------------
(* Descriptors.                                                            *)

\* What the assumption says of connections and descriptors.
LEMMA Numbers ==
  /\ MaxFd \in Nat /\ Fds \subseteq Nat /\ 0 \notin Fds
  /\ 0 \notin Conns /\ Listener \notin ConnHandlers /\ None \notin ConnHandlers
  /\ None \notin Handlers /\ Handlers = ConnHandlers \cup {Listener}
<1>1. MaxFd \in Nat /\ Fds \subseteq Nat /\ 0 \notin Fds
  BY SpdyServerAssumption DEF Fds
<1>2. 0 \notin Conns
  BY SpdyServerAssumption, FS_CardinalityType
<1> QED
  BY <1>1, <1>2 DEF Listener, None, ConnHandlers, Handlers

\* The kernel finds a lowest descriptor that is free, if one is.
LEMMA LowestFree ==
  ASSUME NEW U \in SUBSET Nat, U # {}
  PROVE  Min(U) \in U
<1>1. \E x \in U : \A y \in U : ~(<<y, x>> \in OpToRel(<, Nat))
  BY NatLessThanWellFounded, WFMin
<1>2. \A x, y \in Nat : ~(<<y, x>> \in OpToRel(<, Nat)) => x <= y
  BY DEF OpToRel
<1>3. \E x \in U : \A y \in U : x <= y
  BY <1>1, <1>2
<1> QED
  BY <1>3 DEF Min

Tables == [Fds -> {Free} \cup {Conn(c) : c \in Conns} \cup Opened]

\* The kinds of what a descriptor refers to exclude each other.
LEMMA KindsDiffer ==
  /\ Free \notin Opened /\ \A c \in Conns : Conn(c) # Free /\ Conn(c) \notin Opened
  /\ \A c, d \in Conns : Conn(c) = Conn(d) => c = d
  /\ \A x \in {Free} \cup {Conn(c) : c \in Conns} \cup Opened :
        x[1] \in {"file", "page"} <=> x \in Opened
BY DEF Free, Conn, Opened, Page

\* An answer: what it opens was free before, and is the Request's file or lost.
Prepared(r) ==
    /\ r.tab \in Tables /\ r.file \in 0 .. MaxFd /\ r.src \in {0, r.file}
    /\ r.lost \subseteq Fds /\ r.want \in Opened \cup {<<"nothing", 0>>, <<"none", 0>>}
    /\ r.file \notin r.lost
    /\ \A fd \in Fds : IF fd \in r.lost \cup {r.file} THEN fdtab[fd] = Free /\ r.tab[fd] \in Opened
                       ELSE r.tab[fd] = fdtab[fd]
    /\ \A fd \in r.lost : r.tab[fd][1] = "file"
    /\ r.src # 0 => r.tab[r.src] = r.want

\* prepare_status_response, for a Request that has a file open or none
LEMMA StatusPrepared ==
  ASSUME Typed, NEW tab \in Tables, NEW file \in 0 .. MaxFd,
         \A fd \in Fds \ {file} : tab[fd] = fdtab[fd],
         file # 0 => fdtab[file] = Free /\ tab[file] \in {"file"} \X Files,
         NEW r \in prepare_status_response(tab, file)
  PROVE  Prepared(r)
<1> DEFINE first == Min(Unused(tab))
<1>0. {"file"} \X Files \subseteq Opened /\ Page \in Opened
  BY DEF Opened
<1>1. CASE r = [tab |-> tab, file |-> file, src |-> 0, want |-> <<"nothing", 0>>, lost |-> {}]
  BY <1>0, <1>1, Numbers DEF Prepared
<1>2. CASE /\ ~(Cardinality(Unused(tab)) < 2)
           /\ r = [tab |-> [tab EXCEPT ![first] = Page], file |-> first, src |-> first,
                   want |-> Page, lost |-> {file} \ {0}]
  <2>1. Unused(tab) # {}
    BY SMTT(30), <1>2, FS_EmptySet
  <2>2. first \in Unused(tab)
    <3>1. Unused(tab) \in SUBSET Nat
      BY Numbers DEF Unused, Tables
    <3> QED
      BY <2>1, <3>1, LowestFree
  <2>3. first \in Fds /\ tab[first] = Free /\ first \in 0 .. MaxFd
    BY <2>2, Numbers DEF Unused, Tables, Fds
  <2>4. first # file /\ fdtab[first] = Free
    BY <1>0, <2>3, KindsDiffer, Numbers
  <2>5. file # 0 => file \in Fds
    BY Numbers DEF Fds
  <2> HIDE DEF first
  <2>6. r.tab \in Tables
    BY <1>0, <1>2, <2>3 DEF Tables
  <2>7. \A fd \in Fds : IF fd \in r.lost \cup {r.file} THEN fdtab[fd] = Free /\ r.tab[fd] \in Opened
                        ELSE r.tab[fd] = fdtab[fd]
    BY <1>0, <1>2, <2>3, <2>4, Numbers DEF Tables
  <2>8. \A fd \in r.lost : r.tab[fd][1] = "file"
    BY <1>2, <2>3, <2>4, <2>5 DEF Tables
  <2> QED
    BY <1>0, <1>2, <2>3, <2>4, <2>5, <2>6, <2>7, <2>8, Numbers DEF Prepared, Tables
<1> QED
  BY <1>1, <1>2 DEF prepare_status_response

\* prepare_response
LEMMA ResponsePrepared ==
  ASSUME Typed, NEW request \in Requests, NEW r \in prepare_response(request)
  PROVE  Prepared(r)
<1> DEFINE fd == Min(Unused(fdtab))
           opened == [fdtab EXCEPT ![fd] = request]
<1>0. fdtab \in Tables /\ 0 \in 0 .. MaxFd
  BY Numbers DEF Typed, Tables
<1>1. CASE request[1] = "norespond"
  <2>1. r = [tab |-> fdtab, file |-> 0, src |-> 0, want |-> <<"none", 0>>, lost |-> {}]
    BY <1>1 DEF prepare_response
  <2> QED
    BY <1>0, <2>1, Numbers DEF Prepared
<1>2. CASE r \in prepare_status_response(fdtab, 0)
  BY <1>0, <1>2, StatusPrepared
<1>3. CASE request[1] = "file" /\ Unused(fdtab) # {}
  <2>1. fd \in Unused(fdtab)
    <3>1. Unused(fdtab) \in SUBSET Nat
      BY <1>0, Numbers DEF Unused, Tables
    <3> QED
      BY <1>3, <3>1, LowestFree
  <2>2. fd \in Fds /\ fdtab[fd] = Free /\ fd \in 0 .. MaxFd /\ fd # 0
    BY <1>0, <2>1, Numbers DEF Unused, Tables, Fds
  <2>3. request \in {"file"} \X Files /\ request \in Opened
    BY <1>3 DEF Requests, Opened
  <2>4. \/ r \in prepare_status_response(fdtab, 0)
        \/ r \in prepare_status_response(opened, fd)
        \/ r = [tab |-> opened, file |-> fd, src |-> fd, want |-> request, lost |-> {}]
    BY <1>3 DEF prepare_response
  <2> HIDE DEF fd
  <2>5. opened \in Tables /\ opened[fd] = request /\ \A g \in Fds \ {fd} : opened[g] = fdtab[g]
    BY <1>0, <2>2, <2>3 DEF Tables
  <2>6. CASE r \in prepare_status_response(opened, fd)
    BY <2>2, <2>3, <2>5, <2>6, StatusPrepared
  <2>7. CASE r = [tab |-> opened, file |-> fd, src |-> fd, want |-> request, lost |-> {}]
    <3> HIDE DEF opened
    <3> QED
      BY <2>2, <2>3, <2>5, <2>7 DEF Prepared
  <2> QED
    BY <1>2, <2>4, <2>6, <2>7
<1>4. /\ request[1] \in {"norespond", "bad", "file"}
      /\ request[1] = "bad" \/ (request[1] = "file" /\ Unused(fdtab) = {})
            => r \in prepare_status_response(fdtab, 0)
  BY DEF Requests, prepare_response
<1> QED
  BY <1>1, <1>2, <1>3, <1>4

-----------------------------------------------------------------------------
(* Requests and answers leave the connections alone.                       *)

LEMMA ConnsKept ==
  ASSUME IndInv, UNCHANGED <<poll, hd, connfd>>,
         \A fd \in Fds, c \in Conns : fdtab'[fd] = Conn(c) <=> fdtab[fd] = Conn(c)
  PROVE  (\A c \in Conns : ConnInv(c)') /\ PollInv'
<1>1. ASSUME NEW c \in Conns PROVE ConnInv(c)'
  BY DEF IndInv, ConnInv, Serves
<1>2. ASSUME NEW fd \in Fds, poll[fd] # None
      PROVE  /\ fdtab'[fd] = Conn(poll[fd][1]) /\ hd[poll[fd]].state = "live"
             /\ poll[fd][2] = "accept" => hd[<<poll[fd][1], "spdy">>].state = "none"
  <2>1. poll[fd][1] \in Conns
    BY <1>2 DEF IndInv, Typed, ConnHandlers
  <2> QED
    BY <1>2, <2>1 DEF IndInv, PollInv
<1>3. PollInv'
  BY <1>2 DEF IndInv, PollInv
<1> QED
  BY <1>1, <1>3

\* One stream gets a new value.
LEMMA OneStream ==
  ASSUME Typed, NEW c \in Conns, NEW s \in Streams(c), NEW x \in AnyStream,
         stream' = [stream EXCEPT ![c][s] = x]
  PROVE  /\ DOMAIN stream' = Conns /\ \A d \in Conns : stream'[d] \in [Streams(d) -> AnyStream]
         /\ stream'[c][s] = x
         /\ \A d \in Conns : \A t \in Streams(d) :
               <<d, t>> # <<c, s>> => stream'[d][t] = stream[d][t]
BY DEF Typed

\* What the session does with one stream keeps the invariant if the files do.
LEMMA StreamStep ==
  ASSUME IndInv, NEW c \in Conns, NEW s \in Streams(c), NEW x \in AnyStream,
         stream' = [stream EXCEPT ![c][s] = x],
         fdtab' \in Tables, lost' \subseteq Fds,
         \A fd \in Fds, d \in Conns : fdtab'[fd] = Conn(d) <=> fdtab[fd] = Conn(d),
         StreamInv', FilesOwned',
         UNCHANGED <<backend, poll, hd, connfd, goaway, phase, cur, batch, del_list>>
  PROVE  IndInv'
<1>1. Typed'
  BY OneStream DEF IndInv, Typed, Tables
<1>2. (\A d \in Conns : ConnInv(d)') /\ PollInv'
  BY ConnsKept
<1>3. BatchInv'
  BY DEF IndInv, BatchInv
<1> QED
  BY <1>1, <1>2, <1>3 DEF IndInv

\* Who may have descriptor fd open.
LEMMA FileFacts ==
  ASSUME IndInv, NEW fd \in Fds
  PROVE  /\ fdtab[fd] \in Opened =>
               (fd \in lost <=> ~\E d \in Conns : \E t \in Streams(d) : stream[d][t].file = fd)
         /\ fd \in lost => fdtab[fd][1] = "file" /\ fdtab[fd] \in Opened
         /\ \A d, e \in Conns : \A t \in Streams(d), u \in Streams(e) :
               stream[d][t].file = fd /\ stream[e][u].file = fd => d = e /\ t = u
         /\ \A d \in Conns : \A t \in Streams(d) : stream[d][t].file = fd => fdtab[fd] \in Opened
         /\ fd # 0
<1>1. /\ fd # 0 /\ fd \in DOMAIN fdtab
      /\ fdtab[fd] \in {Free} \cup {Conn(c) : c \in Conns} \cup Opened
  BY Numbers DEF IndInv, Typed
<1>2. fdtab[fd][1] \in {"file", "page"} <=> fdtab[fd] \in Opened
  BY <1>1, KindsDiffer
<1>3. \A d \in Conns : \A t \in Streams(d) : stream[d][t].file = fd => fdtab[fd] \in Opened
  BY <1>1 DEF IndInv, StreamInv
<1>4. FilesOwned
  BY DEF IndInv
<1> QED
  BY <1>1, <1>2, <1>3, <1>4 DEF FilesOwned

\* htdocs_on_request_recv_callback: what the answer opens was free and so nobody's.
LEMMA StepComplete ==
  ASSUME IndInv, NEW c \in Conns, NEW s \in Streams(c), NEW request \in Requests,
         stream[c][s].state \in {"idle", "open"}, RequestComplete(c, s, request),
         UNCHANGED <<backend, poll, hd, connfd, goaway, phase, cur, batch, del_list>>
  PROVE  IndInv'
<1>1. PICK r \in prepare_response(request) :
         /\ fdtab' = r.tab /\ lost' = lost \cup r.lost
         /\ stream' = [stream EXCEPT ![c][s] =
               [stream[c][s] EXCEPT !.state = "complete", !.file = r.file, !.src = r.src,
                  !.want = r.want, !.resp = IF r.want[1] = "none" THEN "none" ELSE "queued"]]
  BY DEF RequestComplete, IndInv, Typed
<1>2. Prepared(r)
  BY <1>1, ResponsePrepared DEF IndInv
<1> DEFINE old == stream[c][s]
           x == [old EXCEPT !.state = "complete", !.file = r.file, !.src = r.src,
                   !.want = r.want, !.resp = IF r.want[1] = "none" THEN "none" ELSE "queued"]
<1>3. old \in AnyStream /\ old.file = 0 /\ old.got = {} /\ old.state \in {"idle", "open"}
  BY DEF IndInv, Typed, StreamInv
<1>4. /\ x \in AnyStream /\ x.state = "complete" /\ x.file = r.file /\ x.src = r.src
      /\ x.want = r.want /\ x.got = {}
  BY ZenonT(40), <1>2, <1>3 DEF Prepared, AnyStream
<1> HIDE DEF x
<1>5. stream' = [stream EXCEPT ![c][s] = x]
  BY <1>1 DEF x
<1>6. /\ stream'[c][s] = x
      /\ \A d \in Conns : \A t \in Streams(d) : <<d, t>> # <<c, s>> => stream'[d][t] = stream[d][t]
  <2>1. Typed
    BY DEF IndInv
  <2> QED
    BY <1>4, <1>5, <2>1 DEF Typed
<1>7. /\ fdtab' \in Tables /\ lost' \subseteq Fds
      /\ \A fd \in Fds, d \in Conns : fdtab'[fd] = Conn(d) <=> fdtab[fd] = Conn(d)
      /\ \A fd \in Fds : fdtab[fd] # Free => fdtab'[fd] = fdtab[fd] /\ fd \notin r.lost /\ fd # r.file
  BY <1>1, <1>2, KindsDiffer DEF Prepared, IndInv, Typed
<1>8. StreamInv'
  <2> SUFFICES ASSUME NEW d \in Conns, NEW t \in Streams(d)
               PROVE  LET y == stream'[d][t] IN
                      /\ y.file # 0 => y.state = "complete" /\ fdtab'[y.file] \in Opened /\ y.file \notin lost'
                      /\ y.src # 0 => y.src = y.file /\ fdtab'[y.src] = y.want
                      /\ y.state \in {"idle", "open"} => y.got = {} /\ y.resp = "none"
                      /\ y.got \subseteq {y.want}
    BY DEF StreamInv
  <2>1. CASE <<d, t>> = <<c, s>>
    <3>1. r.file # 0 => r.file \in Fds
      BY <1>2, Numbers DEF Prepared, Fds
    <3>2. r.file # 0 => fdtab'[r.file] \in Opened /\ r.file \notin lost'
      <4>1. \A fd \in Fds : fd \in lost => fdtab[fd] # Free
        BY KindsDiffer DEF IndInv, FilesOwned, Typed, Free
      <4> QED
        BY <1>1, <1>2, <3>1, <4>1 DEF Prepared
    <3>3. r.src # 0 => r.src = r.file /\ fdtab'[r.src] = r.want
      BY <1>1, <1>2 DEF Prepared
    <3> QED
      BY <1>4, <1>6, <2>1, <3>2, <3>3
  <2>2. CASE <<d, t>> # <<c, s>>
    <3>1. stream'[d][t] = stream[d][t] /\ stream[d][t] \in AnyStream
      BY <1>6, <2>2 DEF IndInv, Typed
    <3>2. stream[d][t].file # 0 => /\ stream[d][t].file \in Fds
                                   /\ fdtab[stream[d][t].file] # Free
      BY <3>1, KindsDiffer, Numbers DEF IndInv, StreamInv, AnyStream, Fds
    <3>3. /\ stream[d][t].file # 0 => /\ stream[d][t].state = "complete"
                                      /\ fdtab[stream[d][t].file] \in Opened
                                      /\ stream[d][t].file \notin lost
          /\ stream[d][t].src # 0 => /\ stream[d][t].src = stream[d][t].file
                                     /\ fdtab[stream[d][t].src] = stream[d][t].want
          /\ stream[d][t].state \in {"idle", "open"} => stream[d][t].got = {} /\ stream[d][t].resp = "none"
          /\ stream[d][t].got \subseteq {stream[d][t].want}
      BY DEF IndInv, StreamInv
    <3>4. stream[d][t].file # 0 => /\ fdtab'[stream[d][t].file] = fdtab[stream[d][t].file]
                                   /\ stream[d][t].file \notin lost'
      BY <1>1, <1>7, <3>2, <3>3
    <3> QED
      BY <3>1, <3>3, <3>4
  <2> QED
    BY <2>1, <2>2
<1>9. FilesOwned'
  <2> SUFFICES ASSUME NEW fd \in Fds
               PROVE  /\ fdtab'[fd] \in Opened =>
                           (fd \in lost' <=> ~\E d \in Conns : \E t \in Streams(d) : stream'[d][t].file = fd)
                      /\ fd \in lost' => fdtab'[fd][1] = "file"
                      /\ \A d, e \in Conns : \A t \in Streams(d), u \in Streams(e) :
                            stream'[d][t].file = fd /\ stream'[e][u].file = fd => d = e /\ t = u
    BY <1>7, KindsDiffer DEF FilesOwned, Tables
  <2>1. /\ fdtab[fd] \in Opened =>
              (fd \in lost <=> ~\E d \in Conns : \E t \in Streams(d) : stream[d][t].file = fd)
        /\ fd \in lost => fdtab[fd][1] = "file" /\ fdtab[fd] \in Opened
        /\ \A d, e \in Conns : \A t \in Streams(d), u \in Streams(e) :
              stream[d][t].file = fd /\ stream[e][u].file = fd => d = e /\ t = u
        /\ \A d \in Conns : \A t \in Streams(d) : stream[d][t].file = fd => fdtab[fd] \in Opened
        /\ fd # 0
    BY FileFacts
  <2>2. CASE fd \in r.lost \cup {r.file}
    <3>1. /\ fdtab[fd] = Free /\ fdtab'[fd] \in Opened /\ fd \notin lost
          /\ \A d \in Conns : \A t \in Streams(d) : stream[d][t].file # fd
          /\ fd \in r.lost => fdtab'[fd][1] = "file"
      BY <1>1, <1>2, <2>1, <2>2, KindsDiffer DEF Prepared
    <3>2. \A d \in Conns : \A t \in Streams(d) : stream'[d][t].file = fd <=> <<d, t>> = <<c, s>> /\ r.file = fd
      BY <1>4, <1>6, <3>1
    <3>3. fd \in r.lost <=> fd # r.file
      BY <1>2, <2>2 DEF Prepared
    <3> QED
      BY <1>1, <3>1, <3>2, <3>3
  <2>3. CASE fd \notin r.lost \cup {r.file}
    <3>1. fdtab'[fd] = fdtab[fd] /\ (fd \in lost' <=> fd \in lost)
      BY <1>1, <1>2, <2>3 DEF Prepared
    <3>2. \A d \in Conns : \A t \in Streams(d) : stream'[d][t].file = fd <=> stream[d][t].file = fd
      <4>1. x.file # fd /\ stream[c][s].file # fd
        BY <1>3, <1>4, <2>1, <2>3
      <4>2. ASSUME NEW d \in Conns, NEW t \in Streams(d)
            PROVE  stream'[d][t].file = fd <=> stream[d][t].file = fd
        <5>1. CASE <<d, t>> # <<c, s>>
          BY <1>6, <5>1
        <5>2. CASE d = c /\ t = s
          BY <1>6, <4>1, <5>2
        <5> QED
          BY <5>1, <5>2
      <4> QED
        BY <4>2
    <3>3. (\E d \in Conns : \E t \in Streams(d) : stream'[d][t].file = fd)
             <=> \E d \in Conns : \E t \in Streams(d) : stream[d][t].file = fd
      BY <3>2
    <3>4. \A d, e \in Conns : \A t \in Streams(d), u \in Streams(e) :
             stream'[d][t].file = fd /\ stream'[e][u].file = fd => d = e /\ t = u
      BY <2>1, <3>2
    <3>5. /\ fdtab'[fd] \in Opened =>
                (fd \in lost' <=> ~\E d \in Conns : \E t \in Streams(d) : stream'[d][t].file = fd)
          /\ fd \in lost' => fdtab'[fd][1] = "file"
      BY <2>1, <3>1, <3>3
    <3> QED
      BY <3>4, <3>5
  <2> QED
    BY <2>2, <2>3
<1> QED
  BY <1>4, <1>5, <1>7, <1>8, <1>9, StreamStep

\* on_stream_close_callback: the file of the stream is closed, and it was its only owner.
LEMMA StepRemove ==
  ASSUME IndInv, NEW c \in Conns, NEW s \in Streams(c), remove_stream(c, s),
         stream[c][s].state # "idle", UNCHANGED lost,
         UNCHANGED <<backend, poll, hd, connfd, goaway, phase, cur, batch, del_list>>
  PROVE  IndInv'
<1> DEFINE old == stream[c][s]
           x == [old EXCEPT !.state = "closed", !.file = 0, !.resp = "none", !.src = 0]
<1>1. old \in AnyStream /\ fdtab \in Tables /\ lost \subseteq Fds
  BY DEF IndInv, Typed, Tables
<1>2. /\ x \in AnyStream /\ x.state = "closed" /\ x.file = 0 /\ x.src = 0 /\ x.want = old.want
      /\ x.got = old.got /\ x.resp = "none"
  <2>1. 0 \in 0 .. MaxFd
    BY Numbers
  <2> HIDE DEF old
  <2> QED
    BY <1>1, <2>1 DEF AnyStream
<1>3. stream' = [stream EXCEPT ![c][s] = x] /\ fdtab' = Close(fdtab, {old.file} \ {0})
  BY DEF remove_stream, IndInv, Typed
<1> HIDE DEF x
<1>4. /\ stream'[c][s] = x
      /\ \A d \in Conns : \A t \in Streams(d) : <<d, t>> # <<c, s>> => stream'[d][t] = stream[d][t]
  BY <1>2, <1>3 DEF IndInv, Typed
<1>5. /\ \A fd \in Fds : fdtab'[fd] = IF fd = old.file THEN Free ELSE fdtab[fd]
      /\ fdtab' \in Tables
  BY <1>1, <1>3, Numbers DEF Close, Tables
<1>6. old.file # 0 => old.file \in Fds /\ fdtab[old.file] \in Opened /\ old.file \notin lost
  BY <1>1 DEF IndInv, StreamInv, AnyStream, Fds
<1>7. \A fd \in Fds, d \in Conns : fdtab'[fd] = Conn(d) <=> fdtab[fd] = Conn(d)
  BY <1>5, <1>6, KindsDiffer, Numbers
<1>8. StreamInv'
  <2> SUFFICES ASSUME NEW d \in Conns, NEW t \in Streams(d)
               PROVE  LET y == stream'[d][t] IN
                      /\ y.file # 0 => y.state = "complete" /\ fdtab'[y.file] \in Opened /\ y.file \notin lost
                      /\ y.src # 0 => y.src = y.file /\ fdtab'[y.src] = y.want
                      /\ y.state \in {"idle", "open"} => y.got = {} /\ y.resp = "none"
                      /\ y.got \subseteq {y.want}
    BY DEF StreamInv
  <2>0. /\ stream[d][t].file # 0 => /\ stream[d][t].state = "complete"
                                    /\ fdtab[stream[d][t].file] \in Opened
                                    /\ stream[d][t].file \notin lost
        /\ stream[d][t].src # 0 => /\ stream[d][t].src = stream[d][t].file
                                   /\ fdtab[stream[d][t].src] = stream[d][t].want
        /\ stream[d][t].state \in {"idle", "open"} => stream[d][t].got = {} /\ stream[d][t].resp = "none"
        /\ stream[d][t].got \subseteq {stream[d][t].want}
    BY DEF IndInv, StreamInv
  <2>1. CASE d = c /\ t = s
    BY <1>2, <1>4, <2>0, <2>1
  <2>2. CASE <<d, t>> # <<c, s>>
    <3>1. stream'[d][t] = stream[d][t] /\ stream[d][t] \in AnyStream
      BY <1>4, <2>2 DEF IndInv, Typed
    <3>2. stream[d][t].file # 0 => stream[d][t].file \in Fds
      BY <3>1 DEF AnyStream, Fds
    <3>3. stream[d][t].file # 0 => stream[d][t].file # old.file
      BY <2>2, <3>2, FileFacts
    <3>4. stream[d][t].file # 0 => fdtab'[stream[d][t].file] = fdtab[stream[d][t].file]
      BY <1>5, <3>2, <3>3
    <3> QED
      BY <2>0, <3>1, <3>4
  <2> QED
    BY <2>1, <2>2
<1>9. FilesOwned'
  <2> SUFFICES ASSUME NEW fd \in Fds
               PROVE  /\ fdtab'[fd] \in Opened =>
                           (fd \in lost <=> ~\E d \in Conns : \E t \in Streams(d) : stream'[d][t].file = fd)
                      /\ fd \in lost => fdtab'[fd][1] = "file"
                      /\ \A d, e \in Conns : \A t \in Streams(d), u \in Streams(e) :
                            stream'[d][t].file = fd /\ stream'[e][u].file = fd => d = e /\ t = u
    BY <1>5, KindsDiffer DEF FilesOwned, Tables
  <2>1. /\ fdtab[fd] \in Opened =>
              (fd \in lost <=> ~\E d \in Conns : \E t \in Streams(d) : stream[d][t].file = fd)
        /\ fd \in lost => fdtab[fd][1] = "file" /\ fdtab[fd] \in Opened
        /\ \A d, e \in Conns : \A t \in Streams(d), u \in Streams(e) :
              stream[d][t].file = fd /\ stream[e][u].file = fd => d = e /\ t = u
        /\ fd # 0
    BY FileFacts
  <2>2. ASSUME NEW d \in Conns, NEW t \in Streams(d)
        PROVE  stream'[d][t].file = fd <=> stream[d][t].file = fd /\ fd # old.file
    <3>1. CASE <<d, t>> # <<c, s>>
      BY <1>4, <2>1, <3>1
    <3>2. CASE d = c /\ t = s
      BY <1>2, <1>4, <2>1, <3>2
    <3> QED
      BY <3>1, <3>2
  <2>3. CASE fd = old.file
    BY <1>5, <1>6, <2>1, <2>2, <2>3, KindsDiffer
  <2>4. CASE fd # old.file
    <3>1. fdtab'[fd] = fdtab[fd]
      BY <1>5, <2>4
    <3>2. (\E d \in Conns : \E t \in Streams(d) : stream'[d][t].file = fd)
             <=> \E d \in Conns : \E t \in Streams(d) : stream[d][t].file = fd
      BY <2>2, <2>4
    <3>3. \A d, e \in Conns : \A t \in Streams(d), u \in Streams(e) :
             stream'[d][t].file = fd /\ stream'[e][u].file = fd => d = e /\ t = u
      BY <2>1, <2>2
    <3>4. /\ fdtab'[fd] \in Opened =>
                (fd \in lost <=> ~\E d \in Conns : \E t \in Streams(d) : stream'[d][t].file = fd)
          /\ fd \in lost => fdtab'[fd][1] = "file"
      BY <2>1, <3>1, <3>2
    <3> QED
      BY <3>3, <3>4
  <2> QED
    BY <2>3, <2>4
<1> QED
  BY <1>1, <1>2, <1>3, <1>5, <1>7, <1>8, <1>9, StreamStep

\* A stream changes and no descriptor does.
LEMMA StepTable ==
  ASSUME IndInv, NEW c \in Conns, NEW s \in Streams(c), NEW x \in AnyStream,
         stream' = [stream EXCEPT ![c][s] = x], UNCHANGED <<fdtab, lost>>,
         x.file = stream[c][s].file, x.src = stream[c][s].src, x.want = stream[c][s].want,
         x.file # 0 => x.state = "complete",
         x.state \in {"idle", "open"} => x.got = {} /\ x.resp = "none",
         x.got \subseteq {x.want},
         UNCHANGED <<backend, poll, hd, connfd, goaway, phase, cur, batch, del_list>>
  PROVE  IndInv'
<1>1. /\ stream'[c][s] = x
      /\ \A d \in Conns : \A t \in Streams(d) : <<d, t>> # <<c, s>> => stream'[d][t] = stream[d][t]
  BY DEF IndInv, Typed
<1>2. ASSUME NEW d \in Conns, NEW t \in Streams(d)
      PROVE  stream'[d][t].file = stream[d][t].file
  <2>1. CASE <<d, t>> # <<c, s>>
    BY <1>1, <2>1
  <2>2. CASE d = c /\ t = s
    BY <1>1, <2>2
  <2> QED
    BY <2>1, <2>2
<1>3. FilesOwned'
  BY <1>2 DEF IndInv, FilesOwned
<1>4. StreamInv'
  <2> SUFFICES ASSUME NEW d \in Conns, NEW t \in Streams(d)
               PROVE  LET y == stream'[d][t] IN
                      /\ y.file # 0 => y.state = "complete" /\ fdtab[y.file] \in Opened /\ y.file \notin lost
                      /\ y.src # 0 => y.src = y.file /\ fdtab[y.src] = y.want
                      /\ y.state \in {"idle", "open"} => y.got = {} /\ y.resp = "none"
                      /\ y.got \subseteq {y.want}
    BY DEF StreamInv
  <2>1. CASE <<d, t>> # <<c, s>>
    BY <1>1, <2>1 DEF IndInv, StreamInv
  <2>2. CASE d = c /\ t = s
    BY <1>1, <2>2 DEF IndInv, StreamInv
  <2> QED
    BY <2>1, <2>2
<1> QED
  BY <1>3, <1>4, StreamStep DEF IndInv, Typed, Tables

\* RecvFrame, for every kind of frame
LEMMA StepRecv ==
  ASSUME IndInv, NEW c \in Conns, RecvFrame(c)
  PROVE  IndInv'
<1>0. UNCHANGED <<backend, poll, hd, connfd, phase, cur, batch, del_list>>
  BY DEF RecvFrame
<1>1. ASSUME NEW s \in Streams(c), stream[c][s].state = "idle", UNCHANGED <<goaway, fdtab, lost>>,
             stream' = [stream EXCEPT ![c][s].state = "open"]
      PROVE  IndInv'
  <2> DEFINE x == [stream[c][s] EXCEPT !.state = "open"]
  <2>1. stream[c][s] \in AnyStream /\ stream' = [stream EXCEPT ![c][s] = x]
    BY <1>1 DEF IndInv, Typed
  <2>2. /\ x \in AnyStream /\ x.file = stream[c][s].file /\ x.src = stream[c][s].src
        /\ x.want = stream[c][s].want /\ x.state = "open" /\ x.got = stream[c][s].got
        /\ x.resp = stream[c][s].resp
    BY <2>1 DEF AnyStream
  <2>3. x.file = 0 /\ x.got = {} /\ x.resp = "none"
    BY <1>1, <2>2 DEF IndInv, StreamInv
  <2> HIDE DEF x
  <2> QED
    BY <1>0, <1>1, <2>1, <2>2, <2>3, StepTable
<1>2. ASSUME NEW s \in Streams(c), stream[c][s].state \in {"idle", "open"}, UNCHANGED goaway,
             NEW request \in Requests, RequestComplete(c, s, request)
      PROVE  IndInv'
  BY <1>0, <1>2, StepComplete
<1>3. ASSUME NEW s \in Streams(c), stream[c][s].state \in {"open", "complete"},
             remove_stream(c, s), UNCHANGED <<goaway, lost>>
      PROVE  IndInv'
  BY <1>0, <1>3, StepRemove
<1>4. ASSUME goaway' = [goaway EXCEPT ![c] = TRUE], UNCHANGED <<stream, fdtab, lost>>
      PROVE  IndInv'
  <2>1. Typed'
    BY <1>0, <1>4 DEF IndInv, Typed
  <2>2. (\A d \in Conns : ConnInv(d)') /\ PollInv'
    BY <1>0, <1>4, ConnsKept
  <2> QED
    BY <1>0, <1>4, <2>1, <2>2 DEF IndInv, BatchInv, StreamInv, FilesOwned
<1> QED
  BY <1>1, <1>2, <1>3, <1>4 DEF RecvFrame

\* SendFrame: what is read is what the request named, because its descriptor is still open.
LEMMA StepSend ==
  ASSUME IndInv, NEW c \in Conns, SendFrame(c)
  PROVE  IndInv'
<1>0. UNCHANGED <<backend, poll, hd, connfd, goaway, phase, cur, batch, del_list, lost>>
  BY DEF SendFrame
<1>1. PICK s \in Streams(c) :
         /\ stream[c][s].resp = "queued"
         /\ \/ remove_stream(c, s)
            \/ /\ stream[c][s].src # 0
               /\ stream' = [stream EXCEPT ![c][s].got = @ \cup {fdtab[stream[c][s].src]}]
               /\ UNCHANGED fdtab
  BY DEF SendFrame
<1>2. stream[c][s] \in AnyStream /\ stream[c][s].state \notin {"idle", "open"}
  BY <1>1 DEF IndInv, Typed, StreamInv
<1>3. CASE remove_stream(c, s)
  BY <1>0, <1>2, <1>3, StepRemove
<1>4. CASE /\ stream[c][s].src # 0
           /\ stream' = [stream EXCEPT ![c][s].got = @ \cup {fdtab[stream[c][s].src]}]
           /\ UNCHANGED fdtab
  <2> DEFINE g == stream[c][s].got \cup {fdtab[stream[c][s].src]}
             x == [stream[c][s] EXCEPT !.got = g]
  <2>1. g \subseteq {stream[c][s].want} /\ stream[c][s].want \in Opened \cup {<<"nothing", 0>>, <<"none", 0>>}
    BY <1>2, <1>4 DEF IndInv, StreamInv, AnyStream
  <2>2. stream' = [stream EXCEPT ![c][s] = x]
    BY <1>4 DEF IndInv, Typed
  <2> HIDE DEF g
  <2>3. /\ x \in AnyStream /\ x.file = stream[c][s].file /\ x.src = stream[c][s].src
        /\ x.want = stream[c][s].want /\ x.state = stream[c][s].state /\ x.got = g
    BY <1>2, <2>1 DEF AnyStream
  <2>4. x.file # 0 => x.state = "complete"
    BY <2>3 DEF IndInv, StreamInv
  <2> HIDE DEF x
  <2>5. x.got \subseteq {x.want} /\ x.state \notin {"idle", "open"}
    BY <1>2, <2>1, <2>3
  <2> QED
    BY <1>0, <1>4, <2>2, <2>3, <2>4, <2>5, StepTable
<1> QED
  BY <1>1, <1>3, <1>4

-----------------------------------------------------------------------------
(* Connections come and go, one at a time, and leave files alone.          *)

LEMMA FilesKept ==
  ASSUME IndInv, UNCHANGED <<stream, lost>>, fdtab' \in Tables,
         \A fd \in Fds : fdtab[fd] \in Opened \/ fdtab'[fd] \in Opened => fdtab'[fd] = fdtab[fd]
  PROVE  StreamInv' /\ FilesOwned'
<1>1. StreamInv'
  <2> SUFFICES ASSUME NEW d \in Conns, NEW t \in Streams(d)
               PROVE  LET y == stream[d][t] IN
                      /\ y.file # 0 => y.state = "complete" /\ fdtab'[y.file] \in Opened /\ y.file \notin lost
                      /\ y.src # 0 => y.src = y.file /\ fdtab'[y.src] = y.want
                      /\ y.state \in {"idle", "open"} => y.got = {} /\ y.resp = "none"
                      /\ y.got \subseteq {y.want}
    BY DEF StreamInv
  <2>1. stream[d][t].file \in 0 .. MaxFd
    BY DEF IndInv, Typed, AnyStream
  <2>2. stream[d][t].file # 0 => stream[d][t].file \in Fds
    BY <2>1, Numbers DEF Fds
  <2> QED
    BY <2>2 DEF IndInv, StreamInv
<1>2. FilesOwned'
  <2>1. \A fd \in Fds : fdtab'[fd][1] \in {"file", "page"} <=> fdtab'[fd] \in Opened
    BY KindsDiffer DEF Tables
  <2>2. \A fd \in Fds : fdtab'[fd] \in Opened => fdtab'[fd] = fdtab[fd]
    OBVIOUS
  <2>3. \A fd \in Fds : fd \in lost => fdtab'[fd] = fdtab[fd]
    BY FileFacts
  <2>4. DOMAIN fdtab' = Fds /\ DOMAIN fdtab = Fds
    BY DEF Tables, IndInv, Typed
  <2> QED
    BY <2>1, <2>2, <2>3, <2>4 DEF IndInv, FilesOwned
<1> QED
  BY <1>1, <1>2

\* A step of connection c, which has descriptor fd or gets it.
LEMMA ConnStep ==
  ASSUME IndInv, NEW c \in Conns, NEW fd \in Fds,
         fdtab[fd] \in {Free, Conn(c)}, connfd[c] \in {0, fd},
         fdtab' \in Tables, UNCHANGED <<stream, lost>>,
         \A g \in Fds \ {fd} : fdtab'[g] = fdtab[g] /\ poll'[g] = poll[g],
         \A d \in Conns \ {c} : /\ connfd'[d] = connfd[d]
                                /\ hd'[<<d, "accept">>] = hd[<<d, "accept">>]
                                /\ hd'[<<d, "spdy">>] = hd[<<d, "spdy">>],
         ConnInv(c)', fdtab'[fd] \in {Free, Conn(c)},
         fdtab'[fd] = Conn(c) <=> poll'[fd] # None,
         poll'[fd] # None => /\ poll'[fd] \in {<<c, "accept">>, <<c, "spdy">>} /\ connfd'[c] = fd
                             /\ hd'[poll'[fd]].state = "live"
                             /\ poll'[fd][2] = "accept" => hd'[<<c, "spdy">>].state = "none"
  PROVE  (\A d \in Conns : ConnInv(d)') /\ PollInv' /\ StreamInv' /\ FilesOwned'
<1>1. ASSUME NEW d \in Conns, d # c PROVE ConnInv(d)'
  <2>1. ConnInv(d)
    BY DEF IndInv
  <2>2. ASSUME NEW k \in {"accept", "spdy"}, Serves(d, k) PROVE Serves(d, k)'
    <3>1. connfd[d] \in Fds /\ fdtab[connfd[d]] = Conn(d) /\ connfd[d] # fd
      BY <1>1, <2>2, KindsDiffer DEF Serves
    <3> QED
      BY ZenonT(40), <1>1, <2>2, <3>1 DEF Serves
  <2> QED
    BY <1>1, <2>1, <2>2 DEF ConnInv
<1>2. PollInv'
  <2>1. ASSUME NEW g \in Fds, poll'[g] # None
        PROVE  /\ fdtab'[g] = Conn(poll'[g][1]) /\ hd'[poll'[g]].state = "live"
               /\ poll'[g][2] = "accept" => hd'[<<poll'[g][1], "spdy">>].state = "none"
    <3>1. CASE g = fd
      BY <2>1, <3>1
    <3>2. CASE g # fd
      <4>1. /\ poll'[g] = poll[g] /\ fdtab'[g] = fdtab[g] /\ poll[g] \in Conns \X {"accept", "spdy"}
            /\ fdtab[g] = Conn(poll[g][1]) /\ hd[poll[g]].state = "live"
            /\ poll[g][2] = "accept" => hd[<<poll[g][1], "spdy">>].state = "none"
        BY <2>1, <3>2 DEF IndInv, PollInv, Typed, ConnHandlers
      <4>2. poll[g][1] \in Conns /\ poll[g][2] \in {"accept", "spdy"} /\ poll[g] = <<poll[g][1], poll[g][2]>>
        BY <4>1
      <4>3. poll[g][1] # c
        <5>1. connfd[poll[g][1]] = g
          BY <4>1, <4>2 DEF IndInv, PollInv
        <5> QED
          BY <3>2, <5>1, Numbers
      <4>4. hd'[poll[g]] = hd[poll[g]] /\ hd'[<<poll[g][1], "spdy">>] = hd[<<poll[g][1], "spdy">>]
        <5> DEFINE d == poll[g][1]
        <5>1. \/ poll[g] = <<d, "accept">>
              \/ poll[g] = <<d, "spdy">>
          BY <4>2
        <5>2. d \in Conns \ {c}
          BY <4>2, <4>3
        <5> HIDE DEF d
        <5>3. hd'[<<d, "accept">>] = hd[<<d, "accept">>] /\ hd'[<<d, "spdy">>] = hd[<<d, "spdy">>]
          BY <5>2
        <5> QED
          BY <5>1, <5>3 DEF d
      <4> QED
        BY <4>1, <4>4
    <3> QED
      BY <3>1, <3>2
  <2>2. ASSUME NEW g \in Fds, NEW d \in Conns, fdtab'[g] = Conn(d)
        PROVE  connfd'[d] = g /\ poll'[g] # None
    <3>1. CASE g = fd
      BY <2>2, <3>1, KindsDiffer
    <3>2. CASE g # fd
      <4>1. connfd[d] = g /\ poll[g] # None
        BY <2>2, <3>2 DEF IndInv, PollInv
      <4>2. d # c
        BY <3>2, <4>1, Numbers
      <4> QED
        BY <3>2, <4>1, <4>2
    <3> QED
      BY <3>1, <3>2
  <2> QED
    BY <2>1, <2>2 DEF PollInv
<1>3. StreamInv' /\ FilesOwned'
  <2>1. \A g \in Fds : fdtab[g] \in Opened \/ fdtab'[g] \in Opened => fdtab'[g] = fdtab[g]
    BY KindsDiffer
  <2> QED
    BY <2>1, FilesKept
<1> QED
  BY <1>1, <1>2, <1>3

\* A handler has executed: it is listed once if it is marked; handlers that were not
\* there before may be there now.
LEMMA BatchStep ==
  ASSUME IndInv, NEW h \in Handlers, hd[h].state = "live", ~hd[h].mark,
         hd' \in [Handlers -> AnyHandler], hd'[h].state = "live",
         \A g \in Handlers \ {h} : \/ hd'[g] = hd[g]
                                   \/ hd[g].state = "none" /\ (hd'[g].state = "live" => ~hd'[g].mark),
         h = Listener => hd'[h] = hd[h],
         del_list' = IF hd'[h].mark THEN Append(del_list, h) ELSE del_list,
         batch' \subseteq batch, phase' = "batch"
  PROVE  BatchInv' /\ del_list' \in Seq(Handlers)
<1>0. BatchInv /\ del_list \in Seq(Handlers) /\ hd \in [Handlers -> AnyHandler]
      /\ batch \subseteq [hd : Handlers, ev : {"in", "out", "hup"}]
  BY DEF IndInv, Typed
<1>1. hd'[Listener].state = "live" /\ ~hd'[Listener].mark /\ ~hd'[Listener].finish
  BY <1>0, Numbers DEF BatchInv
<1>2. \A i \in DOMAIN del_list : del_list[i] \in Handlers /\ del_list[i] # h
  BY <1>0 DEF BatchInv
<1>3. \A i \in DOMAIN del_list : hd'[del_list[i]] = hd[del_list[i]]
  BY <1>0, <1>2 DEF BatchInv
<1>4. \A e \in batch : hd'[e.hd].state = "live"
  BY <1>0 DEF BatchInv
<1>5. ASSUME NEW g \in Handlers, g # h, hd'[g].state = "live", hd'[g].mark
      PROVE  \E i \in DOMAIN del_list : del_list[i] = g
  BY <1>0, <1>5 DEF BatchInv
<1>6. CASE ~hd'[h].mark
  <2>1. del_list' = del_list
    BY <1>6
  <2> QED
    BY <1>0, <1>1, <1>2, <1>3, <1>4, <1>5, <1>6, <2>1 DEF BatchInv
<1>7. CASE hd'[h].mark
  <2>1. /\ del_list' = Append(del_list, h) /\ del_list' \in Seq(Handlers)
        /\ DOMAIN del_list' = DOMAIN del_list \cup {Len(del_list) + 1}
        /\ del_list'[Len(del_list) + 1] = h
        /\ \A i \in DOMAIN del_list : del_list'[i] = del_list[i] /\ i # Len(del_list) + 1
    BY <1>0, <1>7
  <2>2. \A i \in DOMAIN del_list' : hd'[del_list'[i]].state = "live" /\ hd'[del_list'[i]].mark
    BY <1>0, <1>3, <1>7, <2>1 DEF BatchInv
  <2>3. \A i, j \in DOMAIN del_list' : i # j => del_list'[i] # del_list'[j]
    BY <1>0, <1>2, <2>1 DEF BatchInv
  <2>4. \A g \in Handlers : hd'[g].state = "live" /\ hd'[g].mark =>
                               \E i \in DOMAIN del_list' : del_list'[i] = g
    BY <1>5, <2>1
  <2> QED
    BY <1>0, <1>1, <1>4, <2>1, <2>2, <2>3, <2>4 DEF BatchInv
<1> QED
  BY <1>6, <1>7

\* Executed, for a handler of a connection.
LEMMA ExecutedConn ==
  ASSUME Typed, NEW h \in ConnHandlers, NEW r \in {0, -1}, NEW handlers \in [Handlers -> AnyHandler],
         NEW registered, Executed(h, r, handlers, registered)
  PROVE  /\ hd' \in [Handlers -> AnyHandler]
         /\ \A g \in Handlers \ {h} : hd'[g] = handlers[g]
         /\ hd'[h].state = handlers[h].state /\ hd'[h].fail = handlers[h].fail
         /\ hd'[h].finish = handlers[h].finish
         /\ hd'[h].mark <=> (r # 0 \/ handlers[h].finish \/ handlers[h].mark)
         /\ poll' = IF r = 0 /\ ~handlers[h].finish THEN [registered EXCEPT ![connfd[h[1]]] = h]
                    ELSE registered
         /\ del_list' = IF hd'[h].mark THEN Append(del_list, h) ELSE del_list
<1> DEFINE gone == r # 0 \/ handlers[h].finish \/ handlers[h].mark
<1>1. h \in Handlers /\ h # Listener
  BY Numbers
<1>2. handlers[h] \in AnyHandler
  BY <1>1
<1>3. gone \in BOOLEAN
  BY <1>2 DEF AnyHandler
<1>4. /\ hd' = [handlers EXCEPT ![h] = [handlers[h] EXCEPT !.mark = gone]]
      /\ del_list' = IF gone THEN Append(del_list, h) ELSE del_list
      /\ poll' = IF r = 0 /\ ~handlers[h].finish /\ h # Listener
                 THEN [registered EXCEPT ![connfd[h[1]]] = h] ELSE registered
  BY <1>1 DEF Executed
<1> HIDE DEF gone
<1>5. /\ [handlers[h] EXCEPT !.mark = gone] \in AnyHandler
      /\ [handlers[h] EXCEPT !.mark = gone].state = handlers[h].state
      /\ [handlers[h] EXCEPT !.mark = gone].fail = handlers[h].fail
      /\ [handlers[h] EXCEPT !.mark = gone].finish = handlers[h].finish
      /\ [handlers[h] EXCEPT !.mark = gone].mark = gone
  BY <1>2, <1>3 DEF AnyHandler
<1>6. hd' \in [Handlers -> AnyHandler] /\ hd'[h] = [handlers[h] EXCEPT !.mark = gone]
      /\ \A g \in Handlers \ {h} : hd'[g] = handlers[g]
  BY <1>1, <1>4, <1>5
<1>7. hd'[h].mark = gone
  BY <1>5, <1>6
<1> QED
  BY <1>1, <1>4, <1>5, <1>6, <1>7 DEF gone

\* Executed, for the listener, which is never marked.
LEMMA ExecutedListener ==
  ASSUME IndInv, NEW handlers \in [Handlers -> AnyHandler], handlers[Listener] = hd[Listener],
         NEW registered, Executed(Listener, 0, handlers, registered)
  PROVE  hd' = handlers /\ poll' = registered /\ del_list' = del_list
<1>1. Listener \in Handlers
  BY Numbers
<1>2. handlers[Listener] \in AnyHandler /\ ~handlers[Listener].mark /\ ~handlers[Listener].finish
  BY <1>1 DEF IndInv, BatchInv
<1>3. handlers[Listener].mark = FALSE
  BY <1>2 DEF AnyHandler
<1>4. hd' = [handlers EXCEPT ![Listener] = [handlers[Listener] EXCEPT !.mark = FALSE]]
      /\ poll' = registered /\ del_list' = del_list
  BY <1>1, <1>2 DEF Executed
<1>5. [handlers[Listener] EXCEPT !.mark = FALSE] = handlers[Listener]
  BY <1>2, <1>3 DEF AnyHandler
<1> QED
  BY <1>1, <1>4, <1>5

\* The initial states satisfy the invariant.
LEMMA InitInv ==
  ASSUME Init
  PROVE  IndInv
<1>1. Typed
  <2>1. DOMAIN stream = Conns /\ \A c \in Conns : stream[c] \in [Streams(c) -> AnyStream]
    <3>1. NewStream \in AnyStream
      BY Numbers DEF NewStream, AnyStream, Fds
    <3> QED
      BY <3>1 DEF Init
  <2>2. hd \in [Handlers -> AnyHandler]
    <3>1. NewHandler \in AnyHandler /\ [NewHandler EXCEPT !.state = "none"] \in AnyHandler
      BY DEF NewHandler, AnyHandler
    <3> QED
      BY <3>1 DEF Init
  <2>3. connfd \in [Conns -> 0 .. MaxFd]
    BY Numbers DEF Init
  <2> QED
    BY <2>1, <2>2, <2>3 DEF Init, Typed, Fds
<1>2. /\ \A c \in Conns : /\ hd[<<c, "accept">>].state = "none" /\ hd[<<c, "spdy">>].state = "none"
                          /\ connfd[c] = 0
      /\ \A h \in Handlers : hd[h].mark = FALSE
      /\ hd[Listener].state = "live" /\ ~hd[Listener].mark /\ ~hd[Listener].finish
  BY Numbers DEF Init, NewHandler, Handlers, ConnHandlers
<1>3. \A c \in Conns : ConnInv(c)
  BY <1>2 DEF ConnInv
<1>4. PollInv
  BY KindsDiffer DEF Init, PollInv, Fds
<1>5. BatchInv
  BY <1>2 DEF Init, BatchInv
<1>6. /\ \A c \in Conns : \A s \in Streams(c) :
            /\ stream[c][s].file = 0 /\ stream[c][s].src = 0 /\ stream[c][s].got = {}
            /\ stream[c][s].resp = "none"
      /\ lost = {} /\ DOMAIN fdtab = Fds /\ \A fd \in Fds : fdtab[fd][1] = "free"
  BY DEF Init, NewStream, Free, Fds
<1>7. StreamInv
  BY <1>6 DEF StreamInv
<1>8. FilesOwned
  BY <1>6, Numbers DEF FilesOwned
<1> QED
  BY <1>1, <1>3, <1>4, <1>5, <1>7, <1>8 DEF IndInv

\* A connection is accepted: its descriptor was free, and is registered with a new handler.
LEMMA StepAccept ==
  ASSUME IndInv, phase = "batch", phase' = "batch", batch' \subseteq batch, AcceptConnection,
         UNCHANGED <<backend, goaway, stream, lost, cur>>
  PROVE  IndInv'
<1>1. Listener \in Handlers /\ Typed /\ BatchInv
  BY Numbers DEF IndInv
<1>2. ASSUME NEW c \in Conns, connfd[c] = 0, Unused(fdtab) # {},
             NEW fd, fd = Min(Unused(fdtab)),
             connfd' = [connfd EXCEPT ![c] = fd],
             fdtab' = [fdtab EXCEPT ![fd] = <<"conn", c>>],
             Executed(Listener, 0, [hd EXCEPT ![<<c, "accept">>] = NewHandler],
                      [poll EXCEPT ![fd] = <<c, "accept">>])
      PROVE  IndInv'
  <2> DEFINE h == <<c, "accept">>
             handlers == [hd EXCEPT ![h] = NewHandler]
  <2>1. fd \in Fds /\ fdtab[fd] = Free
    <3>1. Unused(fdtab) \in SUBSET Nat
      BY <1>1, Numbers DEF Unused, Typed
    <3> QED
      BY <1>1, <1>2, <3>1, LowestFree DEF Unused, Typed
  <2>2. h \in Handlers /\ h # Listener /\ <<c, "spdy">> \in Handlers /\ h # <<c, "spdy">>
    BY Numbers DEF ConnHandlers
  <2>3. handlers \in [Handlers -> AnyHandler] /\ handlers[Listener] = hd[Listener]
    <3>1. NewHandler \in AnyHandler
      BY DEF NewHandler, AnyHandler
    <3> QED
      BY <1>1, <2>2, <3>1 DEF Typed
  <2>4. hd' = handlers /\ poll' = [poll EXCEPT ![fd] = h] /\ del_list' = del_list
    BY <1>2, <2>3, ExecutedListener
  <2>5. /\ hd[h].state = "none" /\ hd[<<c, "spdy">>].state = "none"
        /\ hd'[h] = NewHandler /\ \A g \in Handlers \ {h} : hd'[g] = hd[g]
    BY <1>1, <1>2, <2>2, <2>4 DEF IndInv, ConnInv, Typed
  <2>6. /\ fdtab' \in Tables /\ fdtab'[fd] = Conn(c) /\ \A g \in Fds \ {fd} : fdtab'[g] = fdtab[g]
        /\ poll' \in [Fds -> ConnHandlers \cup {None}] /\ poll'[fd] = h
        /\ \A g \in Fds \ {fd} : poll'[g] = poll[g]
        /\ connfd' \in [Conns -> 0 .. MaxFd] /\ connfd'[c] = fd
        /\ \A d \in Conns \ {c} : connfd'[d] = connfd[d]
    BY <1>1, <1>2, <2>1, <2>4, Numbers DEF Typed, Tables, Conn, ConnHandlers, Fds
  <2>7. /\ NewHandler.state = "live" /\ NewHandler.mark = FALSE /\ NewHandler.fail = FALSE
        /\ NewHandler.finish = FALSE
    BY DEF NewHandler
  <2>8. ConnInv(c)'
    BY <2>1, <2>2, <2>5, <2>6, <2>7, Numbers DEF ConnInv, Serves
  <2>9. h # None /\ h[2] = "accept"
    BY DEF None
  <2>10. \A d \in Conns \ {c} : /\ hd'[<<d, "accept">>] = hd[<<d, "accept">>]
                                /\ hd'[<<d, "spdy">>] = hd[<<d, "spdy">>]
    BY <2>5, Numbers DEF ConnHandlers
  <2> HIDE DEF h, handlers
  <2>11. (\A d \in Conns : ConnInv(d)') /\ PollInv' /\ StreamInv' /\ FilesOwned'
    <3>1. h \in {<<c, "accept">>, <<c, "spdy">>} /\ hd'[<<c, "spdy">>].state = "none"
      BY <2>2, <2>5 DEF h
    <3>2. /\ fdtab[fd] \in {Free, Conn(c)} /\ connfd[c] \in {0, fd}
          /\ fdtab'[fd] \in {Free, Conn(c)} /\ (fdtab'[fd] = Conn(c) <=> poll'[fd] # None)
      BY <1>2, <2>1, <2>6, <2>9
    <3>3. /\ poll'[fd] \in {<<c, "accept">>, <<c, "spdy">>} /\ connfd'[c] = fd
          /\ hd'[poll'[fd]].state = "live"
      BY <2>5, <2>6, <2>7, <3>1
    <3>4. UNCHANGED <<stream, lost>>
      OBVIOUS
    <3> QED
      BY <2>1, <2>6, <2>8, <2>10, <3>1, <3>2, <3>3, <3>4, ConnStep
  <2>12. BatchInv' /\ del_list' \in Seq(Handlers)
    <3>1. hd' \in [Handlers -> AnyHandler] /\ hd'[Listener] = hd[Listener] /\ ~hd'[Listener].mark
      BY <1>1, <2>3, <2>4 DEF BatchInv
    <3>2. \A g \in Handlers \ {Listener} :
             \/ hd'[g] = hd[g]
             \/ hd[g].state = "none" /\ (hd'[g].state = "live" => ~hd'[g].mark)
      BY <2>5, <2>7
    <3>3. hd[Listener].state = "live" /\ ~hd[Listener].mark
      BY <1>1 DEF BatchInv
    <3> QED
      BY <1>1, <2>4, <3>1, <3>2, <3>3, BatchStep
  <2>13. Typed'
    BY <1>1, <2>3, <2>4, <2>6, <2>12 DEF Typed, Tables
  <2> QED
    BY <2>11, <2>12, <2>13 DEF IndInv
<1>3. ASSUME Executed(Listener, 0, hd, poll), UNCHANGED <<connfd, fdtab>>
      PROVE  IndInv'
  <2>1. hd' = hd /\ poll' = poll /\ del_list' = del_list
    BY <1>1, <1>3, ExecutedListener DEF Typed
  <2>2. (\A c \in Conns : ConnInv(c)') /\ PollInv'
    BY <1>3, <2>1, ConnsKept
  <2>3. Typed'
    BY <1>1, <1>3, <2>1 DEF Typed
  <2>4. BatchInv'
    BY <1>1, <2>1 DEF BatchInv
  <2> QED
    BY <1>3, <2>1, <2>2, <2>3, <2>4 DEF IndInv, StreamInv, FilesOwned
<1> QED
  BY <1>2, <1>3 DEF AcceptConnection

\* A handler of connection c has executed, and the connection is open.
LEMMA HandlerStep ==
  ASSUME IndInv, NEW c \in Conns, NEW h \in {<<c, "accept">>, <<c, "spdy">>},
         hd[h].state = "live", ~hd[h].mark, phase' = "batch", batch' \subseteq batch,
         UNCHANGED <<backend, goaway, stream, lost, connfd>>,
         NEW fd \in Fds, fd = connfd[c], fdtab[fd] = Conn(c),
         hd' \in [Handlers -> AnyHandler], hd'[h].state = "live",
         \A g \in Handlers \ {<<c, "accept">>, <<c, "spdy">>} : hd'[g] = hd[g],
         \A g \in {<<c, "accept">>, <<c, "spdy">>} \ {h} :
            \/ hd'[g] = hd[g]
            \/ hd[g].state = "none" /\ (hd'[g].state = "live" => ~hd'[g].mark),
         del_list' = IF hd'[h].mark THEN Append(del_list, h) ELSE del_list,
         fdtab' \in Tables, poll' \in [Fds -> ConnHandlers \cup {None}],
         \A g \in Fds \ {fd} : fdtab'[g] = fdtab[g] /\ poll'[g] = poll[g],
         ConnInv(c)', fdtab'[fd] \in {Free, Conn(c)},
         fdtab'[fd] = Conn(c) <=> poll'[fd] # None,
         poll'[fd] # None => /\ poll'[fd] \in {<<c, "accept">>, <<c, "spdy">>}
                             /\ hd'[poll'[fd]].state = "live"
                             /\ poll'[fd][2] = "accept" => hd'[<<c, "spdy">>].state = "none"
  PROVE  IndInv'
<1>1. /\ {<<c, "accept">>, <<c, "spdy">>} \subseteq Handlers /\ h # Listener
      /\ \A d \in Conns \ {c} : {<<d, "accept">>, <<d, "spdy">>} \subseteq
                                   Handlers \ {<<c, "accept">>, <<c, "spdy">>}
  BY Numbers DEF ConnHandlers
<1>2. \A d \in Conns \ {c} : /\ connfd'[d] = connfd[d]
                             /\ hd'[<<d, "accept">>] = hd[<<d, "accept">>]
                             /\ hd'[<<d, "spdy">>] = hd[<<d, "spdy">>]
  BY <1>1
<1>3. (\A d \in Conns : ConnInv(d)') /\ PollInv' /\ StreamInv' /\ FilesOwned'
  <2>1. fdtab[fd] \in {Free, Conn(c)} /\ connfd[c] \in {0, fd} /\ connfd'[c] = fd
    OBVIOUS
  <2>2. UNCHANGED <<stream, lost>>
    OBVIOUS
  <2> QED
    BY <1>2, <2>1, <2>2, ConnStep
<1>4. BatchInv' /\ del_list' \in Seq(Handlers)
  <2>1. \A g \in Handlers \ {h} : \/ hd'[g] = hd[g]
                                  \/ hd[g].state = "none" /\ (hd'[g].state = "live" => ~hd'[g].mark)
    OBVIOUS
  <2> QED
    BY <1>1, <2>1, BatchStep
<1>5. Typed'
  BY <1>4 DEF IndInv, Typed, Tables
<1> QED
  BY <1>3, <1>4, <1>5 DEF IndInv

\* SSL_accept has succeeded, failed or wants more: the connection passes to its
\* SpdyEventHandler, is closed, is to be closed or stays.
LEMMA StepSslAccept ==
  ASSUME IndInv, NEW c \in Conns, hd[<<c, "accept">>].state = "live", ~hd[<<c, "accept">>].mark,
         phase = "batch", phase' = "batch", batch' \subseteq batch, SslAccept(c),
         UNCHANGED <<backend, goaway, stream, lost, cur>>
  PROVE  IndInv'
<1> DEFINE A == <<c, "accept">>
           S == <<c, "spdy">>
           fd == connfd[c]
           accept == [hd EXCEPT ![A].finish = TRUE]
<1>1. /\ A \in ConnHandlers /\ S \in ConnHandlers /\ A \in Handlers /\ S \in Handlers /\ A # S
      /\ A # None /\ S # None /\ A[1] = c /\ A[2] = "accept" /\ S[2] = "spdy"
  BY Numbers DEF ConnHandlers
<1>2. Typed /\ UNCHANGED connfd
  BY DEF IndInv, SslAccept
<1>3. /\ fd \in Fds /\ fdtab[fd] = Conn(c) /\ poll[fd] = A /\ hd[S].state = "none"
      /\ ~hd[A].fail /\ ~hd[A].finish /\ hd[A] \in AnyHandler /\ hd[S] \in AnyHandler
  BY <1>1, <1>2 DEF IndInv, ConnInv, Serves, Typed
<1>4. /\ accept \in [Handlers -> AnyHandler] /\ accept[A].state = "live" /\ accept[A].finish
      /\ ~accept[A].fail /\ ~accept[A].mark /\ \A g \in Handlers \ {A} : accept[g] = hd[g]
  BY <1>1, <1>2, <1>3 DEF Typed, AnyHandler
<1>5. /\ fdtab \in Tables /\ poll \in [Fds -> ConnHandlers \cup {None}]
      /\ hd \in [Handlers -> AnyHandler] /\ 0 \in {0, -1} /\ Conn(c) # Free /\ fd # 0
  BY <1>2, <1>3, KindsDiffer, Numbers DEF Typed, Tables
<1> HIDE DEF A, S, accept, fd
<1>6. /\ A \in {<<c, "accept">>, <<c, "spdy">>} /\ S \in {<<c, "accept">>, <<c, "spdy">>}
      /\ {<<c, "accept">>, <<c, "spdy">>} = {A, S} /\ hd[A].state = "live" /\ ~hd[A].mark
  BY DEF A, S
<1>exec. A \in ConnHandlers /\ Typed /\ 0 \in {0, -1} /\ A[1] = c
  BY <1>1, <1>2, <1>5
<1>open. /\ UNCHANGED <<backend, goaway, stream, lost, connfd>>
      /\ fd \in Fds /\ fd = connfd[c] /\ fdtab[fd] = Conn(c)
  BY <1>2, <1>3 DEF fd
<1>7. CASE /\ Executed(A, 0, [accept EXCEPT ![S] = NewHandler], [poll EXCEPT ![fd] = S])
           /\ UNCHANGED fdtab
  <2> DEFINE handlers == [accept EXCEPT ![S] = NewHandler]
             registered == [poll EXCEPT ![fd] = S]
  <2>1. /\ NewHandler \in AnyHandler /\ NewHandler.state = "live" /\ ~NewHandler.mark
    BY DEF NewHandler, AnyHandler
  <2>2. /\ handlers \in [Handlers -> AnyHandler] /\ handlers[S] = NewHandler
        /\ \A g \in Handlers \ {S} : handlers[g] = accept[g]
    BY <1>1, <1>4, <2>1
  <2>3. /\ registered \in [Fds -> ConnHandlers \cup {None}] /\ registered[fd] = S
        /\ \A g \in Fds \ {fd} : registered[g] = poll[g]
    BY <1>1, <1>3, <1>5
  <2> HIDE DEF handlers, registered
  <2>4. Executed(A, 0, handlers, registered)
    BY <1>7 DEF handlers, registered
  <2>5. /\ hd' \in [Handlers -> AnyHandler] /\ \A g \in Handlers \ {A} : hd'[g] = handlers[g]
        /\ hd'[A].state = handlers[A].state /\ hd'[A].fail = handlers[A].fail
        /\ hd'[A].mark <=> (handlers[A].finish \/ handlers[A].mark)
        /\ poll' = IF ~handlers[A].finish THEN [registered EXCEPT ![connfd[A[1]]] = A] ELSE registered
        /\ del_list' = IF hd'[A].mark THEN Append(del_list, A) ELSE del_list
    BY <1>exec, <2>2, <2>4, ExecutedConn
  <2>6. /\ hd'[A].state = "live" /\ hd'[A].mark /\ ~hd'[A].fail /\ hd'[S] = NewHandler
        /\ \A g \in Handlers \ {A, S} : hd'[g] = hd[g]
        /\ poll' = registered
    BY <1>1, <1>4, <2>2, <2>5
  <2>7. ConnInv(c)'
    BY <1>1, <1>2, <1>3, <1>5, <1>7, <2>1, <2>3, <2>6 DEF ConnInv, Serves, A, S, fd
  <2>8. /\ fdtab' \in Tables /\ fdtab'[fd] = Conn(c) /\ \A g \in Fds : fdtab'[g] = fdtab[g]
        /\ poll' \in [Fds -> ConnHandlers \cup {None}] /\ poll'[fd] = S
        /\ \A g \in Fds \ {fd} : poll'[g] = poll[g]
    BY <1>3, <1>5, <1>7, <2>3, <2>6
  <2>9. /\ (fdtab'[fd] = Conn(c) <=> poll'[fd] # None) /\ fdtab'[fd] \in {Free, Conn(c)}
        /\ poll'[fd] \in {<<c, "accept">>, <<c, "spdy">>} /\ hd'[poll'[fd]].state = "live"
        /\ poll'[fd][2] = "accept" => hd'[<<c, "spdy">>].state = "none"
    BY <1>1, <1>6, <2>1, <2>6, <2>8
  <2>10. \A g \in {A, S} \ {A} : hd[g].state = "none" /\ ~hd'[g].mark
    BY <1>3, <2>1, <2>6
  <2> QED
    BY SMTT(30), <1>open, <1>6, <2>5, <2>6, <2>7, <2>8, <2>9, <2>10, HandlerStep
<1>8. CASE /\ Executed(A, 0, [accept EXCEPT ![S].state = "deleted"], Unpoll({fd}))
           /\ fdtab' = Close(fdtab, {fd})
  <2> DEFINE deleted == [accept[S] EXCEPT !.state = "deleted"]
             handlers == [accept EXCEPT ![S] = deleted]
             registered == Unpoll({fd})
  <2>1. deleted \in AnyHandler /\ deleted.state = "deleted"
    BY <1>1, <1>4 DEF AnyHandler
  <2>2. /\ handlers \in [Handlers -> AnyHandler] /\ handlers[S] = deleted
        /\ \A g \in Handlers \ {S} : handlers[g] = accept[g]
    BY <1>1, <1>4, <2>1
  <2>3. /\ registered \in [Fds -> ConnHandlers \cup {None}] /\ registered[fd] = None
        /\ \A g \in Fds \ {fd} : registered[g] = poll[g]
    BY <1>1, <1>3, <1>5 DEF Unpoll
  <2>4. fdtab' \in Tables /\ fdtab'[fd] = Free /\ \A g \in Fds \ {fd} : fdtab'[g] = fdtab[g]
    BY <1>3, <1>5, <1>8 DEF Close, Tables
  <2>5. Executed(A, 0, handlers, registered)
    BY <1>8
  <2> HIDE DEF handlers, registered, deleted
  <2>6. /\ hd' \in [Handlers -> AnyHandler] /\ \A g \in Handlers \ {A} : hd'[g] = handlers[g]
        /\ hd'[A].state = handlers[A].state /\ hd'[A].fail = handlers[A].fail
        /\ hd'[A].mark <=> (handlers[A].finish \/ handlers[A].mark)
        /\ poll' = IF ~handlers[A].finish THEN [registered EXCEPT ![connfd[A[1]]] = A] ELSE registered
        /\ del_list' = IF hd'[A].mark THEN Append(del_list, A) ELSE del_list
    BY <1>exec, <2>2, <2>5, ExecutedConn
  <2>7. /\ hd'[A].state = "live" /\ hd'[A].mark /\ ~hd'[A].fail /\ hd'[S].state = "deleted"
        /\ \A g \in Handlers \ {A, S} : hd'[g] = hd[g]
        /\ poll' = registered
    BY <1>1, <1>4, <2>1, <2>2, <2>6
  <2>8. ConnInv(c)'
    BY <1>1, <1>2, <1>3, <1>5, <2>7 DEF ConnInv, Serves, A, S, fd
  <2>9. /\ poll' \in [Fds -> ConnHandlers \cup {None}] /\ poll'[fd] = None
        /\ \A g \in Fds \ {fd} : poll'[g] = poll[g]
        /\ ~(fdtab'[fd] = Conn(c)) /\ fdtab'[fd] \in {Free, Conn(c)}
    BY <1>5, <2>3, <2>4, <2>7
  <2>10. \A g \in {A, S} \ {A} : hd[g].state = "none" /\ ~(hd'[g].state = "live")
    BY <1>3, <2>7
  <2> QED
    BY SMTT(30), <1>open, <1>6, <2>4, <2>6, <2>7, <2>8, <2>9, <2>10, HandlerStep
<1>9. CASE /\ Executed(A, 0, [hd EXCEPT ![A].finish = TRUE, ![A].fail = TRUE], poll)
           /\ UNCHANGED fdtab
  <2> DEFINE handlers == [hd EXCEPT ![A].finish = TRUE, ![A].fail = TRUE]
  <2>1. /\ handlers \in [Handlers -> AnyHandler] /\ handlers[A].state = "live" /\ handlers[A].finish
        /\ handlers[A].fail /\ \A g \in Handlers \ {A} : handlers[g] = hd[g]
    BY <1>1, <1>3, <1>5, <1>6 DEF AnyHandler
  <2>2. handlers \in [Handlers -> AnyHandler] /\ Executed(A, 0, handlers, poll)
    BY <1>9, <2>1
  <2> HIDE DEF handlers
  <2>3. /\ hd' \in [Handlers -> AnyHandler] /\ \A g \in Handlers \ {A} : hd'[g] = handlers[g]
        /\ hd'[A].state = handlers[A].state /\ hd'[A].fail = handlers[A].fail
        /\ hd'[A].mark <=> (handlers[A].finish \/ handlers[A].mark)
        /\ poll' = IF ~handlers[A].finish THEN [poll EXCEPT ![connfd[A[1]]] = A] ELSE poll
        /\ del_list' = IF hd'[A].mark THEN Append(del_list, A) ELSE del_list
    BY <1>exec, <2>2, ExecutedConn
  <2>4. /\ hd'[A].state = "live" /\ hd'[A].mark /\ hd'[A].fail /\ hd'[S] = hd[S]
        /\ \A g \in Handlers \ {A, S} : hd'[g] = hd[g]
        /\ poll' = poll
    BY <1>1, <2>1, <2>3
  <2>5. ConnInv(c)'
    BY <1>1, <1>2, <1>3, <1>5, <1>9, <2>4 DEF ConnInv, Serves, A, S, fd
  <2>6. /\ fdtab' \in Tables /\ fdtab'[fd] = Conn(c) /\ \A g \in Fds : fdtab'[g] = fdtab[g]
        /\ poll' \in [Fds -> ConnHandlers \cup {None}] /\ poll'[fd] = A
        /\ \A g \in Fds : poll'[g] = poll[g]
    BY <1>3, <1>5, <1>9, <2>4
  <2>7. /\ (fdtab'[fd] = Conn(c) <=> poll'[fd] # None) /\ fdtab'[fd] \in {Free, Conn(c)}
        /\ poll'[fd] \in {<<c, "accept">>, <<c, "spdy">>} /\ hd'[poll'[fd]].state = "live"
        /\ poll'[fd][2] = "accept" => hd'[<<c, "spdy">>].state = "none"
    BY <1>1, <1>3, <1>6, <2>4, <2>6 DEF S
  <2>8. \A g \in {A, S} \ {A} : hd'[g] = hd[g]
    BY <2>4
  <2> QED
    BY SMTT(30), <1>open, <1>6, <2>3, <2>4, <2>5, <2>6, <2>7, <2>8, HandlerStep
<1>10. CASE Executed(A, 0, hd, poll) /\ UNCHANGED fdtab
  <2>1. /\ hd' \in [Handlers -> AnyHandler] /\ \A g \in Handlers \ {A} : hd'[g] = hd[g]
        /\ hd'[A].state = hd[A].state /\ hd'[A].fail = hd[A].fail /\ hd'[A].finish = hd[A].finish
        /\ hd'[A].mark <=> (hd[A].finish \/ hd[A].mark)
        /\ poll' = IF ~hd[A].finish THEN [poll EXCEPT ![connfd[A[1]]] = A] ELSE poll
        /\ del_list' = IF hd'[A].mark THEN Append(del_list, A) ELSE del_list
    BY <1>exec, <1>5, <1>10, ExecutedConn
  <2>2. poll' = poll
    BY <1>1, <1>3, <1>5, <2>1 DEF fd
  <2>3. /\ hd'[A].state = "live" /\ ~hd'[A].mark /\ ~hd'[A].fail /\ ~hd'[A].finish /\ hd'[S] = hd[S]
    BY <1>1, <1>3, <1>6, <2>1
  <2>4. ConnInv(c)'
    BY <1>1, <1>2, <1>3, <1>5, <1>10, <2>2, <2>3 DEF ConnInv, Serves, A, S, fd
  <2>5. /\ fdtab' \in Tables /\ fdtab'[fd] = Conn(c) /\ \A g \in Fds : fdtab'[g] = fdtab[g]
        /\ poll' \in [Fds -> ConnHandlers \cup {None}] /\ poll'[fd] = A
        /\ \A g \in Fds : poll'[g] = poll[g]
    BY <1>3, <1>5, <1>10, <2>2
  <2>6. /\ (fdtab'[fd] = Conn(c) <=> poll'[fd] # None) /\ fdtab'[fd] \in {Free, Conn(c)}
        /\ poll'[fd] \in {<<c, "accept">>, <<c, "spdy">>} /\ hd'[poll'[fd]].state = "live"
        /\ poll'[fd][2] = "accept" => hd'[<<c, "spdy">>].state = "none"
    BY <1>1, <1>3, <1>6, <2>3, <2>5 DEF S
  <2>7. \A g \in {A, S} \ {A} : hd'[g] = hd[g]
    BY <2>3
  <2> QED
    BY <1>open, <1>6, <2>1, <2>3, <2>4, <2>5, <2>6, <2>7, HandlerStep
<1> QED
  BY <1>7, <1>8, <1>9, <1>10 DEF SslAccept, SslAccepted, A, S, accept, fd

\* A SpdyEventHandler has executed or is marked for a hang-up.
LEMMA SpdyExecuted ==
  ASSUME IndInv, NEW c \in Conns, hd[<<c, "spdy">>].state = "live", ~hd[<<c, "spdy">>].mark,
         phase' = "batch", batch' \subseteq batch,
         UNCHANGED <<backend, fdtab, connfd, goaway, stream, lost>>,
         NEW r \in {0, -1}, NEW handlers \in [Handlers -> AnyHandler],
         handlers[<<c, "spdy">>].state = "live",
         \A g \in Handlers \ {<<c, "spdy">>} : handlers[g] = hd[g],
         Executed(<<c, "spdy">>, r, handlers, poll)
  PROVE  IndInv'
<1> DEFINE A == <<c, "accept">>
           S == <<c, "spdy">>
           fd == connfd[c]
<1>1. /\ A \in ConnHandlers /\ S \in ConnHandlers /\ A \in Handlers /\ S \in Handlers /\ A # S
      /\ A # None /\ S # None /\ S[1] = c /\ S[2] = "spdy" /\ {A, S} \subseteq Handlers
  BY Numbers DEF ConnHandlers
<1>2. Typed /\ ConnInv(c)
  BY DEF IndInv
<1>3. fd \in Fds /\ fdtab[fd] = Conn(c) /\ poll[fd] = S /\ fd = connfd[c] /\ fd # 0
  BY <1>2, Numbers DEF ConnInv, Serves
<1>4. fdtab \in Tables /\ poll \in [Fds -> ConnHandlers \cup {None}]
  BY <1>2 DEF Typed, Tables
<1>5. /\ hd[A].state # "none" /\ ~(hd[A].state = "live" /\ ~hd[A].mark)
      /\ ~(hd[A].state = "live" /\ hd[A].fail) /\ hd[S].state = "live" /\ ~hd[S].mark
  BY <1>2 DEF ConnInv
<1>6. S \in {<<c, "accept">>, <<c, "spdy">>} /\ {<<c, "accept">>, <<c, "spdy">>} = {A, S}
  OBVIOUS
<1>7. /\ handlers[S].state = "live" /\ \A g \in Handlers \ {S} : handlers[g] = hd[g]
      /\ Executed(S, r, handlers, poll)
  OBVIOUS
<1> HIDE DEF A, S, fd
<1>8. /\ hd' \in [Handlers -> AnyHandler] /\ \A g \in Handlers \ {S} : hd'[g] = handlers[g]
      /\ hd'[S].state = handlers[S].state
      /\ poll' = IF r = 0 /\ ~handlers[S].finish THEN [poll EXCEPT ![connfd[S[1]]] = S] ELSE poll
      /\ del_list' = IF hd'[S].mark THEN Append(del_list, S) ELSE del_list
  BY <1>1, <1>2, <1>7, ExecutedConn
<1>9. poll' = poll
  BY <1>1, <1>3, <1>4, <1>8
<1>10. hd'[A] = hd[A] /\ hd'[S].state = "live" /\ \A g \in Handlers \ {A, S} : hd'[g] = hd[g]
  BY <1>1, <1>7, <1>8
<1>11. ConnInv(c)'
  BY <1>1, <1>3, <1>5, <1>9, <1>10 DEF ConnInv, Serves, A, S, fd
<1>12. /\ fdtab' \in Tables /\ fdtab'[fd] = Conn(c) /\ fdtab'[fd] \in {Free, Conn(c)}
       /\ poll' \in [Fds -> ConnHandlers \cup {None}] /\ poll'[fd] = S
       /\ poll'[fd] # None /\ poll'[fd][2] # "accept" /\ hd'[poll'[fd]].state = "live"
       /\ \A g \in Fds : fdtab'[g] = fdtab[g] /\ poll'[g] = poll[g]
  BY <1>1, <1>3, <1>4, <1>9, <1>10
<1>13. \A g \in {A, S} \ {S} : hd'[g] = hd[g]
  BY <1>10
<1>14. UNCHANGED <<backend, goaway, stream, lost, connfd>>
  OBVIOUS
<1>15. /\ fdtab'[fd] = Conn(c) <=> poll'[fd] # None
       /\ poll'[fd] # None => /\ poll'[fd] \in {<<c, "accept">>, <<c, "spdy">>}
                              /\ hd'[poll'[fd]].state = "live"
                              /\ poll'[fd][2] = "accept" => hd'[<<c, "spdy">>].state = "none"
  BY <1>6, <1>12
<1>16. /\ fd \in Fds /\ fd = connfd[c] /\ fdtab[fd] = Conn(c)
       /\ hd[S].state = "live" /\ ~hd[S].mark /\ hd'[S].state = "live"
  BY <1>3, <1>5, <1>10
<1>17. /\ \A g \in Handlers \ {<<c, "accept">>, <<c, "spdy">>} : hd'[g] = hd[g]
       /\ \A g \in {<<c, "accept">>, <<c, "spdy">>} \ {S} : hd'[g] = hd[g]
       /\ hd' \in [Handlers -> AnyHandler]
       /\ del_list' = IF hd'[S].mark THEN Append(del_list, S) ELSE del_list
  BY <1>6, <1>8, <1>10, <1>13
<1>18. /\ fdtab' \in Tables /\ poll' \in [Fds -> ConnHandlers \cup {None}]
       /\ \A g \in Fds \ {fd} : fdtab'[g] = fdtab[g] /\ poll'[g] = poll[g]
       /\ fdtab'[fd] \in {Free, Conn(c)} /\ S \in {<<c, "accept">>, <<c, "spdy">>}
  BY <1>6, <1>12
<1> QED
  BY ZenonT(40), <1>11, <1>14, <1>15, <1>16, <1>17, <1>18, HandlerStep

\* execute returns: the handler is registered again, or marked and listed once.
LEMMA StepReturns ==
  ASSUME IndInv, NEW c \in Conns, ExecuteReturns(c)
  PROVE  IndInv'
<1> DEFINE S == <<c, "spdy">>
<1>1. /\ cur = S /\ phase \in {"recv", "send"} /\ phase' = "batch" /\ batch' \subseteq batch
      /\ UNCHANGED <<backend, fdtab, connfd, goaway, stream, lost>>
  BY DEF ExecuteReturns
<1>2. hd[S].state = "live" /\ ~hd[S].mark
  BY <1>1 DEF IndInv, BatchInv
<1>3. S \in Handlers /\ hd \in [Handlers -> AnyHandler] /\ -1 \in {0, -1} /\ 0 \in {0, -1}
  BY Numbers DEF ConnHandlers, IndInv, Typed
<1>4. CASE Executed(S, -1, hd, poll)
  BY <1>1, <1>2, <1>3, <1>4, SpdyExecuted
<1>5. CASE Executed(S, 0, [hd EXCEPT ![S].finish = SessionFinished(c)], poll)
  <2> DEFINE handlers == [hd EXCEPT ![S].finish = SessionFinished(c)]
  <2>1. SessionFinished(c) \in BOOLEAN
    BY DEF SessionFinished, IndInv, Typed
  <2>2. /\ handlers \in [Handlers -> AnyHandler] /\ handlers[S].state = "live"
        /\ \A g \in Handlers \ {S} : handlers[g] = hd[g]
    BY <1>2, <1>3, <2>1 DEF AnyHandler
  <2>3. Executed(S, 0, handlers, poll)
    BY <1>5
  <2> HIDE DEF handlers
  <2> QED
    BY <1>1, <1>2, <1>3, <2>2, <2>3, SpdyExecuted
<1> QED
  BY <1>1, <1>4, <1>5 DEF ExecuteReturns

\* One event of the batch.
LEMMA StepHandle ==
  ASSUME IndInv, NEW e \in batch, Handle(e)
  PROVE  IndInv'
<1>1. /\ phase = "batch" /\ batch' \subseteq batch /\ UNCHANGED <<backend, goaway, stream, lost>>
      /\ e.hd \in Handlers /\ hd[e.hd].state = "live" /\ Typed /\ BatchInv
      /\ e.ev = "hup" => e.hd \in Conns \X {"spdy"}
  BY DEF Handle, IndInv, Typed, BatchInv
<1>2. CASE UNCHANGED <<phase, cur, hd, poll, del_list, connfd, fdtab>>
  <2>1. (\A c \in Conns : ConnInv(c)') /\ PollInv'
    BY <1>2, ConnsKept
  <2>2. Typed' /\ BatchInv'
    BY <1>1, <1>2 DEF Typed, BatchInv
  <2> QED
    BY <1>1, <1>2, <2>1, <2>2 DEF IndInv, StreamInv, FilesOwned
<1>3. CASE AcceptConnection /\ UNCHANGED <<phase, cur>>
  BY <1>1, <1>3, StepAccept
<1>4. CASE ~hd[e.hd].mark /\ e.hd[2] = "accept" /\ SslAccept(e.hd[1]) /\ UNCHANGED <<phase, cur>>
  <2>1. PICK c \in Conns : e.hd = <<c, "accept">>
    BY <1>1, <1>4, Numbers DEF ConnHandlers, Listener
  <2> QED
    BY <1>1, <1>4, <2>1, StepSslAccept
<1>5. CASE /\ ~hd[e.hd].mark /\ e.hd[2] = "spdy" /\ phase' = "recv" /\ cur' = e.hd
           /\ UNCHANGED <<hd, poll, del_list, connfd, fdtab>>
  <2>1. (\A c \in Conns : ConnInv(c)') /\ PollInv'
    BY <1>5, ConnsKept
  <2>2. e.hd \in Conns \X {"spdy"}
    BY <1>1, <1>5, Numbers DEF ConnHandlers, Listener
  <2>3. Typed' /\ BatchInv'
    BY <1>1, <1>5, <2>2 DEF Typed, BatchInv
  <2> QED
    BY <1>1, <1>5, <2>1, <2>3 DEF IndInv, StreamInv, FilesOwned
<1>6. CASE /\ ~hd[e.hd].mark /\ e.ev = "hup"
           /\ Executed(e.hd, 0, [hd EXCEPT ![e.hd].mark = TRUE], poll)
           /\ UNCHANGED <<phase, cur, connfd, fdtab>>
  <2>1. PICK c \in Conns : e.hd = <<c, "spdy">>
    BY <1>1, <1>6
  <2> DEFINE S == <<c, "spdy">>
             handlers == [hd EXCEPT ![S].mark = TRUE]
  <2>2. /\ handlers \in [Handlers -> AnyHandler] /\ handlers[S].state = "live"
        /\ \A g \in Handlers \ {S} : handlers[g] = hd[g]
    BY ZenonT(40), <1>1, <2>1 DEF Typed, AnyHandler
  <2>3. Executed(S, 0, handlers, poll)
    BY <1>6, <2>1
  <2>4. hd[S].state = "live" /\ ~hd[S].mark /\ phase' = "batch" /\ 0 \in {0, -1}
    BY <1>1, <1>6, <2>1
  <2> HIDE DEF handlers
  <2> QED
    BY <1>1, <1>6, <2>2, <2>3, <2>4, SpdyExecuted
<1> QED
  BY <1>2, <1>3, <1>4, <1>5, <1>6 DEF Handle

\* What poll reports: handlers that are registered, and the listener.
LEMMA StepPoll ==
  ASSUME IndInv, Poll
  PROVE  IndInv'
<1>1. /\ phase = "poll" /\ phase' = "batch" /\ Typed /\ BatchInv
      /\ UNCHANGED <<backend, fdtab, poll, hd, connfd, goaway, stream, cur, del_list, lost>>
  BY DEF Poll, IndInv
<1>2. \A h \in Ready : h \in Handlers /\ hd[h].state = "live"
  <2>1. \A fd \in Fds : poll[fd] # None => poll[fd] \in Handlers /\ hd[poll[fd]].state = "live"
    <3>1. PollInv /\ poll \in [Fds -> ConnHandlers \cup {None}]
      BY <1>1 DEF IndInv, Typed
    <3>2. \A fd \in Fds : poll[fd] # None => hd[poll[fd]].state = "live"
      BY <3>1 DEF PollInv
    <3>3. ConnHandlers \subseteq Handlers
      BY Numbers
    <3> QED
      BY <3>1, <3>2, <3>3
  <2>2. Listener \in Handlers /\ hd[Listener].state = "live" /\ DOMAIN poll = Fds
    BY <1>1, Numbers DEF BatchInv, Typed
  <2> QED
    BY <2>1, <2>2 DEF Ready
<1>3. \A h \in Ready : h[2] \in HangupAlone => h \in Conns \X {"spdy"}
  <2>1. ASSUME NEW h \in Handlers, h[2] = "spdy" PROVE h \in Conns \X {"spdy"}
    BY <2>1, Numbers DEF ConnHandlers, Listener
  <2> QED
    BY <1>2, <2>1, SpdyServerAssumption
<1>4. batch' \subseteq [hd : Ready, ev : {"in", "out"}]
                      \cup [hd : {h \in Ready : h[2] \in HangupAlone}, ev : {"hup"}]
  BY DEF Poll, epoll_events, kqueue_events
<1>5. \A e \in batch' : /\ e \in [hd : Handlers, ev : {"in", "out", "hup"}]
                        /\ hd[e.hd].state = "live"
                        /\ e.ev = "hup" => e.hd \in Conns \X {"spdy"}
  BY <1>2, <1>3, <1>4
<1>6. Typed' /\ BatchInv'
  BY <1>1, <1>5 DEF Typed, BatchInv
<1>7. (\A c \in Conns : ConnInv(c)') /\ PollInv'
  BY <1>1, ConnsKept
<1> QED
  BY <1>1, <1>6, <1>7 DEF IndInv, StreamInv, FilesOwned

\* session_recv has read everything.
LEMMA StepRecvDone ==
  ASSUME IndInv, RecvDone
  PROVE  IndInv'
<1>1. /\ phase = "recv" /\ phase' = "send" /\ Typed /\ BatchInv
      /\ UNCHANGED <<backend, fdtab, poll, hd, connfd, goaway, stream, cur, batch, del_list, lost>>
  BY DEF RecvDone, IndInv
<1>2. (\A c \in Conns : ConnInv(c)') /\ PollInv'
  BY <1>1, ConnsKept
<1>3. Typed' /\ BatchInv'
  BY <1>1 DEF Typed, BatchInv
<1> QED
  BY <1>1, <1>2, <1>3 DEF IndInv, StreamInv, FilesOwned

-----------------------------------------------------------------------------
(* The end of a batch: the marked handlers are deleted.                    *)

Gone == {del_list[i] : i \in DOMAIN del_list}
Closed == UNION {ClosedBy(h) : h \in Gone}

\* A handler that closes connection c is deleted.
Leaves(c) == \/ <<c, "accept">> \in Gone /\ hd[<<c, "accept">>].fail
             \/ <<c, "spdy">> \in Gone

\* The handler whose Request has descriptor fd open is deleted.
Drops(fd) == \E c \in Conns : <<c, "spdy">> \in Gone /\ \E s \in Streams(c) : stream[c][s].file = fd

\* The handlers that are deleted are the marked ones.
LEMMA GoneMarked ==
  ASSUME IndInv
  PROVE  /\ Gone \subseteq ConnHandlers
         /\ \A h \in Handlers : h \in Gone <=> hd[h].state = "live" /\ hd[h].mark
<1>1. BatchInv /\ del_list \in Seq(Handlers)
  BY DEF IndInv, Typed
<1>2. Gone \subseteq Handlers
  BY <1>1 DEF Gone
<1>3. \A h \in Handlers : h \in Gone <=> hd[h].state = "live" /\ hd[h].mark
  BY <1>1 DEF Gone, BatchInv
<1>4. Listener \notin Gone
  BY <1>1, <1>3, Numbers DEF BatchInv
<1> QED
  BY <1>2, <1>3, <1>4, Numbers

\* A connection is closed by a handler that still has it, so that a descriptor is closed
\* only by those whose it is, however often its number was used before.
LEMMA ClosedFacts ==
  ASSUME IndInv
  PROVE  /\ \A c \in Conns : Leaves(c) => connfd[c] \in Fds /\ fdtab[connfd[c]] = Conn(c)
         /\ \A fd \in Fds, c \in Conns : fdtab[fd] = Conn(c) => (fd \in Closed <=> Leaves(c))
         /\ \A fd \in Fds : fdtab[fd] \in Opened => (fd \in Closed <=> Drops(fd))
<1>1. \A c \in Conns : Leaves(c) => connfd[c] \in Fds /\ fdtab[connfd[c]] = Conn(c)
  <2> SUFFICES ASSUME NEW c \in Conns, Leaves(c)
               PROVE  connfd[c] \in Fds /\ fdtab[connfd[c]] = Conn(c)
    OBVIOUS
  <2>1. ConnInv(c) /\ <<c, "accept">> \in Handlers /\ <<c, "spdy">> \in Handlers
    BY Numbers DEF IndInv, ConnHandlers
  <2>2. CASE <<c, "accept">> \in Gone /\ hd[<<c, "accept">>].fail
    BY <2>1, <2>2, GoneMarked DEF ConnInv, Serves
  <2>3. CASE <<c, "spdy">> \in Gone
    BY <2>1, <2>3, GoneMarked DEF ConnInv, Serves
  <2> QED
    BY <2>2, <2>3 DEF Leaves
<1>2. ASSUME NEW c \in Conns
      PROVE  /\ ClosedBy(<<c, "accept">>) = accept_closes(c)
             /\ ClosedBy(<<c, "spdy">>) = spdy_closes(c)
  BY DEF ClosedBy
<1>3. ASSUME NEW fd \in Fds
      PROVE  fd \in Closed <=> \/ \E c \in Conns : Leaves(c) /\ connfd[c] = fd
                               \/ Drops(fd)
  <2>1. ASSUME NEW c \in Conns
        PROVE  /\ fd \in accept_closes(c) <=> hd[<<c, "accept">>].fail /\ connfd[c] = fd
               /\ fd \in spdy_closes(c) <=> \/ connfd[c] = fd
                                            \/ \E s \in Streams(c) : stream[c][s].file = fd
    BY Numbers DEF accept_closes, spdy_closes
  <2>2. ASSUME fd \in Closed
        PROVE  (\E c \in Conns : Leaves(c) /\ connfd[c] = fd) \/ Drops(fd)
    <3>1. PICK h \in Gone : fd \in ClosedBy(h)
      BY <2>2 DEF Closed
    <3>2. PICK c \in Conns, k \in {"accept", "spdy"} : h = <<c, k>>
      BY GoneMarked DEF ConnHandlers
    <3>3. CASE k = "accept"
      BY <1>2, <2>1, <3>1, <3>2, <3>3 DEF Leaves
    <3>4. CASE k = "spdy"
      BY <1>2, <2>1, <3>1, <3>2, <3>4 DEF Leaves, Drops
    <3> QED
      BY <3>3, <3>4
  <2>3. ASSUME NEW c \in Conns, Leaves(c), connfd[c] = fd
        PROVE  fd \in Closed
    <3>1. CASE <<c, "accept">> \in Gone /\ hd[<<c, "accept">>].fail
      BY <1>2, <2>1, <2>3, <3>1 DEF Closed
    <3>2. CASE <<c, "spdy">> \in Gone
      BY <1>2, <2>1, <2>3, <3>2 DEF Closed
    <3> QED
      BY <2>3, <3>1, <3>2 DEF Leaves
  <2>4. ASSUME Drops(fd)
        PROVE  fd \in Closed
    <3>1. PICK c \in Conns : <<c, "spdy">> \in Gone /\ \E s \in Streams(c) : stream[c][s].file = fd
      BY <2>4 DEF Drops
    <3> QED
      BY <1>2, <2>1, <3>1 DEF Closed
  <2> QED
    BY <2>2, <2>3, <2>4
<1>4. ASSUME NEW fd \in Fds, Drops(fd)
      PROVE  fdtab[fd] \in Opened
  BY <1>4, FileFacts DEF Drops
<1>5. ASSUME NEW fd \in Fds, NEW c \in Conns, fdtab[fd] = Conn(c)
      PROVE  fd \in Closed <=> Leaves(c)
  <2>1. connfd[c] = fd
    BY <1>5 DEF IndInv, PollInv
  <2>2. ~Drops(fd)
    BY <1>4, <1>5, KindsDiffer
  <2>3. ASSUME NEW d \in Conns, Leaves(d), connfd[d] = fd
        PROVE  d = c
    BY <1>1, <1>5, <2>3, KindsDiffer
  <2> QED
    BY <1>3, <2>1, <2>2, <2>3
<1>6. ASSUME NEW fd \in Fds, fdtab[fd] \in Opened
      PROVE  fd \in Closed <=> Drops(fd)
  <2>1. ~\E c \in Conns : Leaves(c) /\ connfd[c] = fd
    BY <1>1, <1>6, KindsDiffer
  <2> QED
    BY <1>3, <2>1
<1> QED
  BY <1>1, <1>5, <1>6

\* on_close for every handler of del_list.
LEMMA StepDelete ==
  ASSUME IndInv, DeleteMarked
  PROVE  IndInv'
<1>1. /\ fdtab' = Close(fdtab, Closed) /\ poll' = Unpoll(Closed)
      /\ hd' = [h \in Handlers |-> IF h \in Gone THEN [hd[h] EXCEPT !.state = "deleted"] ELSE hd[h]]
      /\ stream' = [c \in Conns |-> IF <<c, "spdy">> \in Gone
                                    THEN [s \in Streams(c) |-> [NewStream EXCEPT !.state = "closed"]]
                                    ELSE stream[c]]
  BY DEF DeleteMarked, Gone, Closed
<1>2. /\ batch = {} /\ batch' = {} /\ del_list' = <<>> /\ phase' = "poll"
      /\ UNCHANGED <<backend, connfd, goaway, cur, lost>> /\ Typed
  BY DEF DeleteMarked, IndInv
<1>3. ASSUME NEW h \in Handlers
      PROVE  /\ hd'[h] \in AnyHandler /\ hd'[h].mark = hd[h].mark /\ hd'[h].fail = hd[h].fail
             /\ hd'[h].finish = hd[h].finish
             /\ h \in Gone => hd'[h].state = "deleted" /\ hd[h].state = "live" /\ hd[h].mark
             /\ h \notin Gone => hd'[h].state = hd[h].state /\ ~(hd[h].state = "live" /\ hd[h].mark)
  <2>1. hd[h] \in AnyHandler
    BY <1>2 DEF Typed
  <2>2. CASE h \in Gone
    <3>1. hd'[h] = [hd[h] EXCEPT !.state = "deleted"] /\ hd[h].state = "live" /\ hd[h].mark
      BY <1>1, <2>2, GoneMarked
    <3> QED
      BY <2>1, <2>2, <3>1 DEF AnyHandler
  <2>3. CASE h \notin Gone
    BY <1>1, <2>1, <2>3, GoneMarked
  <2> QED
    BY <2>2, <2>3
<1>4. /\ fdtab' \in Tables /\ poll' \in [Fds -> ConnHandlers \cup {None}]
      /\ \A fd \in Fds : IF fd \in Closed THEN fdtab'[fd] = Free /\ poll'[fd] = None
                         ELSE fdtab'[fd] = fdtab[fd] /\ poll'[fd] = poll[fd]
  BY <1>1, <1>2 DEF Close, Unpoll, Typed, Tables
<1>5. ASSUME NEW c \in Conns, NEW s \in Streams(c)
      PROVE  /\ stream'[c][s] \in AnyStream
             /\ <<c, "spdy">> \in Gone =>
                   /\ stream'[c][s].file = 0 /\ stream'[c][s].src = 0 /\ stream'[c][s].got = {}
                   /\ stream'[c][s].state = "closed"
             /\ <<c, "spdy">> \notin Gone => stream'[c][s] = stream[c][s]
  <2>1. /\ [NewStream EXCEPT !.state = "closed"] \in AnyStream
        /\ [NewStream EXCEPT !.state = "closed"].file = 0 /\ [NewStream EXCEPT !.state = "closed"].src = 0
        /\ [NewStream EXCEPT !.state = "closed"].got = {}
        /\ [NewStream EXCEPT !.state = "closed"].state = "closed"
    BY Numbers DEF NewStream, AnyStream
  <2>2. stream[c][s] \in AnyStream
    BY <1>2 DEF Typed
  <2> QED
    BY <1>1, <2>1, <2>2
<1>6. Typed'
  <2>1. DOMAIN stream' = Conns /\ \A c \in Conns : stream'[c] \in [Streams(c) -> AnyStream]
    <3>1. ASSUME NEW c \in Conns PROVE stream'[c] \in [Streams(c) -> AnyStream]
      <4>1. stream'[c] = [s \in Streams(c) |-> stream'[c][s]]
        BY <1>1, <1>2 DEF Typed
      <4> QED
        BY <1>5, <4>1
    <3> QED
      BY <1>1, <3>1
  <2>2. hd' \in [Handlers -> AnyHandler] /\ del_list' \in Seq(Handlers)
    BY <1>1, <1>2, <1>3
  <2> QED
    BY <1>2, <1>4, <2>1, <2>2 DEF Typed, Tables
<1>7. ASSUME NEW c \in Conns PROVE ConnInv(c)'
  <2> DEFINE A == <<c, "accept">>
             S == <<c, "spdy">>
  <2>1. ConnInv(c) /\ A \in Handlers /\ S \in Handlers
    BY Numbers DEF IndInv, ConnHandlers
  <2>2. ASSUME NEW k \in {"accept", "spdy"}, Serves(c, k), ~Leaves(c)
        PROVE  Serves(c, k)'
    BY <1>2, <1>4, <2>2, ClosedFacts DEF Serves
  <2>3. /\ hd'[A].mark = hd[A].mark /\ hd'[A].fail = hd[A].fail /\ hd'[A].finish = hd[A].finish
        /\ A \in Gone => hd'[A].state = "deleted" /\ hd[A].state = "live"
        /\ A \notin Gone => hd'[A].state = hd[A].state /\ ~(hd[A].state = "live" /\ hd[A].mark)
    BY <1>3, <2>1
  <2>4. /\ S \in Gone => hd'[S].state = "deleted" /\ hd[S].state = "live"
        /\ S \notin Gone => hd'[S].state = hd[S].state
    BY <1>3, <2>1
  <2>5. ASSUME hd'[A].state = "live"
        PROVE  /\ Serves(c, "accept")' /\ ~hd'[A].mark /\ ~hd'[A].fail /\ ~hd'[A].finish
               /\ hd'[S].state = "none"
    <3>1. A \notin Gone /\ hd[A].state = "live" /\ ~hd[A].mark
      BY <2>3, <2>5
    <3>2. /\ ~hd[A].fail /\ ~hd[A].finish /\ hd[S].state = "none" /\ Serves(c, "accept")
      BY <2>1, <3>1 DEF ConnInv
    <3>3. S \notin Gone /\ ~Leaves(c)
      BY <2>4, <3>1, <3>2 DEF Leaves
    <3> QED
      BY <2>2, <2>3, <2>4, <3>1, <3>2, <3>3
  <2>6. ASSUME hd'[S].state = "live"
        PROVE  Serves(c, "spdy")'
    <3>1. S \notin Gone /\ hd[S].state = "live" /\ Serves(c, "spdy")
      BY <2>1, <2>4, <2>6 DEF ConnInv
    <3>2. ~Leaves(c)
      BY <2>1, <2>3, <3>1 DEF Leaves, ConnInv
    <3> QED
      BY <2>2, <3>1, <3>2
  <2>7. /\ connfd'[c] = 0 => hd'[A].state = "none" /\ hd'[S].state = "none"
        /\ hd'[A].state = "none" => hd'[S].state = "none" /\ connfd'[c] = 0
    BY <1>2, <2>1, <2>3, <2>4 DEF ConnInv
  <2> QED
    BY <2>5, <2>6, <2>7 DEF ConnInv
<1>8. PollInv'
  <2>1. ASSUME NEW fd \in Fds, poll'[fd] # None
        PROVE  /\ fdtab'[fd] = Conn(poll'[fd][1]) /\ hd'[poll'[fd]].state = "live"
               /\ poll'[fd][2] = "accept" => hd'[<<poll'[fd][1], "spdy">>].state = "none"
    <3>1. fd \notin Closed /\ poll'[fd] = poll[fd] /\ fdtab'[fd] = fdtab[fd] /\ poll[fd] # None
      BY <1>4, <2>1
    <3>2. PICK c \in Conns, k \in {"accept", "spdy"} : poll[fd] = <<c, k>>
      <4>1. poll[fd] \in Conns \X {"accept", "spdy"}
        BY <1>2, <3>1 DEF Typed, ConnHandlers
      <4> QED
        BY <4>1
    <3>3. /\ fdtab[fd] = Conn(c) /\ hd[<<c, k>>].state = "live"
          /\ k = "accept" => hd[<<c, "spdy">>].state = "none"
      <4>1. /\ fdtab[fd] = Conn(poll[fd][1]) /\ hd[poll[fd]].state = "live"
            /\ poll[fd][2] = "accept" => hd[<<poll[fd][1], "spdy">>].state = "none"
        BY <3>1 DEF IndInv, PollInv
      <4> QED
        BY <3>2, <4>1
    <3>4. ~Leaves(c) /\ <<c, "accept">> \in Handlers /\ <<c, "spdy">> \in Handlers
      BY <3>1, <3>3, ClosedFacts, Numbers DEF ConnHandlers
    <3>5. <<c, k>> \notin Gone
      <4>1. CASE k = "spdy"
        BY <3>4, <4>1 DEF Leaves
      <4>2. CASE k = "accept"
        <5>1. ConnInv(c)
          BY DEF IndInv
        <5> QED
          BY <1>3, <3>3, <3>4, <4>2, <5>1 DEF Leaves, ConnInv
      <4> QED
        BY <4>1, <4>2
    <3>6. hd'[<<c, k>>].state = "live" /\ (k = "accept" => hd'[<<c, "spdy">>].state = "none")
      BY <1>3, <3>3, <3>4, <3>5
    <3> QED
      BY <3>1, <3>2, <3>3, <3>6
  <2>2. ASSUME NEW fd \in Fds, NEW c \in Conns, fdtab'[fd] = Conn(c)
        PROVE  connfd'[c] = fd /\ poll'[fd] # None
    <3>1. fd \notin Closed /\ fdtab[fd] = Conn(c) /\ poll'[fd] = poll[fd]
      BY <1>4, <2>2, KindsDiffer
    <3> QED
      BY <1>2, <3>1 DEF IndInv, PollInv
  <2> QED
    BY <2>1, <2>2 DEF PollInv
<1>9. BatchInv'
  <2>1. Listener \in Handlers /\ Listener \notin Gone
    BY GoneMarked, Numbers
  <2>2. hd'[Listener].state = "live" /\ ~hd'[Listener].mark /\ ~hd'[Listener].finish
    BY <1>3, <2>1 DEF IndInv, BatchInv
  <2>3. \A h \in Handlers : ~(hd'[h].state = "live" /\ hd'[h].mark)
    BY <1>3
  <2> QED
    BY <1>2, <2>2, <2>3 DEF BatchInv
<1>10. ASSUME NEW fd \in Fds, NEW d \in Conns, NEW t \in Streams(d)
       PROVE  stream'[d][t].file = fd <=> stream[d][t].file = fd /\ <<d, "spdy">> \notin Gone
  BY <1>5, Numbers
<1>11. StreamInv'
  <2> SUFFICES ASSUME NEW d \in Conns, NEW t \in Streams(d)
               PROVE  LET y == stream'[d][t] IN
                      /\ y.file # 0 => y.state = "complete" /\ fdtab'[y.file] \in Opened /\ y.file \notin lost
                      /\ y.src # 0 => y.src = y.file /\ fdtab'[y.src] = y.want
                      /\ y.state \in {"idle", "open"} => y.got = {} /\ y.resp = "none"
                      /\ y.got \subseteq {y.want}
    BY <1>2 DEF StreamInv
  <2>1. CASE <<d, "spdy">> \in Gone
    BY <1>5, <2>1
  <2>2. CASE <<d, "spdy">> \notin Gone
    <3>1. stream'[d][t] = stream[d][t] /\ stream[d][t] \in AnyStream
      BY <1>5, <2>2
    <3>2. /\ stream[d][t].file # 0 => /\ stream[d][t].state = "complete"
                                      /\ fdtab[stream[d][t].file] \in Opened
                                      /\ stream[d][t].file \notin lost
          /\ stream[d][t].src # 0 => /\ stream[d][t].src = stream[d][t].file
                                     /\ fdtab[stream[d][t].src] = stream[d][t].want
          /\ stream[d][t].state \in {"idle", "open"} => stream[d][t].got = {} /\ stream[d][t].resp = "none"
          /\ stream[d][t].got \subseteq {stream[d][t].want}
      BY DEF IndInv, StreamInv
    <3>3. stream[d][t].file # 0 => fdtab'[stream[d][t].file] = fdtab[stream[d][t].file]
      <4> SUFFICES ASSUME NEW fd, fd = stream[d][t].file, fd # 0
                   PROVE  fdtab'[fd] = fdtab[fd]
        OBVIOUS
      <4>1. fd \in Fds
        BY <3>1 DEF AnyStream, Fds
      <4>2. ~Drops(fd)
        BY <2>2, <4>1, FileFacts DEF Drops
      <4>3. fd \notin Closed
        BY <3>2, <4>1, <4>2, ClosedFacts
      <4> QED
        BY <1>4, <4>1, <4>3
    <3> QED
      BY <3>1, <3>2, <3>3
  <2> QED
    BY <2>1, <2>2
<1>12. FilesOwned'
  <2> SUFFICES ASSUME NEW fd \in Fds
               PROVE  /\ fdtab'[fd] \in Opened =>
                           (fd \in lost <=> ~\E d \in Conns : \E t \in Streams(d) : stream'[d][t].file = fd)
                      /\ fd \in lost => fdtab'[fd][1] = "file"
                      /\ \A d, e \in Conns : \A t \in Streams(d), u \in Streams(e) :
                            stream'[d][t].file = fd /\ stream'[e][u].file = fd => d = e /\ t = u
    <3>1. DOMAIN fdtab' = Fds /\ lost' = lost
      BY <1>2, <1>4 DEF Tables
    <3>2. \A fd \in Fds : fdtab'[fd][1] \in {"file", "page"} <=> fdtab'[fd] \in Opened
      BY <1>4, KindsDiffer DEF Tables
    <3> QED
      BY <3>1, <3>2 DEF FilesOwned
  <2>1. /\ fdtab[fd] \in Opened =>
              (fd \in lost <=> ~\E d \in Conns : \E t \in Streams(d) : stream[d][t].file = fd)
        /\ fd \in lost => fdtab[fd][1] = "file" /\ fdtab[fd] \in Opened
        /\ \A d, e \in Conns : \A t \in Streams(d), u \in Streams(e) :
              stream[d][t].file = fd /\ stream[e][u].file = fd => d = e /\ t = u
    BY FileFacts
  <2>2. \A d, e \in Conns : \A t \in Streams(d), u \in Streams(e) :
           stream'[d][t].file = fd /\ stream'[e][u].file = fd => d = e /\ t = u
    <3> SUFFICES ASSUME NEW d \in Conns, NEW e \in Conns, NEW t \in Streams(d), NEW u \in Streams(e),
                        stream'[d][t].file = fd, stream'[e][u].file = fd
                 PROVE  d = e /\ t = u
      OBVIOUS
    <3>1. stream[d][t].file = fd /\ stream[e][u].file = fd
      BY <1>10
    <3> QED
      BY <2>1, <3>1
  <2>3. ASSUME fdtab'[fd] \in Opened
        PROVE  fd \in lost <=> ~\E d \in Conns : \E t \in Streams(d) : stream'[d][t].file = fd
    <3>1. fd \notin Closed /\ fdtab[fd] \in Opened
      BY <1>4, <2>3, KindsDiffer
    <3>2. ~Drops(fd)
      BY <3>1, ClosedFacts
    <3>3. (\E d \in Conns : \E t \in Streams(d) : stream'[d][t].file = fd)
             <=> \E d \in Conns : \E t \in Streams(d) : stream[d][t].file = fd
      BY <1>10, <3>2 DEF Drops
    <3> QED
      BY <2>1, <3>1, <3>3
  <2>4. ASSUME fd \in lost
        PROVE  fdtab'[fd][1] = "file"
    <3>1. fdtab[fd] \in Opened /\ fdtab[fd][1] = "file" /\ ~Drops(fd)
      BY <2>1, <2>4 DEF Drops
    <3>2. fd \notin Closed
      BY <3>1, ClosedFacts
    <3> QED
      BY <1>4, <3>1, <3>2
  <2> QED
    BY <2>2, <2>3, <2>4
<1> QED
  BY <1>6, <1>7, <1>8, <1>9, <1>11, <1>12 DEF IndInv

-----------------------------------------------------------------------------
(* The theorems.                                                           *)

\* Every step keeps the invariant.
LEMMA NextInv ==
  ASSUME IndInv, [Next]_vars
  PROVE  IndInv'
<1>1. CASE Poll
  BY <1>1, StepPoll
<1>2. CASE DeleteMarked
  BY <1>2, StepDelete
<1>3. CASE RecvDone
  BY <1>3, StepRecvDone
<1>4. CASE \E e \in batch : Handle(e)
  BY <1>4, StepHandle
<1>5. CASE \E c \in Conns : RecvFrame(c) \/ SendFrame(c) \/ ExecuteReturns(c)
  BY <1>5, StepRecv, StepSend, StepReturns
<1>6. CASE UNCHANGED vars
  <2>1. UNCHANGED <<backend, fdtab, poll, hd, connfd, goaway, stream, phase, cur, batch, del_list, lost>>
    BY <1>6 DEF vars
  <2>2. (\A c \in Conns : ConnInv(c)') /\ PollInv'
    BY <2>1, ConnsKept
  <2> QED
    BY <2>1, <2>2 DEF IndInv, Typed, BatchInv, StreamInv, FilesOwned
<1> QED
  BY <1>1, <1>2, <1>3, <1>4, <1>5, <1>6 DEF Next

\* The invariant holds in every state of the event loop.
THEOREM Invariance == Spec => []IndInv
<1>1. Init => IndInv
  BY InitInv
<1>2. IndInv /\ [Next]_vars => IndInv'
  BY NextInv
<1> QED
  BY <1>1, <1>2, PTL DEF Spec

\* run() never reaches a deleted handler: not through the kernel's user data, not through
\* what is left of a batch and not through the list of handlers to delete.
THEOREM HandlersAlive == Spec => []NoStaleHandler
<1>1. ASSUME IndInv PROVE NoStaleHandler
  <2>1. \A fd \in DOMAIN poll : poll[fd] # None => Live(poll[fd])
    BY <1>1 DEF IndInv, Typed, PollInv, Live
  <2>2. \A e \in batch : Live(e.hd)
    BY <1>1 DEF IndInv, BatchInv, Live
  <2>3. \A i, j \in DOMAIN del_list : Live(del_list[i]) /\ (i # j => del_list[i] # del_list[j])
    BY <1>1 DEF IndInv, BatchInv, Live
  <2> QED
    BY <2>1, <2>2, <2>3 DEF NoStaleHandler
<1> QED
  BY <1>1, Invariance, PTL

\* An open connection is registered with a handler of its own, and a handler that is not
\* marked has its connection open, whatever descriptors were closed and handed out again.
THEOREM OpenIsServed == Spec => []ConnectionServed
<1>1. ASSUME IndInv PROVE ConnectionServed
  <2> SUFFICES ASSUME NEW c \in Conns
               PROVE  /\ \A fd \in DOMAIN fdtab :
                            fdtab[fd] = <<"conn", c>> => connfd[c] = fd /\ poll[fd][1] = c
                      /\ \A h \in Handlers :
                            h[1] = c /\ Live(h) /\ ~hd[h].mark =>
                               fdtab[connfd[c]] = <<"conn", c>> /\ poll[connfd[c]] = h
    BY DEF ConnectionServed
  <2>1. ASSUME NEW fd \in DOMAIN fdtab, fdtab[fd] = <<"conn", c>>
        PROVE  connfd[c] = fd /\ poll[fd][1] = c
    <3>1. fd \in Fds /\ fdtab[fd] = Conn(c)
      BY <1>1, <2>1 DEF IndInv, Typed, Conn
    <3>2. connfd[c] = fd /\ poll[fd] # None
      BY <1>1, <3>1 DEF IndInv, PollInv
    <3>3. fdtab[fd] = Conn(poll[fd][1]) /\ poll[fd] \in ConnHandlers
      BY ZenonT(40), <1>1, <3>1, <3>2 DEF IndInv, PollInv, Typed
    <3>4. poll[fd][1] \in Conns
      BY <3>3 DEF ConnHandlers
    <3> QED
      BY <3>1, <3>2, <3>3, <3>4, KindsDiffer
  <2>2. ASSUME NEW h \in Handlers, h[1] = c, Live(h), ~hd[h].mark
        PROVE  fdtab[connfd[c]] = <<"conn", c>> /\ poll[connfd[c]] = h
    <3>1. PICK k \in {"accept", "spdy"} : h = <<c, k>>
      <4>1. h # Listener
        BY <2>2, Numbers DEF Listener
      <4>2. h \in Conns \X {"accept", "spdy"}
        BY <4>1, Numbers DEF ConnHandlers
      <4> QED
        BY <2>2, <4>2
    <3>2. ConnInv(c)
      BY <1>1 DEF IndInv
    <3>3. hd[<<c, k>>].state = "live" /\ ~hd[<<c, k>>].mark
      BY <2>2, <3>1 DEF Live
    <3>4. Serves(c, k)
      BY <3>2, <3>3 DEF ConnInv
    <3> QED
      BY <3>1, <3>4 DEF Serves, Conn
  <2> QED
    BY <2>1, <2>2
<1> QED
  BY <1>1, Invariance, PTL

\* Every open file has one owner, or is one that a 304 answer left open.
THEOREM OneOwner == Spec => []FilesOwned
<1>1. IndInv => FilesOwned
  BY DEF IndInv
<1> QED
  BY <1>1, Invariance, PTL

\* An answer is read from what its request named.
THEOREM AnswerFromItsFile == Spec => []ServesItsFile
<1>1. IndInv => ServesItsFile
  BY DEF IndInv, StreamInv, ServesItsFile
<1> QED
  BY <1>1, Invariance, PTL

=============================================================================
