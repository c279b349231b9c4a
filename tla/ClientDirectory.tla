-------------------------- MODULE ClientDirectory ---------------------------
(***************************************************************************)
(* What the push API may count on when it looks a client up, without       *)
(* sessions, messages and queries: a connection enters the directory once  *)
(* at most, under its own push id and worker and never beside another      *)
(* entry of its client; an entry is struck out only on behalf of a         *)
(* connection that was closed, once for each, or by a push that was told   *)
(* of a worker which has exited.  ClientRegistry implements this           *)
(* specification.                                                          *)
(***************************************************************************)
CONSTANTS
    PushIds, Workers,
    Conns,        \* client connections
    NoWorker,
    ClientOf,     \* push id -> the client it was issued to
    PushIdOf,     \* connection -> its push id
    WorkerOf      \* connection -> the worker that accepted it

VARIABLES
    phase,    \* connection -> "new" | "here" | "left" | "lost"
    due,      \* connections that may still enter the directory
    owed,     \* closed connections whose entry may still be struck out
    entry,    \* push id -> worker, or NoWorker
    exited,   \* workers that are gone
    asked,    \* push id -> worker a push was told of, or NoWorker
    doubted   \* push ids whose entry a push is going to strike out

vars == <<phase, due, owed, entry, exited, asked, doubted>>

Init ==
    /\ phase = [n \in Conns |-> "new"]
    /\ due = {} /\ owed = {}
    /\ entry = [p \in PushIds |-> NoWorker]
    /\ exited = {}
    /\ asked = [p \in PushIds |-> NoWorker]
    /\ doubted = {}

\* A client connects.
Arrive(n) ==
    /\ phase[n] = "new"
    /\ phase' = [phase EXCEPT ![n] = "here"]
    /\ due' = due \cup {n}
    /\ UNCHANGED <<owed, entry, exited, asked, doubted>>

\* The connection is entered, unless its client has an entry under another push
\* id; or it is not, because a query failed or the entry vanished meanwhile.
Enter(n) ==
    LET p == PushIdOf[n] IN
    /\ n \in due
    /\ due' = due \ {n}
    /\ \/ UNCHANGED entry
       \/ /\ \A q \in PushIds : ClientOf[q] = ClientOf[p] /\ entry[q] # NoWorker => q = p
          /\ entry' = [entry EXCEPT ![p] = WorkerOf[n]]
    /\ UNCHANGED <<phase, owed, exited, asked, doubted>>

\* The connection is closed, and its worker notices.
Leave(n) ==
    /\ phase[n] = "here"
    /\ phase' = [phase EXCEPT ![n] = "left"]
    /\ owed' = owed \cup {n}
    /\ UNCHANGED <<due, entry, exited, asked, doubted>>

\* The entry under a closed connection's push id is struck out, or a query failed.
Strike(n) ==
    /\ n \in owed
    /\ owed' = owed \ {n}
    /\ entry' \in {entry, [entry EXCEPT ![PushIdOf[n]] = NoWorker]}
    /\ UNCHANGED <<phase, due, exited, asked, doubted>>

\* A worker exits; of what its connections had coming, some may be lost.
Exit(w) ==
    /\ w \notin exited
    /\ exited' = exited \cup {w}
    /\ phase' = [n \in Conns |->
                   IF WorkerOf[n] = w /\ phase[n] # "new" THEN "lost" ELSE phase[n]]
    /\ due' \in SUBSET due /\ \A n \in due \ due' : WorkerOf[n] = w
    /\ owed' \in SUBSET owed /\ \A n \in owed \ owed' : WorkerOf[n] = w
    /\ UNCHANGED <<entry, asked, doubted>>

\* A push looks a client up.
Ask(p) ==
    /\ asked[p] = NoWorker /\ entry[p] # NoWorker
    /\ asked' = [asked EXCEPT ![p] = entry[p]]
    /\ UNCHANGED <<phase, due, owed, entry, exited, doubted>>

\* The push turns to the worker it was told of, or is given up.
Turn(p) ==
    /\ asked[p] # NoWorker
    /\ asked' = [asked EXCEPT ![p] = NoWorker]
    /\ \/ doubted' = doubted
       \/ asked[p] \in exited /\ doubted' = doubted \cup {p}
    /\ UNCHANGED <<phase, due, owed, entry, exited>>

\* A push that found its worker gone strikes out what the directory says now, or its
\* query failed.
Drop(p) ==
    /\ p \in doubted
    /\ doubted' = doubted \ {p}
    /\ entry' \in {entry, [entry EXCEPT ![p] = NoWorker]}
    /\ UNCHANGED <<phase, due, owed, exited, asked>>

Next ==
    \/ \E n \in Conns : Arrive(n) \/ Enter(n) \/ Leave(n) \/ Strike(n)
    \/ \E w \in Workers : Exit(w)
    \/ \E p \in PushIds : Ask(p) \/ Turn(p) \/ Drop(p)

Spec == Init /\ [][Next]_vars

=============================================================================
