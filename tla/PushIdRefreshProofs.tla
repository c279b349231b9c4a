------------------------- MODULE PushIdRefreshProofs -------------------------
(***************************************************************************)
(* For any number of clients and of concurrent register, refresh, listen   *)
(* and revocation requests, with queries that fail and workers that exit:  *)
(* refreshes lose no increment, a client keeps a valid push id, and        *)
(* replaced and revoked ids are refused.                                   *)
(***************************************************************************)
EXTENDS PushIdRefresh, FiniteSetTheorems, TLAPS

-----------------------------------------------------------------------------
(* The inductive invariant.                                                *)

\* The refreshes of a client that are past incrementRefreshCount or over.
Settled(c) ==
    {q \in Refreshes : ClientOf[q] = c /\ pc[q] \in {"read", "done", "refused"}}

\* A failed refresh leaves it open whether it incremented, but no refresh
\* increments twice.
CountBounded == \A c \in Clients : count[c] <= Cardinality(Settled(c))

\* Only clients that registered send requests, and only requests increment.
OnlyRegistered ==
    /\ \A q \in Reqs : pc[q] # "idle" => issued[ClientOf[q]] # {}
    /\ \A c \in Clients : count[c] # 0 => issued[c] # {}

\* A listen request takes no step of incrementRefreshCount, a refresh request
\* does not look at the revoked push ids.
OwnSteps ==
    /\ \A q \in Listens : pc[q] \notin {"find", "create", "increment", "read"}
    /\ \A q \in Refreshes : pc[q] # "revoked"

\* The push id of the current count was given to the client, or is about to be.
ValidIdComing ==
    \A c \in Clients \ hurt :
        issued[c] # {} =>
            \/ count[c] \in issued[c]
            \/ \E q \in Refreshes : ClientOf[q] = c /\ pc[q] = "read"

\* The refresh count does not go down while a request is handled.
FloorBelow == \A q \in Reqs : pc[q] # "idle" => floor[q] <= count[ClientOf[q]]

\* A barred listen request has still the query ahead of it that finds out.
BarredWillMeet ==
    \A q \in Listens : q \in barred =>
        /\ pc[q] \in {"client", "pushid", "revoked", "refused"}
        /\ pc[q] = "client" => ClientOf[q] \in revClient \/ <<ClientOf[q], pid[q]>> \in revPush
        /\ pc[q] \in {"pushid", "revoked"} => <<ClientOf[q], pid[q]>> \in revPush

IndInv ==
    /\ TypeOK /\ CountBounded /\ OnlyRegistered /\ OwnSteps /\ NoIncrementLost
    /\ ValidIdComing /\ FloorBelow /\ SupersededIdRefused /\ BarredWillMeet

-----------------------------------------------------------------------------
(* Counting requests.                                                      *)

\* The sets that are counted are finite, as the refreshes are.
LEMMA CountedFinite ==
  ASSUME NEW c
  PROVE  /\ IsFiniteSet(Settled(c)) /\ Cardinality(Settled(c)) \in Nat
         /\ Cardinality(Settled(c)) <= Cardinality(Refreshes)
         /\ IsFiniteSet(Counted(c)) /\ Cardinality(Counted(c)) \in Nat
         /\ Cardinality(Refreshes) \in Nat
<1>1. Settled(c) \subseteq Refreshes /\ Counted(c) \subseteq Refreshes
  BY DEF Settled, Counted
<1>2. /\ IsFiniteSet(Settled(c)) /\ Cardinality(Settled(c)) <= Cardinality(Refreshes)
      /\ IsFiniteSet(Counted(c))
  BY <1>1, RefreshAssumption, FS_Subset
<1> QED
  BY <1>2, RefreshAssumption, FS_CardinalityType

\* The same of the next state.
LEMMA CountedFiniteNext ==
  ASSUME NEW c
  PROVE  /\ IsFiniteSet(Settled(c)') /\ Cardinality(Settled(c)') \in Nat
         /\ Cardinality(Settled(c)') <= Cardinality(Refreshes)
         /\ IsFiniteSet(Counted(c)') /\ Cardinality(Counted(c)') \in Nat
<1>1. Settled(c)' \subseteq Refreshes /\ Counted(c)' \subseteq Refreshes
  BY DEF Settled, Counted
<1>2. /\ IsFiniteSet(Settled(c)') /\ Cardinality(Settled(c)') <= Cardinality(Refreshes)
      /\ IsFiniteSet(Counted(c)')
  BY <1>1, RefreshAssumption, FS_Subset
<1> QED
  BY <1>2, FS_CardinalityType

\* A bounded count is a count in the sense of the types.
LEMMA CountTyped ==
  ASSUME count' \in [Clients -> Nat], CountBounded'
  PROVE  count' \in [Clients -> Counts]
<1>1. ASSUME NEW c \in Clients PROVE count'[c] \in Counts
  BY <1>1, CountedFinite, CountedFiniteNext DEF CountBounded, Counts
<1> QED
  BY <1>1

\* A step that leaves the counts alone, and takes no request into or out of
\* the refreshes that have incremented, except a failure.
LEMMA CountsKept ==
  ASSUME IndInv, UNCHANGED count, hurt \subseteq hurt',
         \A q \in Refreshes : pc[q] \in {"read", "done", "refused"} =>
                                  pc'[q] \in {"read", "done", "refused"},
         \A q \in Refreshes : ClientOf[q] \notin hurt' =>
                                  (pc[q] \in {"read", "done"} <=> pc'[q] \in {"read", "done"})
  PROVE  CountBounded' /\ NoIncrementLost'
<1>1. ASSUME NEW c \in Clients PROVE count'[c] <= Cardinality(Settled(c)')
  <2>1. Settled(c) \subseteq Settled(c)'
    BY DEF Settled
  <2>2. Cardinality(Settled(c)) <= Cardinality(Settled(c)')
    BY <2>1, CountedFiniteNext, FS_Subset
  <2>3. count[c] \in Nat /\ count[c] <= Cardinality(Settled(c))
    BY <1>1, CountedFinite DEF IndInv, TypeOK, Counts, CountBounded
  <2> QED
    BY <2>2, <2>3, CountedFinite, CountedFiniteNext
<1>2. ASSUME NEW c \in Clients, c \notin hurt' PROVE count'[c] = Cardinality(Counted(c)')
  <2>1. Counted(c)' = Counted(c)
    BY <1>2 DEF Counted
  <2> QED
    BY <1>2, <2>1 DEF IndInv, NoIncrementLost
<1> QED
  BY <1>1, <1>2 DEF CountBounded, NoIncrementLost

\* The step that increments (findOrCreate, client.increment).
LEMMA CountsUp ==
  ASSUME IndInv, NEW q \in Refreshes, pc[q] \in {"create", "increment"},
         count' = [count EXCEPT ![ClientOf[q]] = @ + 1],
         pc' = [pc EXCEPT ![q] = "read"], UNCHANGED hurt
  PROVE  CountBounded' /\ NoIncrementLost' /\ count' \in [Clients -> Nat]
<1> DEFINE d == ClientOf[q]
<1>0. /\ d \in Clients /\ q \in Reqs
      /\ count \in [Clients -> Nat]
      /\ \A r \in Reqs : pc'[r] = IF r = q THEN "read" ELSE pc[r]
  <2>1. d \in Clients /\ q \in Reqs
    BY RefreshAssumption DEF Reqs
  <2>2. count \in [Clients -> Nat]
    BY CountedFinite DEF IndInv, TypeOK, Counts
  <2>3. \A r \in Reqs : pc'[r] = IF r = q THEN "read" ELSE pc[r]
    BY <2>1 DEF IndInv, TypeOK
  <2> QED
    BY <2>1, <2>2, <2>3
<1>1. \A c \in Clients : count'[c] = IF c = d THEN count[c] + 1 ELSE count[c]
  BY <1>0
<1>2. ASSUME NEW c \in Clients PROVE count'[c] <= Cardinality(Settled(c)')
  <2>0. count[c] <= Cardinality(Settled(c)) /\ count[c] \in Nat
    BY <1>0 DEF IndInv, CountBounded
  <2>1. CASE c = d
    <3>1. q \notin Settled(c) /\ Settled(c)' = Settled(c) \cup {q}
      BY <1>0, <2>1 DEF Settled, Reqs
    <3>2. Cardinality(Settled(c)') = Cardinality(Settled(c)) + 1
      BY <3>1, CountedFinite, FS_AddElement
    <3> QED
      BY <1>1, <2>0, <2>1, <3>2, CountedFinite
  <2>2. CASE c # d
    <3>1. Settled(c)' = Settled(c)
      BY <1>0, <2>2 DEF Settled, Reqs
    <3> QED
      BY <1>1, <2>0, <2>2, <3>1
  <2> QED
    BY <2>1, <2>2
<1>3. ASSUME NEW c \in Clients, c \notin hurt PROVE count'[c] = Cardinality(Counted(c)')
  <2>0. count[c] = Cardinality(Counted(c))
    BY <1>3 DEF IndInv, NoIncrementLost
  <2>1. CASE c = d
    <3>1. q \notin Counted(c) /\ Counted(c)' = Counted(c) \cup {q}
      BY <1>0, <2>1 DEF Counted, Reqs
    <3>2. Cardinality(Counted(c)') = Cardinality(Counted(c)) + 1
      BY <3>1, CountedFinite, FS_AddElement
    <3> QED
      BY <1>1, <2>0, <2>1, <3>2
  <2>2. CASE c # d
    <3>1. Counted(c)' = Counted(c)
      BY <1>0, <2>2 DEF Counted, Reqs
    <3> QED
      BY <1>1, <2>0, <2>2, <3>1
  <2> QED
    BY <2>1, <2>2
<1>4. count' \in [Clients -> Nat]
  BY <1>0
<1> QED
  BY <1>2, <1>3, <1>4 DEF CountBounded, NoIncrementLost

-----------------------------------------------------------------------------
\* Initially no client is registered and every request is still to come.
LEMMA InitInv == Init => IndInv
<1> SUFFICES ASSUME Init PROVE IndInv
  OBVIOUS
<1>1. 0 \in Counts
  BY CountedFinite DEF Counts
<1>2. TypeOK
  BY <1>1 DEF Init, TypeOK
<1>3. \A c \in Clients : Counted(c) = {} /\ Settled(c) = {}
  BY DEF Init, Counted, Settled, Reqs
<1>4. CountBounded /\ NoIncrementLost
  BY <1>3, FS_EmptySet DEF Init, CountBounded, NoIncrementLost
<1> QED
  BY <1>2, <1>4 DEF Init, IndInv, OnlyRegistered, OwnSteps, ValidIdComing,
        FloorBelow, SupersededIdRefused, BarredWillMeet, Reqs

-----------------------------------------------------------------------------
\* A request that moves on to its next query, or is refused, without touching a
\* table (validateRevokedClientId, validatePushId, validateRevokedPushId,
\* findOrCreate's select).
LEMMA Advance ==
  ASSUME IndInv, NEW q \in Reqs,
         NEW l \in {"pushid", "revoked", "find", "create", "increment", "done", "refused"},
         pc[q] \notin {"idle", "read", "done", "refused"},
         Goto(q, l), UNCHANGED <<tables, issued, pid, hist>>,
         l \in {"done", "revoked"} => q \in Listens,
         l \in {"find", "create", "increment"} => q \in Refreshes,
         l \notin {"pushid", "refused"} => pid[q] >= floor[q],
         q \in Listens /\ q \in barred /\ l # "refused" =>
             l \in {"pushid", "revoked"} /\ <<ClientOf[q], pid[q]>> \in revPush
  PROVE  IndInv'
<1> USE DEF tables, hist, Goto
<1>1. /\ \A r \in Reqs : pc'[r] = IF r = q THEN l ELSE pc[r]
      /\ Refreshes \subseteq Reqs /\ Listens \subseteq Reqs
  BY DEF IndInv, TypeOK, Reqs
<1>2. TypeOK'
  BY DEF IndInv, TypeOK
<1>3. CountBounded' /\ NoIncrementLost'
  <2>1. \A r \in Refreshes : pc[r] \in {"read", "done", "refused"} =>
                                 pc'[r] \in {"read", "done", "refused"}
    BY <1>1
  <2>2. \A r \in Refreshes : pc[r] \in {"read", "done"} <=> pc'[r] \in {"read", "done"}
    BY <1>1, RefreshAssumption
  <2> QED
    BY <2>1, <2>2, CountsKept
<1>4. OnlyRegistered'
  BY <1>1 DEF IndInv, OnlyRegistered
<1>5. OwnSteps'
  BY <1>1, RefreshAssumption DEF IndInv, OwnSteps
<1>6. ValidIdComing'
  BY <1>1 DEF IndInv, ValidIdComing
<1>7. FloorBelow'
  BY <1>1 DEF IndInv, FloorBelow
<1>8. SupersededIdRefused'
  BY <1>1 DEF IndInv, SupersededIdRefused
<1>9. BarredWillMeet'
  BY <1>1 DEF IndInv, BarredWillMeet
<1> QED
  BY <1>2, <1>3, <1>4, <1>5, <1>6, <1>7, <1>8, <1>9 DEF IndInv

\* A refresh that increments the count (findOrCreate's insert, client.increment).
LEMMA Increments ==
  ASSUME IndInv, NEW q \in Refreshes, pc[q] \in {"create", "increment"},
         count' = [count EXCEPT ![ClientOf[q]] = @ + 1], Goto(q, "read"),
         UNCHANGED <<revClient, revPush, issued, pid, hist>>
  PROVE  IndInv'
<1> USE DEF hist, Goto
<1>0. q \in Reqs /\ Refreshes \subseteq Reqs /\ Listens \subseteq Reqs /\ q \notin Listens
      /\ ClientOf[q] \in Clients
  BY RefreshAssumption DEF Reqs
<1>1. \A r \in Reqs : pc'[r] = IF r = q THEN "read" ELSE pc[r]
  BY <1>0 DEF IndInv, TypeOK
<1>2. CountBounded' /\ NoIncrementLost' /\ count' \in [Clients -> Nat]
  BY CountsUp
<1>3. TypeOK'
  <2>1. count' \in [Clients -> Counts]
    BY <1>2, CountTyped
  <2> QED
    BY <1>0, <2>1 DEF IndInv, TypeOK
<1>4. \A c \in Clients : count[c] \in Nat /\ count'[c] \in Nat /\ count'[c] >= count[c]
  BY <1>0, CountedFinite DEF IndInv, TypeOK, Counts
<1>5. OnlyRegistered'
  <2>1. \A c \in Clients \ {ClientOf[q]} : count'[c] = count[c]
    BY DEF IndInv, TypeOK
  <2> QED
    BY <1>0, <1>1, <2>1 DEF IndInv, OnlyRegistered
<1>6. OwnSteps'
  BY <1>0, <1>1 DEF IndInv, OwnSteps
<1>7. ValidIdComing'
  <2>1. ASSUME NEW c \in Clients \ hurt, issued[c] # {}
        PROVE  \/ count'[c] \in issued[c]
               \/ \E r \in Refreshes : ClientOf[r] = c /\ pc'[r] = "read"
    <3>1. CASE c = ClientOf[q]
      BY <1>0, <1>1, <3>1
    <3>2. CASE c # ClientOf[q]
      <4>1. count'[c] = count[c]
        BY <2>1, <3>2 DEF IndInv, TypeOK
      <4> QED
        BY <1>0, <1>1, <2>1, <4>1 DEF IndInv, ValidIdComing
    <3> QED
      BY <3>1, <3>2
  <2> QED
    BY <2>1 DEF ValidIdComing
<1>8. FloorBelow'
  <2>1. ASSUME NEW r \in Reqs, pc'[r] # "idle" PROVE floor[r] <= count'[ClientOf[r]]
    <3>1. ClientOf[r] \in Clients
      BY RefreshAssumption
    <3>2. floor[r] \in Nat
      BY DEF IndInv, TypeOK, Counts
    <3>3. floor[r] <= count[ClientOf[r]]
      BY <1>1, <2>1 DEF IndInv, FloorBelow
    <3> QED
      BY <1>4, <3>1, <3>2, <3>3
  <2> QED
    BY <2>1 DEF FloorBelow
<1>9. SupersededIdRefused'
  BY <1>1 DEF IndInv, SupersededIdRefused
<1>10. BarredWillMeet'
  BY <1>0, <1>1 DEF IndInv, BarredWillMeet
<1> QED
  BY <1>2, <1>3, <1>5, <1>6, <1>7, <1>8, <1>9, <1>10 DEF IndInv

-----------------------------------------------------------------------------
\* Every query of every handler, and every failure, preserves the invariant.
LEMMA StepInv == IndInv /\ [Next]_vars => IndInv'
<1> SUFFICES ASSUME IndInv, [Next]_vars PROVE IndInv'
  OBVIOUS
<1> USE DEF tables, hist, Goto
<1>0. /\ Refreshes \subseteq Reqs /\ Listens \subseteq Reqs /\ Refreshes \cap Listens = {}
      /\ \A q \in Reqs : q \in Refreshes \/ q \in Listens
      /\ \A q \in Reqs : ClientOf[q] \in Clients
  BY RefreshAssumption DEF Reqs
<1>t. TypeOK
  BY DEF IndInv
<1>1. ASSUME NEW c \in Clients, Register(c) PROVE IndInv'
  <2>0. 0 \in Counts /\ count[c] = 0
    BY <1>1, CountedFinite DEF Counts, Register, IndInv, OnlyRegistered
  <2>1. TypeOK'
    BY <1>1, <1>t, <2>0 DEF Register, TypeOK
  <2>2. CountBounded' /\ NoIncrementLost'
    BY <1>1, CountsKept DEF Register
  <2>3. \A d \in Clients : issued'[d] = IF d = c THEN {0} ELSE issued[d]
    BY <1>1, <1>t DEF Register, TypeOK
  <2>4. OnlyRegistered'
    BY <1>0, <1>1, <2>3 DEF Register, IndInv, OnlyRegistered
  <2>5. ValidIdComing'
    BY <1>1, <2>0, <2>3 DEF Register, IndInv, ValidIdComing
  <2> QED
    BY <1>1, <2>1, <2>2, <2>4, <2>5
    DEF Register, IndInv, OwnSteps, FloorBelow, SupersededIdRefused, BarredWillMeet
<1>2. ASSUME NEW c \in Clients, RevokeClientId(c) PROVE IndInv'
  <2>1. TypeOK'
    BY <1>2, <1>t DEF RevokeClientId, SaveRevokedClientId, TypeOK
  <2>2. CountBounded' /\ NoIncrementLost'
    BY <1>2, CountsKept DEF RevokeClientId
  <2>3. BarredWillMeet'
    BY <1>2 DEF RevokeClientId, SaveRevokedClientId, IndInv, BarredWillMeet
  <2> QED
    BY <1>2, <2>1, <2>2, <2>3
    DEF RevokeClientId, IndInv, OnlyRegistered, OwnSteps, ValidIdComing, FloorBelow,
        SupersededIdRefused
<1>3. ASSUME NEW c \in Clients, NEW k \in Counts, RevokePushId(c, k) PROVE IndInv'
  <2>1. TypeOK'
    BY <1>3, <1>t DEF RevokePushId, SaveRevokedPushId, TypeOK
  <2>2. CountBounded' /\ NoIncrementLost'
    BY <1>3, CountsKept DEF RevokePushId
  <2>3. BarredWillMeet'
    BY <1>3 DEF RevokePushId, SaveRevokedPushId, IndInv, BarredWillMeet
  <2> QED
    BY <1>3, <2>1, <2>2, <2>3
    DEF RevokePushId, IndInv, OnlyRegistered, OwnSteps, ValidIdComing, FloorBelow,
        SupersededIdRefused
<1>4. ASSUME NEW q \in Reqs, NEW k \in Counts, Arrive(q, k) PROVE IndInv'
  <2>1. TypeOK'
    BY <1>0, <1>4, <1>t DEF Arrive, TypeOK
  <2>2. /\ \A r \in Reqs : pc'[r] = IF r = q THEN "client" ELSE pc[r]
        /\ \A r \in Reqs : pid'[r] = IF r = q THEN k ELSE pid[r]
        /\ \A r \in Reqs : floor'[r] = IF r = q THEN count[ClientOf[q]] ELSE floor[r]
        /\ pc[q] = "idle"
    BY <1>4, <1>t DEF Arrive, TypeOK
  <2>3. CountBounded' /\ NoIncrementLost'
    <3>1. hurt' = hurt /\ count' = count
      BY <1>4 DEF Arrive
    <3>2. \A r \in Refreshes : pc[r] \in {"read", "done", "refused"} =>
                                   pc'[r] \in {"read", "done", "refused"}
      BY <1>0, <2>2
    <3>3. \A r \in Refreshes : pc[r] \in {"read", "done"} <=> pc'[r] \in {"read", "done"}
      BY <1>0, <2>2
    <3> QED
      BY <3>1, <3>2, <3>3, CountsKept
  <2>4. OnlyRegistered'
    BY <1>4, <2>2 DEF Arrive, IndInv, OnlyRegistered
  <2>5. OwnSteps'
    BY <1>0, <2>2 DEF IndInv, OwnSteps
  <2>6. ValidIdComing'
    BY <1>0, <1>4, <2>2 DEF Arrive, IndInv, ValidIdComing
  <2>7. FloorBelow'
    <3>1. ASSUME NEW r \in Reqs, pc'[r] # "idle" PROVE floor'[r] <= count[ClientOf[r]]
      <4>1. CASE r = q
        <5>1. count[ClientOf[q]] \in Nat
          BY <1>0, <1>t, CountedFinite DEF TypeOK, Counts
        <5> QED
          BY <2>2, <4>1, <5>1
      <4>2. CASE r # q
        BY <2>2, <3>1, <4>2 DEF IndInv, FloorBelow
      <4> QED
        BY <4>1, <4>2
    <3> QED
      BY <1>4, <3>1 DEF Arrive, FloorBelow
  <2>8. SupersededIdRefused'
    BY <2>2 DEF IndInv, SupersededIdRefused
  <2>9. BarredWillMeet'
    <3>1. q \in Listens => q \notin barred
      BY <2>2 DEF IndInv, BarredWillMeet
    <3>2. ASSUME NEW r \in Listens, r \in barred'
          PROVE  /\ pc'[r] \in {"client", "pushid", "revoked", "refused"}
                 /\ pc'[r] = "client" => ClientOf[r] \in revClient \/ <<ClientOf[r], pid'[r]>> \in revPush
                 /\ pc'[r] \in {"pushid", "revoked"} => <<ClientOf[r], pid'[r]>> \in revPush
      <4>1. CASE r = q
        <5>1. ClientOf[q] \in revClient \/ <<ClientOf[q], k>> \in revPush
          BY <1>4, <3>1, <3>2, <4>1 DEF Arrive
        <5> QED
          BY <1>0, <2>2, <4>1, <5>1
      <4>2. CASE r # q
        <5>1. r \in barred /\ pc'[r] = pc[r] /\ pid'[r] = pid[r]
          BY <1>0, <1>4, <2>2, <3>2, <4>2 DEF Arrive
        <5> QED
          BY <5>1 DEF IndInv, BarredWillMeet
      <4> QED
        BY <4>1, <4>2
    <3>3. revClient' = revClient /\ revPush' = revPush
      BY <1>4 DEF Arrive
    <3> QED
      BY <3>2, <3>3 DEF BarredWillMeet
  <2> QED
    BY <2>1, <2>3, <2>4, <2>5, <2>6, <2>7, <2>8, <2>9 DEF IndInv
<1>5. ASSUME NEW q \in Reqs, ValidateRevokedClientId(q) PROVE IndInv'
  <2>1. CASE ClientOf[q] \in revClient
    BY <1>5, <2>1, Advance DEF ValidateRevokedClientId
  <2>2. CASE ClientOf[q] \notin revClient
    <3>1. q \in Listens /\ q \in barred => <<ClientOf[q], pid[q]>> \in revPush
      BY <1>5, <2>2 DEF ValidateRevokedClientId, IndInv, BarredWillMeet
    <3> QED
      BY <1>5, <2>2, <3>1, Advance DEF ValidateRevokedClientId
  <2> QED
    BY <2>1, <2>2
<1>6. ASSUME NEW q \in Reqs, ValidatePushId(q) PROVE IndInv'
  <2>1. CASE ~CurrentId(q)
    BY <1>6, <2>1, Advance DEF ValidatePushId
  <2>2. CASE CurrentId(q)
    <3>1. pid[q] >= floor[q]
      <4>1. floor[q] <= count[ClientOf[q]] /\ pid[q] = count[ClientOf[q]]
        BY <1>6, <2>2 DEF ValidatePushId, CurrentId, IndInv, FloorBelow
      <4>2. floor[q] \in Nat /\ pid[q] \in Nat
        BY <1>t DEF TypeOK, Counts
      <4> QED
        BY <4>1, <4>2
    <3>2. CASE q \in Listens
      <4>1. Goto(q, "revoked") /\ pc[q] = "pushid" /\ UNCHANGED <<tables, issued, pid, hist>>
        BY <1>0, <1>6, <2>2, <3>2 DEF ValidatePushId
      <4>2. q \in barred => <<ClientOf[q], pid[q]>> \in revPush
        BY <3>2, <4>1 DEF IndInv, BarredWillMeet
      <4> QED
        BY <3>1, <3>2, <4>1, <4>2, Advance
    <3>3. CASE q \in Refreshes
      <4>1. Goto(q, "find") /\ pc[q] = "pushid" /\ UNCHANGED <<tables, issued, pid, hist>>
        BY <1>0, <1>6, <2>2, <3>3 DEF ValidatePushId
      <4> QED
        BY <1>0, <3>1, <3>3, <4>1, Advance
    <3> QED
      BY <1>0, <3>2, <3>3
  <2> QED
    BY <2>1, <2>2
<1>7. ASSUME NEW q \in Reqs, ValidateRevokedPushId(q) PROVE IndInv'
  <2>1. CASE PushIdRevoked(q)
    BY <1>7, <2>1, Advance DEF ValidateRevokedPushId
  <2>2. CASE ~PushIdRevoked(q)
    <3>1. q \notin Listens \/ q \notin barred
      BY <1>7, <2>2 DEF ValidateRevokedPushId, PushIdRevoked, IndInv, BarredWillMeet
    <3>2. pid[q] >= floor[q] /\ q \in Listens
      BY <1>0, <1>7 DEF ValidateRevokedPushId, IndInv, SupersededIdRefused, OwnSteps
    <3> QED
      BY <1>7, <2>2, <3>1, <3>2, Advance DEF ValidateRevokedPushId
  <2> QED
    BY <2>1, <2>2
<1>8. ASSUME NEW q \in Refreshes, FindCount(q) PROVE IndInv'
  <2>1. q \notin Listens /\ q \in Reqs /\ pc[q] = "find" /\ pid[q] >= floor[q]
    BY <1>0, <1>8 DEF FindCount, IndInv, SupersededIdRefused
  <2>2. CASE count[ClientOf[q]] = 0
    BY <1>8, <2>1, <2>2, Advance DEF FindCount
  <2>3. CASE count[ClientOf[q]] # 0
    BY <1>8, <2>1, <2>3, Advance DEF FindCount
  <2> QED
    BY <2>2, <2>3
<1>9. ASSUME NEW q \in Refreshes, CreateCount(q) PROVE IndInv'
  <2>1. CASE count[ClientOf[q]] = 0
    <3>1. count' = [count EXCEPT ![ClientOf[q]] = @ + 1]
      <4>1. count' = [count EXCEPT ![ClientOf[q]] = 1] /\ 1 = count[ClientOf[q]] + 1
        BY <1>9, <2>1 DEF CreateCount
      <4> QED
        BY <4>1
    <3> QED
      BY <1>9, <2>1, <3>1, Increments DEF CreateCount
  <2>2. CASE count[ClientOf[q]] # 0
    BY <1>0, <1>9, <2>2, Advance DEF CreateCount
  <2> QED
    BY <2>1, <2>2
<1>10. ASSUME NEW q \in Refreshes, IncrementCount(q) PROVE IndInv'
  <2>1. count' = [count EXCEPT ![ClientOf[q]] = @ + 1]
    BY <1>10 DEF IncrementCount, Incremented
  <2> QED
    BY <1>10, <2>1, Increments DEF IncrementCount
<1>11. ASSUME NEW q \in Refreshes, GeneratePushId(q) PROVE IndInv'
  <2>1. /\ \A r \in Reqs : pc'[r] = IF r = q THEN "done" ELSE pc[r]
        /\ pc[q] = "read" /\ q \notin Listens /\ ClientOf[q] \in Clients
    BY <1>0, <1>11, <1>t DEF GeneratePushId, TypeOK
  <2>2. \A c \in Clients : issued'[c] = IF c = ClientOf[q] THEN issued[c] \cup {count[c]} ELSE issued[c]
    BY <1>11, <1>t DEF GeneratePushId, CountRead, TypeOK
  <2>3. UNCHANGED <<count, revClient, revPush, pid, floor, barred, hurt>>
    BY <1>11 DEF GeneratePushId
  <2>4. TypeOK'
    <3>1. count[ClientOf[q]] \in Counts
      BY <1>t, <2>1 DEF TypeOK
    <3> QED
      BY <1>0, <1>11, <1>t, <3>1 DEF GeneratePushId, CountRead, TypeOK
  <2>5. CountBounded' /\ NoIncrementLost'
    <3>1. \A r \in Refreshes : pc[r] \in {"read", "done", "refused"} =>
                                   pc'[r] \in {"read", "done", "refused"}
      BY <1>0, <2>1
    <3>2. \A r \in Refreshes : pc[r] \in {"read", "done"} <=> pc'[r] \in {"read", "done"}
      BY <1>0, <2>1
    <3> QED
      BY <2>3, <3>1, <3>2, CountsKept
  <2>6. OnlyRegistered'
    <3>1. \A c \in Clients : issued[c] # {} => issued'[c] # {}
      BY <2>2
    <3> QED
      BY <1>0, <2>1, <2>3, <3>1 DEF IndInv, OnlyRegistered
  <2>7. OwnSteps'
    BY <1>0, <2>1 DEF IndInv, OwnSteps
  <2>8. ValidIdComing'
    <3>1. ASSUME NEW c \in Clients \ hurt, issued'[c] # {}
          PROVE  \/ count[c] \in issued'[c]
                 \/ \E r \in Refreshes : ClientOf[r] = c /\ pc'[r] = "read"
      <4>1. CASE c = ClientOf[q]
        BY <2>2, <4>1
      <4>2. CASE c # ClientOf[q]
        <5>1. issued'[c] = issued[c]
          BY <2>2, <4>2
        <5> QED
          BY <1>0, <2>1, <3>1, <4>2, <5>1 DEF IndInv, ValidIdComing
      <4> QED
        BY <4>1, <4>2
    <3> QED
      BY <2>3, <3>1 DEF ValidIdComing
  <2>9. FloorBelow'
    BY <2>1, <2>3 DEF IndInv, FloorBelow
  <2>10. SupersededIdRefused'
    BY <2>1, <2>3 DEF IndInv, SupersededIdRefused
  <2>11. BarredWillMeet'
    BY <1>0, <2>1, <2>3 DEF IndInv, BarredWillMeet
  <2> QED
    BY <2>4, <2>5, <2>6, <2>7, <2>8, <2>9, <2>10, <2>11 DEF IndInv
<1>12. ASSUME NEW q \in Reqs, RequestFails(q) PROVE IndInv'
  <2>1. CASE pc[q] # "read"
    BY <1>12, <2>1, Advance DEF RequestFails
  <2>2. CASE pc[q] = "read"
    <3>1. /\ \A r \in Reqs : pc'[r] = IF r = q THEN "refused" ELSE pc[r]
          /\ q \notin Listens /\ ClientOf[q] \in Clients
      BY <1>0, <1>12, <1>t, <2>2 DEF RequestFails, TypeOK, IndInv, OwnSteps
    <3>2. hurt' = hurt \cup {ClientOf[q]} /\ UNCHANGED <<tables, issued, pid, floor, barred>>
      BY <1>12, <2>2 DEF RequestFails
    <3>3. TypeOK'
      BY <1>12, <1>t, <3>1, <3>2 DEF RequestFails, TypeOK
    <3>4. CountBounded' /\ NoIncrementLost'
      <4>1. \A r \in Refreshes : pc[r] \in {"read", "done", "refused"} =>
                                     pc'[r] \in {"read", "done", "refused"}
        BY <1>0, <3>1
      <4>2. \A r \in Refreshes : ClientOf[r] \notin hurt' =>
                                     (pc[r] \in {"read", "done"} <=> pc'[r] \in {"read", "done"})
        BY <1>0, <3>1, <3>2
      <4> QED
        BY <3>2, <4>1, <4>2, CountsKept
    <3>5. OnlyRegistered'
      BY <1>0, <2>2, <3>1, <3>2 DEF IndInv, OnlyRegistered
    <3>6. OwnSteps'
      BY <1>0, <3>1 DEF IndInv, OwnSteps
    <3>7. ValidIdComing'
      BY <1>0, <3>1, <3>2 DEF IndInv, ValidIdComing
    <3>8. FloorBelow'
      BY <2>2, <3>1, <3>2 DEF IndInv, FloorBelow
    <3>9. SupersededIdRefused'
      BY <2>2, <3>1, <3>2 DEF IndInv, SupersededIdRefused
    <3>10. BarredWillMeet'
      BY <1>0, <3>1, <3>2 DEF IndInv, BarredWillMeet
    <3> QED
      BY <3>3, <3>4, <3>5, <3>6, <3>7, <3>8, <3>9, <3>10 DEF IndInv
  <2> QED
    BY <2>1, <2>2
<1>13. CASE UNCHANGED vars
  <2>1. CountBounded' /\ NoIncrementLost'
    BY <1>13, CountsKept DEF vars
  <2> QED
    BY <1>13, <2>1 DEF vars, IndInv, TypeOK, OnlyRegistered, OwnSteps, ValidIdComing,
          FloorBelow, SupersededIdRefused, BarredWillMeet
<1> QED
  BY <1>1, <1>2, <1>3, <1>4, <1>5, <1>6, <1>7, <1>8, <1>9, <1>10, <1>11, <1>12, <1>13
  DEF Next, ValidateStep, RefreshStep

-----------------------------------------------------------------------------
\* The invariant holds throughout, the types and the bound on the counts included.
THEOREM Invariance == Spec => []IndInv
  BY InitInv, StepInv, PTL DEF Spec

\* The count of a client is the number of its refreshes that got through
\* incrementRefreshCount, however their queries interleave.
THEOREM IncrementsKept == Spec => []NoIncrementLost
<1>1. IndInv => NoIncrementLost
  BY DEF IndInv
<1> QED
  BY <1>1, Invariance, PTL

\* A client whose refreshes are over was given the push id that validatePushId
\* accepts, unless one failed after its increment.
THEOREM ValidIdHeld == Spec => []ClientHoldsValidId
<1>1. IndInv => ClientHoldsValidId
  BY DEF IndInv, ValidIdComing, ClientHoldsValidId
<1> QED
  BY <1>1, Invariance, PTL

\* validatePushId lets no request through whose push id was replaced before the
\* request arrived.
THEOREM ReplacedIdRefused == Spec => []SupersededIdRefused
<1>1. IndInv => SupersededIdRefused
  BY DEF IndInv
<1> QED
  BY <1>1, Invariance, PTL

\* No listen request is accepted whose client id or push id was revoked before
\* it arrived, though the two tables are read one after the other.
THEOREM RevocationHolds == Spec => []RevokedIsRefused
<1>1. IndInv => RevokedIsRefused
  BY DEF IndInv, BarredWillMeet, RevokedIsRefused
<1> QED
  BY <1>1, Invariance, PTL

=============================================================================
