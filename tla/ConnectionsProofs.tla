-------------------------- MODULE ConnectionsProofs --------------------------
(***************************************************************************)
(* Theorems about the connection counts, for any number of replicas and    *)
(* sessions and any intervals: types, that no increment is lost, and that  *)
(* a published open connection keeps the reaper away.                      *)
(***************************************************************************)
EXTENDS Connections, FiniteSetTheorems, TLAPS

-----------------------------------------------------------------------------
(* Where the goroutines are.                                               *)

\* A session publishes while it opens or closes; it lives with its replica, and
\* from its Open on the replica has the key; an entry that a publish has read
\* is still there.
Control ==
  /\ \A s \in Sessions : pub[s] # Nil <=> phase[s] \in {"opening", "closing"}
  /\ \A s \in Sessions : phase[s] # "idle" => home[s] \in alive
  /\ \A s \in Sessions : phase[s] \in {"opening", "counted"} => home[s] \in known
  /\ \A p \in Publishers : pub[p] # Nil /\ pub[p].base # Nil => entries[Slot(p)] # Nil

\* Every goroutine writes the entry of a replica.
LEMMA SlotIsReplica ==
  ASSUME TypeOK, NEW p \in Publishers
  PROVE  Slot(p) \in Replicas
BY DEF TypeOK, Publishers, Slot

\* A session is no replica.
LEMMA SessionSlot ==
  ASSUME NEW s \in Sessions
  PROVE  s \notin Replicas /\ Slot(s) = home[s] /\ s \in Publishers
BY ConnectionsAssumption DEF Slot, Publishers

\* A publish begins with a count.
LEMMA StartTyped ==
  ASSUME NEW n \in Nat
  PROVE  /\ [st |-> "get", n |-> n, base |-> Nil] \in Publishing
         /\ [st |-> "get", n |-> n, base |-> Nil] # Nil
<1>1. [st |-> "get", n |-> n, base |-> Nil] \in Publishing
  BY DEF Publishing
<1> QED
  BY <1>1, NilAssumption

\* The counter stays a natural number.
LEMMA CountTyped ==
  ASSUME NEW n \in Nat
  PROVE  Opened(n) \in Nat /\ Closed(n) \in Nat
BY DEF Opened, Closed

\* What a patch writes.
LEMMA PatchTyped ==
  ASSUME TypeOK, Control, NEW p \in Publishers, pub[p] # Nil
  PROVE  LET old == entries[Slot(p)]
             new == [count |-> IF pub[p].n # pub[p].base THEN pub[p].n ELSE old.count, age |-> 0]
         IN  new \in Entries /\ new # Nil /\ (pub[p].n = pub[p].base => old \in Entries)
<1> DEFINE old == entries[Slot(p)]
           c == IF pub[p].n # pub[p].base THEN pub[p].n ELSE old.count
<1>1. pub[p] \in Publishing
  BY DEF TypeOK
<1>2. pub[p].n \in Nat /\ pub[p].n # Nil
  BY <1>1, ConnectionsAssumption DEF Publishing
<1>3. pub[p].n = pub[p].base => old \in Entries
  BY <1>2, SlotIsReplica DEF Control, TypeOK
<1>4. c \in Nat
  BY <1>2, <1>3 DEF Entries
<1> HIDE DEF c
<1>5. [count |-> c, age |-> 0] \in Entries
  BY <1>4, ConnectionsAssumption DEF Entries
<1> QED
  BY <1>3, <1>5, NilAssumption DEF c

-----------------------------------------------------------------------------
(* Types.                                                                  *)

\* A call that fails is counted.
LEMMA FaultTyped ==
  ASSUME TypeOK, Fault \/ NoFault
  PROVE  faults' \in 0..MaxFaults /\ (faults' = 0 => faults = 0 /\ NoFault)
BY ConnectionsAssumption DEF TypeOK, Fault, NoFault

\* A publish that returns leaves the session counted, uncounted or idle.
LEMMA ReturnTyped ==
  ASSUME TypeOK, NEW p \in Publishers, NEW err \in BOOLEAN, Return(p, err)
  PROVE  /\ pub' \in [Publishers -> Publishing \cup {Nil}]
         /\ phase' \in [Sessions -> SessionPhases]
<1>1. pub' \in [Publishers -> Publishing \cup {Nil}]
  BY DEF Return, TypeOK
<1>2. phase' \in [Sessions -> SessionPhases]
  BY DEF Return, TypeOK, Publishers, SessionPhases
<1> QED
  BY <1>1, <1>2

\* Every step keeps the types.
LEMMA StepTyped ==
  ASSUME TypeOK, Control, [Next]_vars
  PROVE  TypeOK'
<1> USE ConnectionsAssumption
<1>1. CASE Tick
  <2>1. since' \in [Replicas -> 0..Heartbeat]
    <3>1. ASSUME NEW r \in Replicas
          PROVE  (IF r \in alive THEN since[r] + 1 ELSE 0) \in 0..Heartbeat
      <4>1. since[r] \in 0..Heartbeat /\ (r \in alive => since[r] < Heartbeat)
        BY <1>1 DEF Tick, TypeOK
      <4> QED
        BY <4>1
    <3> QED
      BY <1>1, <3>1 DEF Tick
  <2>2. entries' \in [Replicas -> Entries \cup {Nil}]
    <3>1. ASSUME NEW r \in Replicas, entries[r] # Nil
          PROVE  [entries[r] EXCEPT !.age = Smaller(entries[r].age + 1, 2 * Heartbeat)] \in Entries
      <4>1. entries[r] \in Entries /\ entries[r].age \in 0..2 * Heartbeat
        BY <3>1 DEF TypeOK, Entries
      <4>2. Smaller(entries[r].age + 1, 2 * Heartbeat) \in 0..2 * Heartbeat
        BY <4>1 DEF Smaller
      <4> QED
        BY <4>1, <4>2 DEF Entries
    <3> QED
      BY <1>1, <3>1 DEF Tick
  <2>3. last' \in 0..(IdleTimeout + MaxTouchDelay + 1) \cup {Nil}
    <3>1. last # Nil => last \in 0..(IdleTimeout + MaxTouchDelay + 1)
      BY DEF TypeOK
    <3>2. last # Nil => Smaller(last + 1, IdleTimeout + MaxTouchDelay + 1)
                          \in 0..(IdleTimeout + MaxTouchDelay + 1)
      BY <3>1 DEF Smaller
    <3> QED
      BY <1>1, <3>2 DEF Tick
  <2>4. stamp' \in [Sessions -> 0..MaxTouchDelay]
    <3>1. ASSUME NEW s \in Sessions
          PROVE  (IF Touching(s) THEN stamp[s] + 1 ELSE 0) \in 0..MaxTouchDelay
      <4>1. stamp[s] \in 0..MaxTouchDelay /\ (Touching(s) => stamp[s] < MaxTouchDelay)
        BY <1>1 DEF Tick, TypeOK
      <4> QED
        BY <4>1
    <3> QED
      BY <1>1, <3>1 DEF Tick
  <2> QED
    BY <1>1, <2>1, <2>2, <2>3, <2>4 DEF Tick, TypeOK
<1>2. ASSUME NEW r \in Replicas, HeartbeatAll(r)
      PROVE  TypeOK'
  <2>1. counts[r] \in Nat
    BY DEF TypeOK
  <2>2. pub' \in [Publishers -> Publishing \cup {Nil}]
    BY <1>2, <2>1, StartTyped DEF HeartbeatAll, StartPublish, TypeOK
  <2> QED
    BY <1>2, <2>2 DEF HeartbeatAll, TypeOK
<1>3. ASSUME NEW r \in Replicas, Die(r)
      PROVE  TypeOK'
  BY <1>3 DEF Die, TypeOK, SessionPhases
<1>4. ASSUME NEW p \in Publishers, PublishGet(p)
      PROVE  TypeOK'
  <2>1. faults' \in 0..MaxFaults
    BY <1>4, FaultTyped DEF PublishGet
  <2>2. pub[p] \in Publishing /\ Slot(p) \in Replicas
    BY <1>4, SlotIsReplica DEF PublishGet, TypeOK
  <2>3. /\ pub' \in [Publishers -> Publishing \cup {Nil}]
        /\ phase' \in [Sessions -> SessionPhases]
    <3>1. CASE Return(p, TRUE)
      BY <3>1, ReturnTyped
    <3>2. CASE ~Return(p, TRUE)
      <4> DEFINE b == IF entries[Slot(p)] = Nil THEN Nil ELSE entries[Slot(p)].count
      <4>1. b \in Nat \cup {Nil}
        BY <2>2 DEF TypeOK, Entries
      <4>2. /\ pub' = [pub EXCEPT ![p] = [pub[p] EXCEPT !.st = "patch", !.base = b]]
            /\ UNCHANGED phase
        BY <1>4, <3>2 DEF PublishGet
      <4> HIDE DEF b
      <4>3. [pub[p] EXCEPT !.st = "patch", !.base = b] \in Publishing
        BY <2>2, <4>1 DEF Publishing
      <4> QED
        BY <4>2, <4>3 DEF TypeOK
    <3> QED
      BY <3>1, <3>2
  <2> QED
    BY <1>4, <2>1, <2>3 DEF PublishGet, TypeOK
<1>5. ASSUME NEW p \in Publishers, PublishPatch(p)
      PROVE  TypeOK'
  <2>1. faults' \in 0..MaxFaults
    BY <1>5, FaultTyped DEF PublishPatch
  <2>2. pub[p] # Nil
    BY <1>5 DEF PublishPatch
  <2>3. entries' \in [Replicas -> Entries \cup {Nil}]
    BY <1>5, <2>2, PatchTyped DEF PublishPatch, TypeOK
  <2>4. /\ pub' \in [Publishers -> Publishing \cup {Nil}]
        /\ phase' \in [Sessions -> SessionPhases]
    BY <1>5, ReturnTyped DEF PublishPatch
  <2> QED
    BY <1>5, <2>1, <2>3, <2>4 DEF PublishPatch, TypeOK
<1>6. ASSUME NEW s \in Sessions, Request(s)
      PROVE  TypeOK'
  <2>1. home' \in [Sessions -> Replicas]
    BY <1>6 DEF Request, TypeOK
  <2> QED
    BY <1>6, <2>1 DEF Request, Go, TypeOK, SessionPhases
<1>7. ASSUME NEW s \in Sessions, TouchGet(s) \/ TouchPatch(s) \/ EndUncounted(s)
      PROVE  TypeOK'
  <2>1. faults' \in 0..MaxFaults
    BY <1>7, FaultTyped DEF TouchGet, TouchPatch, EndUncounted, TypeOK
  <2>2. phase' \in [Sessions -> SessionPhases]
    BY <1>7 DEF TouchGet, TouchPatch, EndUncounted, Go, TypeOK, SessionPhases
  <2>3. last' \in 0..(IdleTimeout + MaxTouchDelay + 1) \cup {Nil}
    <3>1. stamp[s] \in 0..(IdleTimeout + MaxTouchDelay + 1)
      BY DEF TypeOK
    <3> QED
      BY <1>7, <3>1 DEF TouchGet, TouchPatch, EndUncounted, TypeOK
  <2> QED
    BY <1>7, <2>1, <2>2, <2>3 DEF TouchGet, TouchPatch, EndUncounted, TypeOK
<1>8. ASSUME NEW s \in Sessions, Open(s) \/ Close(s)
      PROVE  TypeOK'
  <2>1. home[s] \in Replicas /\ counts[home[s]] \in Nat
    BY DEF TypeOK
  <2>2. counts' \in [Replicas -> Nat]
    BY <1>8, <2>1, CountTyped DEF Open, Close, TypeOK
  <2>3. counts'[home[s]] \in Nat
    BY <2>1, <2>2
  <2>4. pub' \in [Publishers -> Publishing \cup {Nil}]
    BY <1>8, <2>3, StartTyped DEF Open, Close, StartPublish, TypeOK
  <2>5. phase' \in [Sessions -> SessionPhases]
    BY <1>8 DEF Open, Close, Go, TypeOK, SessionPhases
  <2> QED
    BY <1>8, <2>1, <2>2, <2>4, <2>5 DEF Open, Close, TypeOK
<1>9. CASE UNCHANGED vars
  BY <1>9 DEF vars, TypeOK
<1> QED
  BY <1>1, <1>2, <1>3, <1>4, <1>5, <1>6, <1>7, <1>8, <1>9 DEF Next

\* A publish that returns ends the session's opening or closing, and no other's.
LEMMA ReturnControl ==
  ASSUME TypeOK, NEW p \in Publishers, NEW err \in BOOLEAN, Return(p, err)
  PROVE  /\ \A q \in Publishers : q # p => pub'[q] = pub[q]
         /\ pub'[p] = Nil
         /\ \A s \in Sessions : s # p => phase'[s] = phase[s]
         /\ p \in Sessions =>
              /\ phase[p] = "closing" => phase'[p] = "idle"
              /\ phase[p] # "closing" => phase'[p] = IF err THEN "uncounted" ELSE "counted"
<1>1. CASE p \in Replicas
  BY <1>1, ConnectionsAssumption DEF Return, TypeOK
<1>2. CASE p \notin Replicas
  BY <1>2 DEF Return, TypeOK, Publishers
<1> QED
  BY <1>1, <1>2

\* Every step keeps the goroutines in their places.
LEMMA StepControl ==
  ASSUME TypeOK, Control, [Next]_vars
  PROVE  Control'
<1>0. /\ \A s \in Sessions : s \notin Replicas /\ s \in Publishers /\ Slot(s) = home[s] /\ Slot(s)' = home'[s]
      /\ \A r \in Replicas : Slot(r) = r /\ Slot(r)' = r
  BY ConnectionsAssumption DEF Slot, Publishers
<1>1. CASE Tick
  <2>1. \A p \in Publishers : Slot(p) \in Replicas /\ Slot(p)' = Slot(p)
    BY <1>1, SlotIsReplica DEF Tick, Slot
  <2>2. \A p \in Publishers : pub'[p] = Nil
    BY <1>1 DEF Tick
  <2> QED
    BY <1>1, <2>1, <2>2 DEF Tick, Control
<1>2. ASSUME NEW r \in Replicas, HeartbeatAll(r)
      PROVE  Control'
  <2>1. \A p \in Publishers : p # r => pub'[p] = pub[p]
    BY <1>2 DEF HeartbeatAll, StartPublish, TypeOK
  <2>2. pub'[r] # Nil => pub'[r].base = Nil
    BY <1>2 DEF HeartbeatAll, StartPublish, TypeOK, Publishers
  <2>3. \A p \in Publishers : Slot(p)' = Slot(p)
    BY <1>2 DEF HeartbeatAll, Slot
  <2>4. \A s \in Sessions : pub'[s] = pub[s]
    BY <1>0, <2>1
  <2> QED
    BY <1>2, <2>1, <2>2, <2>3, <2>4 DEF HeartbeatAll, Control
<1>3. ASSUME NEW r \in Replicas, Die(r)
      PROVE  Control'
  <2>1. \A p \in Publishers : Slot(p)' = Slot(p) /\ pub'[p] = IF Slot(p) = r THEN Nil ELSE pub[p]
    BY <1>3 DEF Die, Slot
  <2>2. \A s \in Sessions : /\ pub'[s] = IF home[s] = r THEN Nil ELSE pub[s]
                            /\ phase'[s] = IF home[s] = r THEN "idle" ELSE phase[s]
    BY <1>0, <1>3, <2>1 DEF Die
  <2> QED
    BY <1>3, <2>1, <2>2 DEF Die, Control
<1>4. ASSUME NEW p \in Publishers, PublishGet(p)
      PROVE  Control'
  <2>1. pub[p] # Nil /\ pub[p] \in Publishing /\ Slot(p) \in Replicas
    BY <1>4, SlotIsReplica DEF PublishGet, TypeOK
  <2>2. \A q \in Publishers : Slot(q)' = Slot(q)
    BY <1>4 DEF PublishGet, Slot
  <2>3. CASE Return(p, TRUE)
    <3>1. /\ \A q \in Publishers : q # p => pub'[q] = pub[q]
          /\ pub'[p] = Nil
          /\ \A s \in Sessions : s # p => phase'[s] = phase[s]
          /\ p \in Sessions => phase'[p] \in {"idle", "uncounted"}
      BY <2>3, ReturnControl
    <3>2. UNCHANGED <<entries, alive, known, home>>
      BY <1>4 DEF PublishGet
    <3>3. p \in Sessions => phase[p] # "idle"
      BY <2>1 DEF Control
    <3> QED
      BY <1>0, <2>1, <2>2, <3>1, <3>2, <3>3 DEF Control
  <2>4. CASE ~Return(p, TRUE)
    <3> DEFINE b == IF entries[Slot(p)] = Nil THEN Nil ELSE entries[Slot(p)].count
    <3>1. /\ pub' = [pub EXCEPT ![p] = [pub[p] EXCEPT !.st = "patch", !.base = b]]
          /\ UNCHANGED phase
      BY <1>4, <2>4 DEF PublishGet
    <3>2. b \in Nat \cup {Nil} /\ (b # Nil => entries[Slot(p)] # Nil)
      BY <2>1 DEF TypeOK, Entries
    <3> HIDE DEF b
    <3>3. [pub[p] EXCEPT !.st = "patch", !.base = b] \in Publishing
      BY <2>1, <3>2 DEF Publishing
    <3>4. pub'[p] # Nil /\ pub'[p].base = b /\ \A q \in Publishers : q # p => pub'[q] = pub[q]
      BY <2>1, <3>1, <3>3, NilAssumption DEF TypeOK, Publishing
    <3>5. UNCHANGED <<entries, alive, known, home>>
      BY <1>4 DEF PublishGet
    <3>6. \A s \in Sessions : pub'[s] # Nil <=> pub[s] # Nil
      BY <1>0, <2>1, <3>4
    <3> QED
      BY <2>1, <2>2, <3>1, <3>2, <3>4, <3>5, <3>6 DEF Control
  <2> QED
    BY <2>3, <2>4
<1>5. ASSUME NEW p \in Publishers, PublishPatch(p)
      PROVE  Control'
  <2>1. pub[p] # Nil /\ Slot(p) \in Replicas
    BY <1>5, SlotIsReplica DEF PublishPatch
  <2>2. \A q \in Publishers : Slot(q)' = Slot(q) /\ Slot(q) \in Replicas
    BY <1>5, SlotIsReplica DEF PublishPatch, Slot
  <2>3. \A r \in Replicas : entries[r] # Nil => entries'[r] # Nil
    BY <1>5, <2>1, PatchTyped DEF PublishPatch, TypeOK
  <2>4. PICK err \in BOOLEAN : Return(p, err)
    BY <1>5 DEF PublishPatch
  <2> QED
    BY <1>0, <1>5, <2>1, <2>2, <2>3, <2>4, ReturnControl DEF PublishPatch, Control
<1>6. ASSUME NEW s \in Sessions, Request(s)
      PROVE  Control'
  <2>1. pub[s] = Nil /\ pub' = pub
    BY <1>6 DEF Request, Control
  <2>2. /\ phase'[s] = "touch" /\ home'[s] \in alive
        /\ \A t \in Sessions : t # s => phase'[t] = phase[t] /\ home'[t] = home[t]
    BY <1>6 DEF Request, Go, TypeOK
  <2>3. \A p \in Publishers : p # s => Slot(p)' = Slot(p)
    BY <2>2, <1>0 DEF Publishers
  <2> QED
    BY <1>6, <2>1, <2>2, <2>3 DEF Request, Control
<1>7. ASSUME NEW s \in Sessions, TouchGet(s) \/ TouchPatch(s) \/ EndUncounted(s)
      PROVE  Control'
  <2>1. /\ phase[s] \in {"touch", "touching", "uncounted"}
        /\ phase'[s] \in {"touching", "open", "idle"}
        /\ \A t \in Sessions : t # s => phase'[t] = phase[t]
    BY <1>7 DEF TouchGet, TouchPatch, EndUncounted, Go, TypeOK
  <2>2. UNCHANGED <<entries, alive, known, home, pub>>
    BY <1>7 DEF TouchGet, TouchPatch, EndUncounted
  <2>3. \A p \in Publishers : Slot(p)' = Slot(p)
    BY <2>2 DEF Slot
  <2> QED
    BY <2>1, <2>2, <2>3 DEF Control
<1>8. ASSUME NEW s \in Sessions, Open(s) \/ Close(s)
      PROVE  Control'
  <2>1. home[s] \in Replicas /\ counts[home[s]] \in Nat /\ s \in Publishers
    BY <1>0 DEF TypeOK
  <2>2. counts'[home[s]] \in Nat
    BY <1>8, <2>1, CountTyped DEF Open, Close, TypeOK
  <2>3. /\ pub'[s] # Nil /\ pub'[s].base = Nil
        /\ \A q \in Publishers : q # s => pub'[q] = pub[q]
    BY <1>8, <2>1, <2>2, StartTyped DEF Open, Close, StartPublish, TypeOK
  <2>4. /\ phase[s] \in {"open", "counted"} /\ phase'[s] \in {"opening", "closing"}
        /\ \A t \in Sessions : t # s => phase'[t] = phase[t]
    BY <1>8 DEF Open, Close, Go, TypeOK
  <2>5. UNCHANGED <<entries, alive, home>> /\ known \subseteq known'
    BY <1>8 DEF Open, Close
  <2>6. phase'[s] = "opening" => home[s] \in known'
    BY <1>8 DEF Open, Close, Go, TypeOK
  <2>7. \A p \in Publishers : Slot(p)' = Slot(p)
    BY <2>5 DEF Slot
  <2> QED
    BY <1>0, <2>3, <2>4, <2>5, <2>6, <2>7 DEF Control
<1>9. CASE UNCHANGED vars
  BY <1>9 DEF vars, Control, Slot
<1> QED
  BY <1>1, <1>2, <1>3, <1>4, <1>5, <1>6, <1>7, <1>8, <1>9 DEF Next

-----------------------------------------------------------------------------
(* The counter.                                                            *)

\* The sessions that a replica's counter has to cover: those between the two
\* critical sections, published or not.
Serving(r) == {s \in Sessions : home[s] = r /\ phase[s] \in {"opening", "counted"}}

CountOK == \A r \in alive : counts[r] >= Cardinality(Serving(r))

\* Sets of sessions are finite.
LEMMA ServingFinite ==
  \A r : IsFiniteSet(Serving(r)) /\ Cardinality(Serving(r)) \in Nat
<1>1. \A r : Serving(r) \in SUBSET Sessions
  BY DEF Serving
<1> QED
  BY <1>1, ConnectionsAssumption, FS_Subset, FS_CardinalityType

\* A replica that serves no more and counts as much as before still counts
\* enough.
LEMMA FewerServed ==
  ASSUME NEW r, counts[r] >= Cardinality(Serving(r)), counts[r] \in Nat,
         counts'[r] = counts[r], Serving(r)' \subseteq Serving(r)
  PROVE  counts'[r] >= Cardinality(Serving(r)')
<1> DEFINE A == Serving(r)
           B == Serving(r)'
<1>1. IsFiniteSet(A) /\ Cardinality(A) \in Nat /\ B \in SUBSET A
  BY ServingFinite
<1>2. counts[r] >= Cardinality(A)
  OBVIOUS
<1> HIDE DEF A, B
<1>3. IsFiniteSet(B) /\ Cardinality(B) \in Nat /\ Cardinality(B) <= Cardinality(A)
  BY <1>1, FS_Subset, FS_CardinalityType
<1>4. counts'[r] >= Cardinality(B)
  BY <1>1, <1>2, <1>3
<1> QED
  BY <1>4 DEF B

\* Every step keeps the counters high enough.
LEMMA StepCount ==
  ASSUME TypeOK, Control, CountOK, [Next]_vars
  PROVE  CountOK'
<1> SUFFICES ASSUME NEW r \in alive'
             PROVE  counts'[r] >= Cardinality(Serving(r)')
  BY DEF CountOK
<1>0. r \in alive /\ r \in Replicas /\ counts[r] \in Nat /\ counts[r] >= Cardinality(Serving(r))
  <2>1. alive' \subseteq alive
    BY DEF Next, Tick, HeartbeatAll, Die, PublishGet, PublishPatch, Request, TouchGet,
       TouchPatch, Open, Close, EndUncounted, vars
  <2> QED
    BY <2>1 DEF TypeOK, CountOK
<1>1. ASSUME NEW s \in Sessions, Open(s)
      PROVE  counts'[r] >= Cardinality(Serving(r)')
  <2>1. CASE home[s] = r
    <3>1. Serving(r)' = Serving(r) \cup {s}
      BY <1>1, <2>1 DEF Serving, Open, Go, TypeOK
    <3>2. s \notin Serving(r)
      BY <1>1 DEF Serving, Open
    <3>3. Cardinality(Serving(r) \cup {s}) = Cardinality(Serving(r)) + 1
      BY <3>2, ServingFinite, FS_AddElement
    <3>4. counts'[r] = counts[r] + 1
      BY <1>0, <1>1, <2>1 DEF Open, Opened, TypeOK
    <3> QED
      BY <1>0, <3>1, <3>3, <3>4, ServingFinite
  <2>2. CASE home[s] # r
    <3>1. Serving(r)' \subseteq Serving(r)
      BY <1>1, <2>2 DEF Serving, Open, Go, TypeOK
    <3>2. counts'[r] = counts[r]
      BY <1>0, <1>1, <2>2 DEF Open, TypeOK
    <3> QED
      BY <1>0, <3>1, <3>2, FewerServed
  <2> QED
    BY <2>1, <2>2
<1>2. ASSUME NEW s \in Sessions, Close(s)
      PROVE  counts'[r] >= Cardinality(Serving(r)')
  <2>1. CASE home[s] = r
    <3>1. Serving(r)' = Serving(r) \ {s}
      BY <1>2, <2>1 DEF Serving, Close, Go, TypeOK
    <3>2. s \in Serving(r)
      BY <1>2, <2>1 DEF Serving, Close
    <3>3. Cardinality(Serving(r) \ {s}) = Cardinality(Serving(r)) - 1
      BY <3>2, ServingFinite, FS_RemoveElement
    <3>4. Cardinality(Serving(r)) # 0
      BY <3>2, ServingFinite, FS_EmptySet
    <3>5. counts'[r] = counts[r] - 1
      BY <1>0, <1>2, <2>1, <3>4, ServingFinite DEF Close, Closed, TypeOK
    <3> QED
      BY <1>0, <3>1, <3>3, <3>5, ServingFinite
  <2>2. CASE home[s] # r
    <3>1. Serving(r)' \subseteq Serving(r)
      BY <1>2, <2>2 DEF Serving, Close, Go, TypeOK
    <3>2. counts'[r] = counts[r]
      BY <1>0, <1>2, <2>2 DEF Close, TypeOK
    <3> QED
      BY <1>0, <3>1, <3>2, FewerServed
  <2> QED
    BY <2>1, <2>2
<1>3. ASSUME NEW p \in Publishers, PublishGet(p) \/ PublishPatch(p)
      PROVE  counts'[r] >= Cardinality(Serving(r)')
  <2>1. UNCHANGED <<counts, home>>
    BY <1>3 DEF PublishGet, PublishPatch
  <2>2. pub[p] # Nil /\ (phase' = phase \/ \E err \in BOOLEAN : Return(p, err))
    BY <1>3 DEF PublishGet, PublishPatch
  <2>3. p \in Sessions => phase[p] \in {"opening", "closing"}
    BY <2>2 DEF Control
  <2>4. Serving(r)' \subseteq Serving(r)
    BY <2>1, <2>2, <2>3, ReturnControl DEF Serving
  <2> QED
    BY <1>0, <2>1, <2>4, FewerServed
<1>4. ASSUME NEW d \in Replicas, Die(d)
      PROVE  counts'[r] >= Cardinality(Serving(r)')
  <2>1. r # d /\ counts'[r] = counts[r]
    BY <1>0, <1>4 DEF Die, TypeOK
  <2>2. Serving(r)' \subseteq Serving(r)
    BY <1>4 DEF Serving, Die
  <2> QED
    BY <1>0, <2>1, <2>2, FewerServed
<1>5. CASE \/ Tick \/ (\E d \in Replicas : HeartbeatAll(d)) \/ UNCHANGED vars
           \/ \E s \in Sessions : Request(s) \/ TouchGet(s) \/ TouchPatch(s) \/ EndUncounted(s)
  <2>1. counts' = counts
    BY <1>5 DEF Tick, HeartbeatAll, Request, TouchGet, TouchPatch, EndUncounted, vars
  <2>2. Serving(r)' \subseteq Serving(r)
    BY <1>5 DEF Tick, HeartbeatAll, Request, TouchGet, TouchPatch, EndUncounted, Go, vars,
       Serving, TypeOK
  <2> QED
    BY <1>0, <2>1, <2>2, FewerServed
<1> QED
  BY <1>1, <1>2, <1>3, <1>4, <1>5 DEF Next

\* A replica that serves a session counts at least one.
LEMMA ServedIsCounted ==
  ASSUME TypeOK, Control, CountOK, NEW s \in Sessions, phase[s] \in {"opening", "counted"}
  PROVE  counts[home[s]] \in Nat /\ counts[home[s]] >= 1
<1>1. home[s] \in alive /\ counts[home[s]] \in Nat
  BY DEF Control, TypeOK
<1>2. s \in Serving(home[s])
  BY DEF Serving
<1>3. Cardinality(Serving(home[s])) # 0
  BY <1>2, ServingFinite, FS_EmptySet
<1>4. counts[home[s]] >= Cardinality(Serving(home[s]))
  BY <1>1 DEF CountOK
<1> QED
  BY <1>1, <1>3, <1>4, ServingFinite

-----------------------------------------------------------------------------
(* The reaper's view of an open connection, when no call fails.            *)

\* lastActivity is set, and at most n ticks old.
Within(n) == last # Nil /\ last <= n

\* A request leaves touchActivity with a recent lastActivity: its own time, or
\* the time another request wrote over it, and that one was no older than
\* MaxTouchDelay.  So it is when the connection opens, and until it is published.
TouchOK ==
  faults = 0 => \A s \in Sessions :
    /\ phase[s] = "open" => Within(MaxTouchDelay + stamp[s])
    /\ phase[s] = "opening" => Within(2 * MaxTouchDelay)

\* The publishes under way to a replica's entry.
At(r) == {p \in Publishers : pub[p] # Nil /\ Slot(p) = r}

\* None of them brings a zero ...
Positive(r) == \A p \in At(r) : pub[p].n >= 1

\* ... or leaves one that came after it had read the entry.
BaseHolds(r) ==
  \A p \in At(r) : pub[p].st = "patch" /\ pub[p].base = pub[p].n => entries[r].count >= 1

\* The entry of a replica with a published connection: a publish of zero that
\* began before the connection's Open may still pass it, but only in that tick,
\* when lastActivity is recent; and the next heartbeat writes over it in time.
Held(r) ==
  \/ Within(2 * MaxTouchDelay)
  \/ /\ Positive(r) /\ BaseHolds(r)
     /\ \/ entries[r].count >= 1
        \/ Within(2 * MaxTouchDelay + since[r])
        \/ pub[r] # Nil /\ Within(2 * MaxTouchDelay + Heartbeat)

\* Such an entry was written in this heartbeat interval or the one before.
FreshEntry(r) ==
  /\ entries[r] # Nil
  /\ entries[r].age <= Heartbeat
  /\ pub[r] = Nil => entries[r].age <= since[r]

HeldOK ==
  faults = 0 => \A s \in Sessions : phase[s] = "counted" => FreshEntry(home[s]) /\ Held(home[s])

\* No fault so far means none in this step.
LEMMA NoFaultYet ==
  ASSUME TypeOK, [Next]_vars, faults' = 0
  PROVE  faults = 0 /\ ~Fault
<1>1. faults' = faults \/ faults' = faults + 1
  BY DEF Fault, NoFault, Next, Tick, HeartbeatAll, Die, PublishGet,
     PublishPatch, Request, TouchGet, TouchPatch, Open, Close, EndUncounted, vars
<1>2. faults \in Nat
  BY ConnectionsAssumption DEF TypeOK
<1> QED
  BY <1>1, <1>2 DEF Fault

\* A tick makes lastActivity one older, at most.
LEMMA TickAges ==
  ASSUME TypeOK, Tick, NEW n \in Nat, Within(n)
  PROVE  Within(n + 1)'
<1>1. last \in Nat /\ last <= n
  BY ConnectionsAssumption DEF Within, TypeOK
<1>2. last' = Smaller(last + 1, IdleTimeout + MaxTouchDelay + 1)
  BY DEF Tick, Within
<1>3. last' \in Nat /\ last' <= n + 1
  BY <1>1, <1>2, ConnectionsAssumption DEF Smaller
<1> QED
  BY <1>3, ConnectionsAssumption DEF Within

\* Every step keeps lastActivity recent for those about to be published.
LEMMA StepTouch ==
  ASSUME TypeOK, TypeOK', Control, TouchOK, [Next]_vars
  PROVE  TouchOK'
<1> SUFFICES ASSUME faults' = 0, NEW s \in Sessions
             PROVE  /\ phase'[s] = "open" => Within(MaxTouchDelay + stamp[s])'
                    /\ phase'[s] = "opening" => Within(2 * MaxTouchDelay)'
  BY DEF TouchOK
<1>0. /\ faults = 0 /\ ~Fault
      /\ phase[s] = "open" => Within(MaxTouchDelay + stamp[s])
      /\ phase[s] = "opening" => Within(2 * MaxTouchDelay)
      /\ stamp[s] \in 0..MaxTouchDelay
  BY NoFaultYet DEF TouchOK, TypeOK
<1>1. CASE Tick
  <2>1. phase' = phase /\ phase[s] # "opening"
    <3>1. s \in Publishers
      BY DEF Publishers
    <3> QED
      BY <1>1, <3>1 DEF Tick, Control
  <2>2. ASSUME phase[s] = "open"
        PROVE  Within(MaxTouchDelay + stamp[s])'
    <3>1. stamp'[s] = stamp[s] + 1
      BY <1>1, <2>2 DEF Tick, Touching
    <3> DEFINE n == MaxTouchDelay + stamp[s]
    <3>2. n \in Nat /\ Within(n)
      BY <1>0, <2>2, ConnectionsAssumption
    <3>3. last' # Nil /\ last' <= n + 1
      <4> HIDE DEF n
      <4> QED
        BY <1>1, <3>2, TickAges DEF Within
    <3>4. MaxTouchDelay + stamp'[s] = n + 1
      BY <1>0, <3>1, ConnectionsAssumption
    <3> HIDE DEF n
    <3> QED
      BY <3>3, <3>4 DEF Within
  <2> QED
    BY <2>1, <2>2
<1>2. ASSUME NEW t \in Sessions, TouchPatch(t)
      PROVE  /\ phase'[s] = "open" => Within(MaxTouchDelay + stamp[s])'
             /\ phase'[s] = "opening" => Within(2 * MaxTouchDelay)'
  <2>1. last' = stamp[t] /\ stamp' = stamp /\ stamp[t] \in 0..MaxTouchDelay
    BY <1>0, <1>2 DEF TouchPatch, TypeOK
  <2> QED
    BY <1>0, <2>1, ConnectionsAssumption DEF Within
<1>3. ASSUME NEW t \in Sessions, TouchGet(t)
      PROVE  /\ phase'[s] = "open" => Within(MaxTouchDelay + stamp[s])'
             /\ phase'[s] = "opening" => Within(2 * MaxTouchDelay)'
  <2>1. last' = last /\ stamp' = stamp
    BY <1>3 DEF TouchGet
  <2>2. CASE s = t
    <3>1. phase'[s] = "open" => last # Nil /\ ~(last > stamp[s])
      BY <1>0, <1>3, <2>2 DEF TouchGet, Go, TypeOK
    <3>2. phase'[s] # "opening"
      BY <1>0, <1>3, <2>2 DEF TouchGet, Go, TypeOK
    <3>3. last # Nil => last \in Nat
      BY ConnectionsAssumption DEF TypeOK
    <3> QED
      BY <1>0, <2>1, <3>1, <3>2, <3>3, ConnectionsAssumption DEF Within
  <2>3. CASE s # t
    <3>1. phase'[s] = phase[s]
      BY <1>3, <2>3 DEF TouchGet, Go, TypeOK
    <3> QED
      BY <1>0, <2>1, <3>1 DEF Within
  <2> QED
    BY <2>2, <2>3
<1>4. ASSUME NEW t \in Sessions, Open(t)
      PROVE  /\ phase'[s] = "open" => Within(MaxTouchDelay + stamp[s])'
             /\ phase'[s] = "opening" => Within(2 * MaxTouchDelay)'
  <2>1. last' = last /\ stamp' = stamp
    BY <1>4 DEF Open
  <2>2. CASE s = t
    <3>1. phase[s] = "open" /\ phase'[s] = "opening"
      BY <1>4, <2>2 DEF Open, Go, TypeOK
    <3>2. last \in Nat
      BY <1>0, <3>1, ConnectionsAssumption DEF Within, TypeOK
    <3> QED
      BY <1>0, <2>1, <3>1, <3>2, ConnectionsAssumption DEF Within
  <2>3. CASE s # t
    <3>1. phase'[s] = phase[s]
      BY <1>4, <2>3 DEF Open, Go, TypeOK
    <3> QED
      BY <1>0, <2>1, <3>1 DEF Within
  <2> QED
    BY <2>2, <2>3
<1>5. ASSUME NEW t \in Sessions, Request(t) \/ Close(t) \/ EndUncounted(t)
      PROVE  /\ phase'[s] = "open" => Within(MaxTouchDelay + stamp[s])'
             /\ phase'[s] = "opening" => Within(2 * MaxTouchDelay)'
  <2>1. last' = last /\ (s # t => stamp'[s] = stamp[s] /\ phase'[s] = phase[s])
    BY <1>5 DEF Request, Close, EndUncounted, Go, TypeOK
  <2>2. s = t => phase'[s] \notin {"open", "opening"}
    BY <1>5 DEF Request, Close, EndUncounted, Go, TypeOK
  <2> QED
    BY <1>0, <2>1, <2>2 DEF Within
<1>6. ASSUME NEW p \in Publishers, PublishGet(p) \/ PublishPatch(p)
      PROVE  /\ phase'[s] = "open" => Within(MaxTouchDelay + stamp[s])'
             /\ phase'[s] = "opening" => Within(2 * MaxTouchDelay)'
  <2>1. last' = last /\ stamp' = stamp
    BY <1>6 DEF PublishGet, PublishPatch
  <2>2. phase' = phase \/ \E err \in BOOLEAN : Return(p, err)
    BY <1>6 DEF PublishGet, PublishPatch
  <2>3. phase'[s] \in {"open", "opening"} => phase'[s] = phase[s]
    BY <2>2, ReturnControl
  <2> QED
    BY <1>0, <2>1, <2>3 DEF Within
<1>7. CASE (\E r \in Replicas : HeartbeatAll(r) \/ Die(r)) \/ UNCHANGED vars
  <2>1. last' = last /\ stamp' = stamp /\ phase'[s] \in {phase[s], "idle"}
    BY <1>7 DEF HeartbeatAll, Die, vars
  <2> QED
    BY <1>0, <2>1 DEF Within
<1> QED
  BY <1>1, <1>2, <1>3, <1>4, <1>5, <1>6, <1>7 DEF Next

\* A published connection was one before, or its first publish has just gone
\* through.
LEMMA CountedBefore ==
  ASSUME TypeOK, TypeOK', Control, [Next]_vars, faults' = 0,
         NEW s \in Sessions, phase'[s] = "counted"
  PROVE  /\ home'[s] = home[s]
         /\ \/ phase[s] = "counted"
            \/ phase[s] = "opening" /\ PublishPatch(s)
<1>0. ~Fault /\ s \in Publishers
  BY NoFaultYet DEF Publishers
<1>1. ASSUME NEW p \in Publishers, PublishGet(p)
      PROVE  phase' = phase /\ home' = home
  BY <1>0, <1>1 DEF PublishGet
<1>2. ASSUME NEW p \in Publishers, PublishPatch(p)
      PROVE  /\ home'[s] = home[s]
             /\ phase[s] = "counted" \/ (phase[s] = "opening" /\ PublishPatch(s))
  <2>1. PICK err \in BOOLEAN : Return(p, err)
    BY <1>2 DEF PublishPatch
  <2>2. home' = home /\ pub[p] # Nil
    BY <1>2 DEF PublishPatch
  <2>3. CASE p = s
    BY <1>2, <2>1, <2>2, <2>3, ReturnControl DEF Control
  <2>4. CASE p # s
    BY <2>1, <2>2, <2>4, ReturnControl
  <2> QED
    BY <2>3, <2>4
<1>3. ASSUME NEW t \in Sessions,
             \/ Request(t) \/ TouchGet(t) \/ TouchPatch(t)
             \/ Open(t) \/ Close(t) \/ EndUncounted(t)
      PROVE  phase'[s] = phase[s] /\ home'[s] = home[s]
  <2>1. s # t
    BY <1>3 DEF Request, TouchGet, TouchPatch, Open, Close, EndUncounted, Go, TypeOK
  <2> QED
    BY <1>3, <2>1 DEF Request, TouchGet, TouchPatch, Open, Close, EndUncounted, Go, TypeOK
<1>4. CASE Tick \/ (\E r \in Replicas : HeartbeatAll(r) \/ Die(r)) \/ UNCHANGED vars
  BY <1>4 DEF Tick, HeartbeatAll, Die, vars
<1> QED
  BY <1>1, <1>2, <1>3, <1>4 DEF Next

\* The first publish of a session leaves a new entry.
LEMMA FirstPublish ==
  ASSUME TypeOK, TypeOK', Control, TouchOK, faults' = 0, [Next]_vars,
         NEW s \in Sessions, phase[s] = "opening", PublishPatch(s), home'[s] = home[s]
  PROVE  FreshEntry(home[s])' /\ Held(home[s])'
<1>1. ~Fault /\ faults = 0 /\ home[s] \in Replicas /\ Slot(s) = home[s] /\ s \in Publishers
  BY NoFaultYet, SessionSlot DEF TypeOK
<1>2. entries'[home[s]] = [count |-> IF pub[s].n # pub[s].base THEN pub[s].n
                                     ELSE entries[home[s]].count, age |-> 0]
  BY <1>1 DEF PublishPatch, TypeOK
<1>3. entries'[home[s]] # Nil
  BY <1>1, <1>2, PatchTyped DEF PublishPatch
<1>4. entries'[home[s]].age = 0 /\ since'[home[s]] \in 0..Heartbeat
  BY <1>1, <1>2 DEF TypeOK
<1>5. FreshEntry(home[s])'
  BY <1>1, <1>3, <1>4, ConnectionsAssumption DEF FreshEntry
<1>6. Within(2 * MaxTouchDelay)'
  BY <1>1 DEF TouchOK, Within, PublishPatch
<1> QED
  BY <1>5, <1>6 DEF Held

\* A heartbeat comes before the entry is stale, and its patch in the same tick.
LEMMA StaysFresh ==
  ASSUME TypeOK, TypeOK', Control, faults' = 0, [Next]_vars,
         NEW r \in Replicas, r \in alive, r \in alive', r \in known, FreshEntry(r)
  PROVE  FreshEntry(r)'
<1>0. /\ ~Fault /\ r \in Publishers /\ Slot(r) = r
      /\ entries[r] \in Entries /\ since[r] \in 0..Heartbeat /\ since'[r] \in 0..Heartbeat
  BY NoFaultYet DEF TypeOK, Publishers, Slot, FreshEntry
<1>1. CASE Tick
  <2>1. pub[r] = Nil /\ pub'[r] = Nil /\ entries[r].age <= since[r] /\ entries[r].age \in Nat
    BY <1>0, <1>1, ConnectionsAssumption DEF Tick, FreshEntry, Entries
  <2>2. since'[r] = since[r] + 1
    BY <1>1 DEF Tick
  <2>3. entries'[r] = [entries[r] EXCEPT !.age = Smaller(@ + 1, 2 * Heartbeat)]
    BY <1>1 DEF Tick, FreshEntry
  <2>4. entries'[r].age = Smaller(entries[r].age + 1, 2 * Heartbeat) /\ entries'[r] \in Entries \cup {Nil}
    BY <1>0, <2>3 DEF Entries, TypeOK
  <2>5. entries'[r].age <= since'[r]
    BY <1>0, <2>1, <2>2, <2>4, ConnectionsAssumption DEF Smaller
  <2>6. entries'[r].age <= Heartbeat
    BY <1>0, <2>1, <2>2, <2>4, <2>5, ConnectionsAssumption DEF Smaller
  <2>7. entries'[r] # Nil
    <3>1. Smaller(entries[r].age + 1, 2 * Heartbeat) \in 0..2 * Heartbeat
      BY <2>1, ConnectionsAssumption DEF Smaller
    <3>2. entries'[r] \in Entries
      BY <1>0, <2>3, <3>1 DEF Entries
    <3> QED
      BY <3>2, NilAssumption
  <2> QED
    BY <2>5, <2>6, <2>7 DEF FreshEntry
<1>2. CASE HeartbeatAll(r)
  <2>1. entries' = entries /\ counts[r] \in Nat
    BY <1>2 DEF HeartbeatAll, TypeOK
  <2>2. pub'[r] # Nil
    BY <1>0, <1>2, <2>1, StartTyped DEF HeartbeatAll, StartPublish, TypeOK
  <2> QED
    BY <2>1, <2>2 DEF FreshEntry
<1>3. ASSUME NEW p \in Publishers, PublishPatch(p)
      PROVE  FreshEntry(r)'
  <2>1. pub[p] # Nil
    BY <1>3 DEF PublishPatch
  <2>2. CASE Slot(p) = r
    <3>1. entries'[r] = [count |-> IF pub[p].n # pub[p].base THEN pub[p].n
                                   ELSE entries[r].count, age |-> 0]
      BY <1>0, <1>3, <2>2 DEF PublishPatch, TypeOK
    <3>2. entries'[r] # Nil
      BY <2>1, <2>2, <3>1, PatchTyped
    <3> QED
      BY <1>0, <3>1, <3>2, ConnectionsAssumption DEF FreshEntry
  <2>3. CASE Slot(p) # r
    <3>1. entries'[r] = entries[r] /\ since' = since /\ p # r
      BY <1>0, <1>3, <2>3 DEF PublishPatch, TypeOK
    <3>2. pub'[r] = pub[r]
      BY <1>0, <1>3, <3>1, ReturnControl DEF PublishPatch
    <3> QED
      BY <3>1, <3>2 DEF FreshEntry
  <2> QED
    BY <2>2, <2>3
<1>4. ASSUME NEW p \in Publishers, PublishGet(p)
      PROVE  FreshEntry(r)'
  <2>1. entries' = entries /\ since' = since
    BY <1>4 DEF PublishGet
  <2>2. pub'[r] = Nil => pub[r] = Nil
    <3>1. CASE p # r
      BY <1>0, <1>4, <3>1 DEF PublishGet, TypeOK
    <3>2. CASE p = r
      <4> DEFINE b == IF entries[r] = Nil THEN Nil ELSE entries[r].count
      <4>1. pub'[r] = [pub[r] EXCEPT !.st = "patch", !.base = b] /\ pub[r] \in Publishing
        BY <1>0, <1>4, <3>2 DEF PublishGet, TypeOK
      <4>2. b \in Nat \cup {Nil}
        BY <1>0 DEF Entries
      <4> HIDE DEF b
      <4>3. pub'[r] \in Publishing
        BY <4>1, <4>2 DEF Publishing
      <4> QED
        BY <4>3, NilAssumption
    <3> QED
      BY <3>1, <3>2
  <2> QED
    BY <2>1, <2>2 DEF FreshEntry
<1>5. ASSUME NEW d \in Replicas, Die(d)
      PROVE  FreshEntry(r)'
  <2>1. d # r
    BY <1>5 DEF Die
  <2>2. entries' = entries /\ since'[r] = since[r] /\ pub'[r] = pub[r]
    BY <1>0, <1>5, <2>1 DEF Die, TypeOK
  <2> QED
    BY <2>2 DEF FreshEntry
<1>6. ASSUME NEW d \in Replicas, HeartbeatAll(d), d # r
      PROVE  FreshEntry(r)'
  <2>1. entries' = entries /\ since'[r] = since[r] /\ pub'[r] = pub[r]
    BY <1>0, <1>6 DEF HeartbeatAll, StartPublish, TypeOK
  <2> QED
    BY <2>1 DEF FreshEntry
<1>7. CASE \/ UNCHANGED vars
           \/ \E t \in Sessions : \/ Request(t) \/ TouchGet(t) \/ TouchPatch(t)
                                  \/ Open(t) \/ Close(t) \/ EndUncounted(t)
  <2>1. entries' = entries /\ since' = since
    BY <1>7 DEF Request, TouchGet, TouchPatch, Open, Close, EndUncounted, vars
  <2>2. pub'[r] = pub[r]
    BY <1>0, <1>7, SessionSlot DEF Request, TouchGet, TouchPatch, Open, Close, EndUncounted, vars,
       StartPublish, TypeOK
  <2> QED
    BY <2>1, <2>2 DEF FreshEntry
<1> QED
  BY <1>1, <1>2, <1>3, <1>4, <1>5, <1>6, <1>7 DEF Next

\* What a replica's entry rests on when neither time nor the entry moves: the
\* publishes under way may end, and new ones bring at least one.
LEMMA HeldFrame ==
  ASSUME NEW r, Held(r),
         UNCHANGED last, entries'[r] = entries[r], since'[r] = since[r],
         pub[r] # Nil => pub'[r] # Nil,
         \A p \in At(r)' : \/ p \in At(r) /\ pub'[p] = pub[p]
                           \/ pub'[p].st = "get" /\ pub'[p].n >= 1
  PROVE  Held(r)'
<1>1. CASE Within(2 * MaxTouchDelay)
  BY <1>1 DEF Held, Within
<1>2. CASE /\ Positive(r) /\ BaseHolds(r)
           /\ \/ entries[r].count >= 1
              \/ Within(2 * MaxTouchDelay + since[r])
              \/ pub[r] # Nil /\ Within(2 * MaxTouchDelay + Heartbeat)
  <2>1. Positive(r)'
    BY <1>2 DEF Positive
  <2>2. BaseHolds(r)'
    BY <1>2 DEF BaseHolds
  <2>3. \/ entries[r].count >= 1
        \/ Within(2 * MaxTouchDelay + since[r])'
        \/ pub'[r] # Nil /\ Within(2 * MaxTouchDelay + Heartbeat)'
    BY <1>2 DEF Within
  <2> QED
    BY <2>1, <2>2, <2>3 DEF Held
<1> QED
  BY <1>1, <1>2 DEF Held

\* As long as a published connection is open, its replica's entry is held.
LEMMA StaysHeld ==
  ASSUME TypeOK, TypeOK', Control, Control', CountOK, CountOK', faults' = 0, [Next]_vars,
         NEW s \in Sessions, phase[s] = "counted", phase'[s] = "counted",
         NEW r \in Replicas, home[s] = r, home'[s] = r, FreshEntry(r), Held(r)
  PROVE  Held(r)'
<1>0. /\ ~Fault /\ r \in Replicas /\ r \in Publishers /\ Slot(r) = r
      /\ entries[r] \in Entries /\ since[r] \in 0..Heartbeat
      /\ r \in alive /\ r \in alive'
      /\ \A p \in Publishers : Slot(p) \in Replicas
  BY NoFaultYet, SlotIsReplica DEF TypeOK, Publishers, Slot, FreshEntry, Control
<1>1. counts[r] \in Nat /\ counts[r] >= 1
  BY ServedIsCounted
<1>2. counts'[r] \in Nat /\ counts'[r] >= 1
  <2>1. s \in Serving(r)'
    BY DEF Serving
  <2>2. counts'[r] \in Nat /\ counts'[r] >= Cardinality(Serving(r)')
    BY <1>0 DEF CountOK, TypeOK
  <2>3. Serving(r)' \subseteq Sessions
    BY DEF Serving
  <2> DEFINE S == Serving(r)'
  <2>4. IsFiniteSet(S) /\ Cardinality(S) \in Nat /\ Cardinality(S) # 0
    <3>1. S \in SUBSET Sessions /\ S # {}
      BY <2>1, <2>3
    <3> HIDE DEF S
    <3> QED
      BY <3>1, ConnectionsAssumption, FS_Subset, FS_CardinalityType, FS_EmptySet
  <2> HIDE DEF S
  <2> QED
    BY <2>2, <2>4 DEF S
<1>3. Held(r) /\ FreshEntry(r)
  OBVIOUS
<1>4. CASE Tick
  <2>1. \A p \in Publishers : pub'[p] = Nil /\ pub[p] = Nil
    BY <1>4 DEF Tick
  <2>2. Positive(r)' /\ BaseHolds(r)'
    BY <2>1 DEF Positive, BaseHolds, At
  <2>3. since'[r] = since[r] + 1
    BY <1>0, <1>4 DEF Tick
  <2>4. entries'[r].count = entries[r].count
    <3>1. entries'[r] = [entries[r] EXCEPT !.age = Smaller(@ + 1, 2 * Heartbeat)]
      BY <1>0, <1>3, <1>4 DEF Tick, FreshEntry
    <3> QED
      BY <1>0, <3>1 DEF Entries
  <2>5. CASE Within(2 * MaxTouchDelay)
    <3>1. 2 * MaxTouchDelay \in Nat
      BY ConnectionsAssumption
    <3>2. last' # Nil /\ last' <= 2 * MaxTouchDelay + 1
      BY <1>4, <2>5, <3>1, TickAges DEF Within
    <3>3. last' \in Nat
      BY <3>2, ConnectionsAssumption DEF TypeOK
    <3>4. Within(2 * MaxTouchDelay + since[r])'
      BY <1>0, <2>3, <3>2, <3>3, ConnectionsAssumption DEF Within
    <3> QED
      BY <2>2, <3>4 DEF Held
  <2>6. CASE entries[r].count >= 1
    BY <2>2, <2>4, <2>6 DEF Held
  <2>7. CASE Within(2 * MaxTouchDelay + since[r])
    <3> DEFINE n == 2 * MaxTouchDelay + since[r]
    <3>1. n \in Nat /\ Within(n)
      BY <1>0, <2>7, ConnectionsAssumption
    <3>2. 2 * MaxTouchDelay + since'[r] = n + 1
      BY <1>0, <2>3, ConnectionsAssumption
    <3> HIDE DEF n
    <3>3. last' # Nil /\ last' <= n + 1
      BY <1>4, <3>1, TickAges DEF Within
    <3>4. Within(2 * MaxTouchDelay + since[r])'
      BY <3>2, <3>3 DEF Within
    <3> QED
      BY <2>2, <3>4 DEF Held
  <2> QED
    BY <1>0, <1>3, <2>1, <2>5, <2>6, <2>7 DEF Held
<1>5. CASE HeartbeatAll(r)
  <2>1. /\ pub[r] = Nil /\ since[r] = Heartbeat
        /\ entries' = entries /\ last' = last /\ home' = home
    BY <1>5 DEF HeartbeatAll
  <2>2. r \in known
    BY DEF Control
  <2>3. /\ pub'[r] # Nil /\ pub'[r].st = "get" /\ pub'[r].n = counts[r]
        /\ \A p \in Publishers : p # r => pub'[p] = pub[p]
    BY <1>0, <1>1, <1>5, <2>2, StartTyped DEF HeartbeatAll, StartPublish, TypeOK
  <2>4. \A p \in Publishers : Slot(p)' = Slot(p)
    BY <2>1 DEF Slot
  <2>5. CASE Within(2 * MaxTouchDelay)
    BY <2>1, <2>5 DEF Held, Within
  <2>6. CASE /\ Positive(r) /\ BaseHolds(r)
             /\ entries[r].count >= 1 \/ Within(2 * MaxTouchDelay + since[r])
    <3>1. Positive(r)'
      BY <1>1, <2>3, <2>4, <2>6 DEF Positive, At
    <3>2. BaseHolds(r)'
      BY <2>1, <2>3, <2>4, <2>6 DEF BaseHolds, At
    <3>3. \/ entries'[r].count >= 1
          \/ pub'[r] # Nil /\ Within(2 * MaxTouchDelay + Heartbeat)'
      BY <2>1, <2>3, <2>6 DEF Within
    <3> QED
      BY <3>1, <3>2, <3>3 DEF Held
  <2> QED
    BY <1>3, <2>1, <2>5, <2>6 DEF Held
<1>6. ASSUME NEW d \in Replicas, HeartbeatAll(d), d # r
      PROVE  Held(r)'
  <2>1. entries' = entries /\ last' = last /\ since'[r] = since[r] /\ home' = home
    BY <1>0, <1>6 DEF HeartbeatAll, TypeOK
  <2>2. \A p \in Publishers : p # d => pub'[p] = pub[p]
    BY <1>6 DEF HeartbeatAll, StartPublish, TypeOK
  <2>3. \A p \in Publishers : Slot(p)' = Slot(p)
    BY <2>1 DEF Slot
  <2>4. \A p \in At(r)' : p \in At(r) /\ pub'[p] = pub[p]
    <3>1. Slot(d) = d
      BY <1>6 DEF Slot
    <3> QED
      BY <1>6, <2>2, <2>3, <3>1 DEF At
  <2> QED
    BY <1>0, <1>3, <1>6, <2>1, <2>2, <2>4, HeldFrame
<1>7. ASSUME NEW t \in Sessions, Open(t) \/ Close(t)
      PROVE  Held(r)'
  <2>1. UNCHANGED <<entries, last, since, home>>
    BY <1>7 DEF Open, Close
  <2>2. \A p \in Publishers : Slot(p)' = Slot(p)
    BY <2>1 DEF Slot
  <2>3. t \in Publishers /\ t # r /\ Slot(t) = home[t]
    BY <1>0, SessionSlot
  <2>4. /\ pub'[t].st = "get" /\ pub'[t].n = counts'[home[t]]
        /\ \A p \in Publishers : p # t => pub'[p] = pub[p]
    BY <1>7, <2>3 DEF Open, Close, StartPublish, TypeOK
  <2>5. \A p \in At(r)' : \/ p \in At(r) /\ pub'[p] = pub[p]
                          \/ pub'[p].st = "get" /\ pub'[p].n >= 1
    BY <1>2, <2>2, <2>3, <2>4 DEF At
  <2> QED
    BY <1>0, <1>3, <2>1, <2>3, <2>4, <2>5, HeldFrame
<1>8. ASSUME NEW t \in Sessions, Request(t) \/ TouchGet(t) \/ EndUncounted(t)
      PROVE  Held(r)'
  <2>1. UNCHANGED <<entries, last, since, pub>>
    BY <1>8 DEF Request, TouchGet, EndUncounted
  <2>2. \A p \in Publishers : pub[p] # Nil => Slot(p)' = Slot(p)
    <3>1. pub[t] = Nil
      BY <1>8 DEF Request, TouchGet, EndUncounted, Control
    <3>2. \A u \in Sessions : u # t => home'[u] = home[u]
      BY <1>8 DEF Request, TouchGet, EndUncounted, TypeOK
    <3> QED
      BY <3>1, <3>2 DEF Slot, Publishers
  <2>3. \A p \in At(r)' : p \in At(r) /\ pub'[p] = pub[p]
    BY <2>1, <2>2 DEF At
  <2> QED
    BY <1>3, <2>1, <2>3, HeldFrame
<1>9. ASSUME NEW t \in Sessions, TouchPatch(t)
      PROVE  Held(r)'
  <2>1. last' = stamp[t] /\ stamp[t] \in 0..MaxTouchDelay
    BY <1>0, <1>9 DEF TouchPatch, TypeOK
  <2>2. Within(2 * MaxTouchDelay)'
    BY <2>1, ConnectionsAssumption DEF Within
  <2> QED
    BY <2>2 DEF Held
<1>10. ASSUME NEW p \in Publishers, PublishGet(p)
       PROVE  Held(r)'
  <2>1. UNCHANGED <<entries, last, since, home>>
    BY <1>10 DEF PublishGet
  <2>2. \A q \in Publishers : Slot(q)' = Slot(q)
    BY <2>1 DEF Slot
  <2> DEFINE b == IF entries[Slot(p)] = Nil THEN Nil ELSE entries[Slot(p)].count
  <2>3. /\ pub' = [pub EXCEPT ![p] = [pub[p] EXCEPT !.st = "patch", !.base = b]]
        /\ pub[p] \in Publishing /\ pub[p] # Nil
    BY <1>0, <1>10 DEF PublishGet, TypeOK
  <2>4. b \in Nat \cup {Nil}
    BY <1>0 DEF TypeOK, Entries
  <2>5. Slot(p) = r => b = entries[r].count
    BY <1>3 DEF FreshEntry
  <2> HIDE DEF b
  <2>6. [pub[p] EXCEPT !.st = "patch", !.base = b] \in Publishing
    BY <2>3, <2>4 DEF Publishing
  <2>7. /\ pub'[p] # Nil /\ pub'[p].n = pub[p].n /\ pub'[p].base = b
        /\ \A q \in Publishers : q # p => pub'[q] = pub[q]
    BY <2>3, <2>6, NilAssumption DEF TypeOK, Publishing
  <2>8. pub[r] # Nil => pub'[r] # Nil
    BY <1>0, <2>7
  <2>9. CASE Within(2 * MaxTouchDelay)
    BY <2>1, <2>9 DEF Held, Within
  <2>10. CASE /\ Positive(r) /\ BaseHolds(r)
              /\ \/ entries[r].count >= 1
                 \/ Within(2 * MaxTouchDelay + since[r])
                 \/ pub[r] # Nil /\ Within(2 * MaxTouchDelay + Heartbeat)
    <3>1. \A q \in At(r)' : q \in At(r) /\ pub'[q].n = pub[q].n
      BY <2>2, <2>3, <2>7 DEF At
    <3>2. Positive(r)'
      BY <2>10, <3>1 DEF Positive
    <3>3. BaseHolds(r)'
      <4> SUFFICES ASSUME NEW q \in At(r)', pub'[q].st = "patch", pub'[q].base = pub'[q].n
                   PROVE  entries'[r].count >= 1
        BY DEF BaseHolds
      <4>1. CASE q = p
        BY <2>1, <2>5, <2>7, <2>10, <3>1, <4>1 DEF Positive, At
      <4>2. CASE q # p
        BY <2>1, <2>7, <2>10, <3>1, <4>2 DEF BaseHolds, At
      <4> QED
        BY <4>1, <4>2
    <3>4. \/ entries'[r].count >= 1
          \/ Within(2 * MaxTouchDelay + since[r])'
          \/ pub'[r] # Nil /\ Within(2 * MaxTouchDelay + Heartbeat)'
      BY <2>1, <2>8, <2>10 DEF Within
    <3> QED
      BY <3>2, <3>3, <3>4 DEF Held
  <2> QED
    BY <1>3, <2>9, <2>10 DEF Held
<1>11. ASSUME NEW p \in Publishers, PublishPatch(p)
       PROVE  Held(r)'
  <2>1. UNCHANGED <<last, since, home>> /\ pub[p] # Nil /\ pub[p].st = "patch" /\ Return(p, FALSE)
    BY <1>0, <1>11 DEF PublishPatch
  <2>2. \A q \in Publishers : Slot(q)' = Slot(q)
    BY <2>1 DEF Slot
  <2>3. pub'[p] = Nil /\ \A q \in Publishers : q # p => pub'[q] = pub[q]
    BY <2>1, ReturnControl
  <2>4. \A q \in At(r)' : q \in At(r) /\ pub'[q] = pub[q]
    BY <2>2, <2>3 DEF At
  <2>5. CASE Slot(p) # r
    <3>1. entries'[r] = entries[r] /\ p # r
      BY <1>0, <1>11, <2>5 DEF PublishPatch, TypeOK
    <3> QED
      BY <1>0, <1>3, <2>1, <2>3, <2>4, <3>1, HeldFrame
  <2>6. CASE Slot(p) = r /\ Within(2 * MaxTouchDelay)
    BY <2>1, <2>6 DEF Held, Within
  <2>7. CASE Slot(p) = r /\ Positive(r) /\ BaseHolds(r)
    <3>1. entries'[r] = [count |-> IF pub[p].n # pub[p].base THEN pub[p].n
                                   ELSE entries[r].count, age |-> 0]
      BY <1>0, <1>11, <2>7 DEF PublishPatch, TypeOK
    <3>2. p \in At(r)
      BY <2>1, <2>7 DEF At
    <3>3. entries'[r].count >= 1
      BY <2>1, <2>7, <3>1, <3>2 DEF Positive, BaseHolds
    <3>4. Positive(r)' /\ BaseHolds(r)'
      BY <2>4, <2>7, <3>3 DEF Positive, BaseHolds
    <3> QED
      BY <3>3, <3>4 DEF Held
  <2> QED
    BY <1>3, <2>5, <2>6, <2>7 DEF Held
<1>12. ASSUME NEW d \in Replicas, Die(d)
       PROVE  Held(r)'
  <2>1. d # r /\ UNCHANGED <<entries, last, home>>
    BY <1>0, <1>12 DEF Die
  <2>2. since'[r] = since[r] /\ pub'[r] = pub[r]
    BY <1>0, <1>12, <2>1 DEF Die, TypeOK
  <2>3. \A p \in At(r)' : p \in At(r) /\ pub'[p] = pub[p]
    BY <1>12, <2>1 DEF Die, At, Slot
  <2> QED
    BY <1>3, <2>1, <2>2, <2>3, HeldFrame
<1>13. CASE UNCHANGED vars
  <2>1. \A p \in At(r)' : p \in At(r) /\ pub'[p] = pub[p]
    BY <1>13 DEF vars, At, Slot
  <2> QED
    BY <1>3, <1>13, <2>1, HeldFrame DEF vars
<1> QED
  BY <1>4, <1>5, <1>6, <1>7, <1>8, <1>9, <1>10, <1>11, <1>12, <1>13 DEF Next

\* Every step keeps the entries of open connections fresh and held.
LEMMA StepHeld ==
  ASSUME TypeOK, TypeOK', Control, Control', CountOK, CountOK', TouchOK, HeldOK, [Next]_vars
  PROVE  HeldOK'
<1> SUFFICES ASSUME faults' = 0, NEW s \in Sessions, phase'[s] = "counted"
             PROVE  (FreshEntry(home[s]) /\ Held(home[s]))'
  BY DEF HeldOK
<1>1. faults = 0 /\ home'[s] = home[s]
  BY NoFaultYet, CountedBefore
<1>2. CASE phase[s] = "counted"
  <2>1. FreshEntry(home[s]) /\ Held(home[s])
    BY <1>1, <1>2 DEF HeldOK
  <2>2. home[s] \in Replicas /\ home[s] \in alive /\ home[s] \in alive' /\ home[s] \in known
    BY <1>1, <1>2 DEF Control, TypeOK
  <2>3. PICK r \in Replicas : r = home[s]
    BY <2>2
  <2>4. FreshEntry(r)'
    BY <2>1, <2>2, <2>3, StaysFresh
  <2>5. Held(r)'
    BY <1>1, <1>2, <2>1, <2>3, StaysHeld
  <2> QED
    BY <1>1, <2>3, <2>4, <2>5
<1>3. CASE phase[s] # "counted"
  <2>1. phase[s] = "opening" /\ PublishPatch(s)
    BY <1>3, CountedBefore
  <2> QED
    BY <1>1, <2>1, FirstPublish
<1> QED
  BY <1>2, <1>3

\* A held fresh entry, or a recent lastActivity, keeps the reaper away.
LEMMA HeldIsNotReapable ==
  ASSUME TypeOK, NEW r \in Replicas, FreshEntry(r), Held(r),
         2 * MaxTouchDelay + Heartbeat <= IdleTimeout
  PROVE  ~Reapable
<1>1. since[r] \in 0..Heartbeat /\ entries[r] \in Entries
  BY DEF TypeOK, FreshEntry
<1>2. last # Nil => last \in Nat
  BY ConnectionsAssumption DEF TypeOK
<1>3. CASE entries[r].count >= 1
  <2>1. Fresh(r)
    BY <1>1, ConnectionsAssumption DEF Fresh, FreshEntry, Entries
  <2>2. entries[r].count # 0
    BY <1>1, <1>3 DEF Entries
  <2> QED
    BY <2>1, <2>2 DEF Reapable, NoFreshConnection
<1>4. CASE Within(2 * MaxTouchDelay + Heartbeat) \/ Within(2 * MaxTouchDelay + since[r])
                                             \/ Within(2 * MaxTouchDelay)
  BY <1>1, <1>2, <1>4, ConnectionsAssumption DEF Within, Reapable
<1> QED
  BY <1>3, <1>4 DEF Held

-----------------------------------------------------------------------------
(* Theorems.                                                               *)

Inv == TypeOK /\ Control /\ CountOK /\ TouchOK /\ HeldOK

\* The invariant is inductive.
LEMMA Inductive ==
  /\ Init => Inv
  /\ Inv /\ [Next]_vars => Inv'
<1>1. ASSUME Init PROVE Inv
  <2>1. TypeOK
    <3>1. 0 \in 0..Heartbeat /\ 0 \in 0..MaxTouchDelay /\ 0 \in 0..MaxFaults
      BY ConnectionsAssumption
    <3> QED
      BY <1>1, <3>1 DEF Init, TypeOK, SessionPhases
  <2>2. Control
    BY <1>1 DEF Init, Control, Publishers
  <2>3. CountOK
    <3>1. \A r : Serving(r) = {}
      BY <1>1 DEF Init, Serving
    <3> QED
      BY <1>1, <3>1, FS_EmptySet DEF Init, CountOK
  <2>4. TouchOK /\ HeldOK
    BY <1>1 DEF Init, TouchOK, HeldOK
  <2> QED
    BY <2>1, <2>2, <2>3, <2>4 DEF Inv
<1>2. ASSUME Inv, [Next]_vars PROVE Inv'
  <2>1. TypeOK /\ Control /\ CountOK /\ TouchOK /\ HeldOK
    BY <1>2 DEF Inv
  <2>2. TypeOK' /\ Control' /\ CountOK'
    BY <1>2, <2>1, StepTyped, StepControl, StepCount
  <2>3. TouchOK' /\ HeldOK'
    BY <1>2, <2>1, <2>2, StepTouch, StepHeld
  <2> QED
    BY <2>2, <2>3 DEF Inv
<1> QED
  BY <1>1, <1>2

\* Entries, counters and goroutines have the types declared for them; no order
\* of Open and Close brings a counter below zero.
THEOREM ConnectionTypes == Spec => []TypeOK
<1>1. Inv => TypeOK
  BY DEF Inv
<1> QED
  BY <1>1, Inductive, PTL DEF Spec

\* For any replicas and sessions, and whatever calls fail: a running replica's
\* counter covers the published connections it serves.
THEOREM CountCoversOpen == Spec => []NeverUndercounts
<1>1. ASSUME Inv PROVE NeverUndercounts
  <2> SUFFICES ASSUME NEW r \in alive
               PROVE  counts[r] >= Cardinality({s \in Sessions : home[s] = r /\ phase[s] = "counted"})
    BY DEF NeverUndercounts
  <2> DEFINE S == {s \in Sessions : home[s] = r /\ phase[s] = "counted"}
  <2>1. S \in SUBSET Serving(r) /\ counts[r] \in Nat
    BY <1>1 DEF Serving, Inv, TypeOK
  <2>2. counts[r] >= Cardinality(Serving(r))
    BY <1>1 DEF Inv, CountOK
  <2> HIDE DEF S
  <2>3. Cardinality(S) \in Nat /\ Cardinality(S) <= Cardinality(Serving(r))
    BY <2>1, ServingFinite, FS_Subset, FS_CardinalityType
  <2>4. counts[r] >= Cardinality(S)
    BY <2>1, <2>2, <2>3, ServingFinite
  <2> QED
    BY <2>4 DEF S
<1> QED
  BY <1>1, Inductive, PTL DEF Spec

\* For any replicas, sessions, deaths and orders of publishes and touches: when
\* idleTimeout is at least the heartbeat interval and twice the delay of a touch,
\* and no call failed, the reaper's predicate is false while a published
\* connection is open.
THEOREM OpenIsNotReaped ==
  ASSUME 2 * MaxTouchDelay + Heartbeat <= IdleTimeout
  PROVE  Spec => []OpenSessionNotReapable
<1>1. ASSUME Inv PROVE OpenSessionNotReapable
  <2> SUFFICES ASSUME faults = 0, NEW s \in Sessions, phase[s] = "counted"
               PROVE  ~Reapable
    BY DEF OpenSessionNotReapable
  <2>1. TypeOK /\ home[s] \in Replicas /\ FreshEntry(home[s]) /\ Held(home[s])
    BY <1>1 DEF Inv, HeldOK, TypeOK
  <2> QED
    BY <2>1, HeldIsNotReapable
<1> QED
  BY <1>1, Inductive, PTL DEF Spec
=============================================================================
