--------------------------- MODULE ReclaimerProofs ---------------------------
(***************************************************************************)
(* Theorems about the Reclaimer, for any finite set of users, any target   *)
(* and any number of visits, deletions by hand, failing calls and crashes: *)
(* types, the order of release and stamp, what the sweep leaves alone, and *)
(* that an overage is never reclaimed twice.                               *)
(***************************************************************************)
EXTENDS Reclaimer, FiniteSetTheorems, TLAPS

-----------------------------------------------------------------------------
(* What a pass of the Reclaimer knows.                                     *)

\* From the choice of a Workspace on there is one, and until the stamp the
\* claim that was read.
ControlOK ==
  /\ pc \in {"release", "stamp", "delws", "delclaim"} => cur \in Users
  /\ pc \in {"release", "stamp"} => copy \in Claim

\* The steps of everybody else.
Others ==
  \/ Tick
  \/ \E u \in Users :
       \/ Visit(u) \/ HangUp(u) \/ Reconcile(u) \/ ReconcileDelete(u)
       \/ DeleteByHand(u) \/ Seed(u) \/ Bind(u) \/ ClaimGone(u)

\* What anybody else does to a claim: make it, bind its volume, or let one go
\* that was deleted, which a pass that read it does not take for the next one.
ClaimKept(u) ==
  \/ /\ claim[u] = Nil
     /\ claim'[u] # Nil => claim'[u].stamp = "no"
  \/ /\ claim[u] # Nil /\ claim'[u] # Nil
     /\ claim'[u].stamp = claim[u].stamp
     /\ claim'[u].del = claim[u].del
     /\ claim[u].vol # "unbound" => claim'[u].vol = claim[u].vol
  \/ /\ claim[u] # Nil /\ claim[u].del /\ claim'[u] = Nil
     /\ u = cur /\ copy # Nil => copy' = [copy EXCEPT !.vol = "unbound"]

-----------------------------------------------------------------------------
(* The types of what the operations build.                                 *)

\* Workspaces and claims with one field changed.
LEMMA FieldsTyped ==
  /\ NoWorkspace \in Workspace
  /\ NewClaim \in Claim
  /\ \A w \in Workspace :
       /\ Deleted(w) \in Workspace
       /\ [w EXCEPT !.st = "live"] \in Workspace
       /\ [w EXCEPT !.conns = FALSE] \in Workspace
       /\ \A p \in Phases : [w EXCEPT !.phase = p] \in Workspace
  /\ \A c \in Claim :
       /\ \A v \in {"unbound", "Retain", "Delete"} : [c EXCEPT !.vol = v] \in Claim
       /\ \A b \in BOOLEAN : [c EXCEPT !.used = b] \in Claim /\ [c EXCEPT !.del = b] \in Claim
<1>1. NoWorkspace \in Workspace
  BY DEF NoWorkspace, Workspace, Phases
<1>2. NewClaim \in Claim
  BY DEF NewClaim, Claim
<1>3. ASSUME NEW w \in Workspace
      PROVE  /\ Deleted(w) \in Workspace
             /\ [w EXCEPT !.st = "live"] \in Workspace
             /\ [w EXCEPT !.conns = FALSE] \in Workspace
             /\ \A p \in Phases : [w EXCEPT !.phase = p] \in Workspace
  BY DEF Deleted, Workspace
<1>4. ASSUME NEW c \in Claim
      PROVE  /\ \A v \in {"unbound", "Retain", "Delete"} : [c EXCEPT !.vol = v] \in Claim
             /\ \A b \in BOOLEAN :
                  [c EXCEPT !.used = b] \in Claim /\ [c EXCEPT !.del = b] \in Claim
  BY DEF Claim
<1> QED
  BY <1>1, <1>2, <1>3, <1>4

\* A row leads to a phase.
LEMMA RowsTyped ==
  ASSUME NEW w \in Workspace
  PROVE  Rows(w) \subseteq Phases
<1>1. w.phase \in Phases
  BY DEF Workspace
<1> QED
  BY <1>1 DEF Rows, Phases

\* Deleting, releasing and stamping a claim, as the pass read it.
LEMMA ClaimsTyped ==
  ASSUME TypeOK, NEW u \in Users
  PROVE  /\ Removed(u) \in [Users -> Claim \cup {Nil}]
         /\ Ensured(u) \in Claim
         /\ \A c \in Claim : Released(c) \in Claim /\ Stamped(c) \in Claim
<1>1. claim[u] # Nil => claim[u] \in Claim
  BY DEF TypeOK
<1>2. Ensured(u) \in Claim
  BY <1>1, FieldsTyped DEF Ensured
<1>3. Removed(u) \in [Users -> Claim \cup {Nil}]
  BY <1>1, FieldsTyped DEF Removed, TypeOK
<1>4. ASSUME NEW c \in Claim
      PROVE  Released(c) \in Claim /\ Stamped(c) \in Claim
  <2>1. Released(c) \in Claim
    BY FieldsTyped DEF Released
  <2>2. Stamped(c) \in Claim
    BY DEF Stamped, Claim
  <2> QED
    BY <2>1, <2>2
<1> QED
  BY <1>2, <1>3, <1>4

-----------------------------------------------------------------------------
(* Types.                                                                  *)

\* Steps of the router, the reconciler and the administrators keep the types.
LEMMA OthersTyped ==
  ASSUME TypeOK, ControlOK, Others
  PROVE  TypeOK' /\ ControlOK'
<1> USE ReclaimerAssumption
<1>1. CASE Tick
  <2>1. ASSUME NEW u \in Users
        PROVE  [ws[u] EXCEPT !.age = IF ws[u].age \in {Nil, MaxAge} THEN ws[u].age
                                     ELSE ws[u].age + 1] \in Workspace
    <3>1. ws[u] \in Workspace /\ ws[u].age \in 0..MaxAge \cup {Nil}
      BY DEF TypeOK, Workspace
    <3>2. ws[u].age \notin {Nil, MaxAge} => ws[u].age + 1 \in 0..MaxAge
      BY <3>1
    <3> QED
      BY <3>1, <3>2 DEF Workspace
  <2>2. ws' \in [Users -> Workspace]
    BY <1>1, <2>1 DEF Tick
  <2> QED
    BY <1>1, <2>2 DEF Tick, TypeOK, ControlOK, pass
<1>2. ASSUME NEW u \in Users, Visit(u)
      PROVE  TypeOK' /\ ControlOK'
  <2>1. ws[u] \in Workspace
    BY DEF TypeOK
  <2>2. visits' \in 0..MaxVisits
    BY <1>2 DEF Visit, TypeOK
  <2>3. ws' \in [Users -> Workspace]
    <3>1. CASE ws' = [ws EXCEPT ![u] = [NoWorkspace EXCEPT !.st = "live"]]
      BY <3>1, FieldsTyped DEF TypeOK
    <3>2. CASE ws' = [ws EXCEPT ![u].phase = "Pending"]
      <4>1. [ws[u] EXCEPT !.phase = "Pending"] \in Workspace
        BY <2>1, FieldsTyped DEF Phases
      <4> QED
        BY <3>2, <4>1 DEF TypeOK
    <3>3. CASE \E c \in {TRUE, ws[u].conns} :
                 ws' = [ws EXCEPT ![u].age = 0, ![u].conns = c]
      <4>1. PICK c \in BOOLEAN :
              ws' = [ws EXCEPT ![u] = [ws[u] EXCEPT !.age = 0, !.conns = c]]
        BY <2>1, <3>3 DEF Workspace
      <4>2. [ws[u] EXCEPT !.age = 0, !.conns = c] \in Workspace
        <5>1. 0 \in 0..MaxAge
          OBVIOUS
        <5> QED
          BY <2>1, <5>1 DEF Workspace
      <4> QED
        BY <4>1, <4>2 DEF TypeOK
    <3> QED
      BY <1>2, <3>1, <3>2, <3>3 DEF Visit
  <2> QED
    BY <1>2, <2>2, <2>3 DEF Visit, TypeOK, ControlOK, pass
<1>3. ASSUME NEW u \in Users, HangUp(u) \/ ReconcileDelete(u)
      PROVE  TypeOK' /\ ControlOK'
  <2>1. ws[u] \in Workspace /\ [ws[u] EXCEPT !.conns = FALSE] \in Workspace
    BY FieldsTyped DEF TypeOK
  <2>2. ws' \in [Users -> Workspace]
    BY <1>3, <2>1, FieldsTyped DEF HangUp, ReconcileDelete, TypeOK
  <2> QED
    BY <1>3, <2>2 DEF HangUp, ReconcileDelete, TypeOK, ControlOK, pass
<1>4. ASSUME NEW u \in Users, DeleteByHand(u)
      PROVE  TypeOK' /\ ControlOK'
  <2>1. Deleted(ws[u]) \in Workspace
    BY FieldsTyped DEF TypeOK
  <2>2. ws' \in [Users -> Workspace] /\ deletes' \in 0..MaxDeletes
    BY <1>4, <2>1 DEF DeleteByHand, TypeOK
  <2> QED
    BY <1>4, <2>2 DEF DeleteByHand, TypeOK, ControlOK, pass
<1>5. ASSUME NEW u \in Users, Reconcile(u)
      PROVE  TypeOK' /\ ControlOK'
  <2>1. PICK p \in Rows(ws[u]) :
          /\ ws' = [ws EXCEPT ![u].phase = p]
          /\ claim' = IF ws[u].phase = "Failed" THEN claim
                      ELSE [claim EXCEPT ![u] =
                             [Ensured(u) EXCEPT
                                !.used = @ \/ (p = "Starting" /\ ws[u].st = "live")]]
    BY <1>5 DEF Reconcile
  <2>2. p \in Phases
    BY RowsTyped DEF TypeOK
  <2>3. ws' \in [Users -> Workspace]
    <3>1. [ws[u] EXCEPT !.phase = p] \in Workspace
      BY <2>2, FieldsTyped DEF TypeOK
    <3> QED
      BY <2>1, <3>1 DEF TypeOK
  <2>4. claim' \in [Users -> Claim \cup {Nil}]
    <3> DEFINE b == Ensured(u).used \/ (p = "Starting" /\ ws[u].st = "live")
    <3>1. Ensured(u) \in Claim /\ b \in BOOLEAN
      BY ClaimsTyped
    <3>2. [Ensured(u) EXCEPT !.used = b] \in Claim
      BY <3>1, FieldsTyped
    <3>3. claim' = IF ws[u].phase = "Failed" THEN claim
                   ELSE [claim EXCEPT ![u] = [Ensured(u) EXCEPT !.used = b]]
      BY <2>1
    <3> HIDE DEF b
    <3> QED
      BY <3>2, <3>3 DEF TypeOK
  <2> QED
    BY <1>5, <2>3, <2>4 DEF Reconcile, TypeOK, ControlOK, pass
<1>6. ASSUME NEW u \in Users, Seed(u) \/ Bind(u)
      PROVE  TypeOK' /\ ControlOK'
  <2>1. [NewClaim EXCEPT !.vol = "Retain"] \in Claim
    BY FieldsTyped
  <2>2. claim[u] # Nil => [claim[u] EXCEPT !.vol = "Retain"] \in Claim
    BY FieldsTyped DEF TypeOK
  <2>3. claim' \in [Users -> Claim \cup {Nil}]
    BY <1>6, <2>1, <2>2 DEF Seed, Bind, TypeOK
  <2> QED
    BY <1>6, <2>3 DEF Seed, Bind, TypeOK, ControlOK, pass
<1>7. ASSUME NEW u \in Users, ClaimGone(u)
      PROVE  TypeOK' /\ ControlOK'
  <2>1. copy # Nil => [copy EXCEPT !.vol = "unbound"] \in Claim
    BY FieldsTyped DEF TypeOK
  <2>2. claim' \in [Users -> Claim \cup {Nil}] /\ copy' \in Claim \cup {Nil}
    BY <1>7, <2>1 DEF ClaimGone, TypeOK
  <2>3. copy \in Claim => copy' \in Claim
    BY <1>7, <2>1, NilAssumption DEF ClaimGone
  <2> QED
    BY <1>7, <2>2, <2>3 DEF ClaimGone, TypeOK, ControlOK
<1> QED
  BY <1>1, <1>2, <1>3, <1>4, <1>5, <1>6, <1>7 DEF Others

\* A call that fails is counted.
LEMMA FaultTyped ==
  ASSUME TypeOK, Fault \/ NoFault
  PROVE  faults' \in 0..MaxFaults
BY ReclaimerAssumption DEF TypeOK, Fault, NoFault

\* A pass that is over is as before the first one.
LEMMA EndedTyped ==
  ASSUME Ended
  PROVE  /\ pc' \in Steps /\ pc' = "idle"
         /\ list' \in [Users -> Listed]
         /\ todo' = {} /\ cur' = Nil /\ copy' = Nil /\ swept' \in BOOLEAN
<1>1. NotListed \in Listed
  BY DEF NotListed, Listed
<1> QED
  BY <1>1 DEF Ended, Steps

\* The Lists, the sweep and the choice keep the types.
LEMMA ListsTyped ==
  ASSUME TypeOK, ControlOK,
         ListWorkspaces \/ ListClaims \/ (\E u \in Users : Sweep(u)) \/ Pick \/ EndPass \/ Crash
  PROVE  TypeOK' /\ ControlOK'
<1> USE ReclaimerAssumption
<1>1. CASE ListWorkspaces
  <2>1. ASSUME NEW u \in Users
        PROVE  [st |-> ws[u].st, age |-> IF IsReclaimable(ws[u]) THEN ws[u].age ELSE Nil]
                 \in Listed
    <3>1. ws[u].st \in {"absent", "live", "deleting"} /\ ws[u].age \in 0..MaxAge \cup {Nil}
      BY DEF TypeOK, Workspace
    <3> QED
      BY <3>1 DEF Listed
  <2>2. list' \in [Users -> Listed]
    BY <1>1, <2>1 DEF ListWorkspaces
  <2> QED
    BY <1>1, <2>2 DEF ListWorkspaces, TypeOK, ControlOK, Steps
<1>2. CASE ListClaims
  <2>1. CASE Ended
    BY <1>2, <2>1, EndedTyped, FaultTyped DEF ListClaims, TypeOK, ControlOK
  <2>2. CASE ~Ended
    BY <1>2, <2>2, FaultTyped DEF ListClaims, TypeOK, ControlOK, Steps
  <2> QED
    BY <2>1, <2>2
<1>3. ASSUME NEW u \in Users, Sweep(u)
      PROVE  TypeOK' /\ ControlOK'
  <2>1. claim' \in [Users -> Claim \cup {Nil}]
    <3>1. claim' = Removed(u) \/ claim' = claim
      BY <1>3 DEF Sweep
    <3> QED
      BY <3>1, ClaimsTyped DEF TypeOK
  <2>2. swept' \in BOOLEAN
    BY <1>3 DEF Sweep, TypeOK
  <2>3. faults' \in 0..MaxFaults
    BY <1>3, FaultTyped DEF Sweep
  <2> QED
    BY <1>3, <2>1, <2>2, <2>3 DEF Sweep, TypeOK, ControlOK
<1>4. CASE Pick
  <2>1. CASE Ended
    BY <1>4, <2>1, EndedTyped DEF Pick, TypeOK, ControlOK
  <2>2. CASE ~Ended
    <3>1. PICK S \in SUBSET Users :
            /\ todo' = S
            /\ list' = [u \in Users |-> IF u \in S THEN list[u] ELSE NotListed]
      BY <1>4, <2>2 DEF Pick
    <3>2. list' \in [Users -> Listed]
      BY <3>1 DEF TypeOK, NotListed, Listed
    <3> QED
      BY <1>4, <2>2, <3>1, <3>2 DEF Pick, TypeOK, ControlOK, Steps
  <2> QED
    BY <2>1, <2>2
<1>5. CASE EndPass
  BY <1>5, EndedTyped DEF EndPass, TypeOK, ControlOK
<1>6. CASE Crash
  BY <1>6, EndedTyped, FaultTyped DEF Crash, TypeOK, ControlOK
<1> QED
  BY <1>1, <1>2, <1>3, <1>4, <1>5, <1>6

\* The calls that reclaim one Workspace keep the types.
LEMMA CallsTyped ==
  ASSUME TypeOK, ControlOK,
         \/ \E u \in Users : GetClaim(u)
         \/ ReleaseVolume \/ MarkReclaiming \/ DeleteWorkspace \/ DeleteClaim
  PROVE  TypeOK' /\ ControlOK'
<1>1. ASSUME NEW u \in Users, GetClaim(u)
      PROVE  TypeOK' /\ ControlOK'
  <2>1. list' \in [Users -> Listed]
    BY <1>1 DEF GetClaim, TypeOK, NotListed, Listed
  <2>2. faults' \in 0..MaxFaults
    BY <1>1, FaultTyped DEF GetClaim
  <2>3. claim[u] \in Claim \cup {Nil}
    BY DEF TypeOK
  <2> QED
    BY <1>1, <2>1, <2>2, <2>3 DEF GetClaim, TypeOK, ControlOK, Steps
<1>2. CASE ReleaseVolume
  <2>1. cur \in Users /\ copy \in Claim
    BY <1>2 DEF ReleaseVolume, ControlOK
  <2>2. claim[cur] # Nil => Released(claim[cur]) \in Claim
    BY <2>1, ClaimsTyped DEF TypeOK
  <2>3. claim' \in [Users -> Claim \cup {Nil}]
    BY <1>2, <2>1, <2>2 DEF ReleaseVolume, GiveUp, TypeOK
  <2>4. faults' \in 0..MaxFaults
    BY <1>2, FaultTyped DEF ReleaseVolume
  <2> QED
    BY <1>2, <2>1, <2>3, <2>4 DEF ReleaseVolume, GiveUp, Onward, TypeOK, ControlOK, Steps
<1>3. CASE MarkReclaiming
  <2>1. cur \in Users /\ copy \in Claim
    BY <1>3 DEF MarkReclaiming, ControlOK
  <2>2. claim[cur] # Nil => Stamped(claim[cur]) \in Claim
    BY <2>1, ClaimsTyped DEF TypeOK
  <2>3. claim' \in [Users -> Claim \cup {Nil}]
    BY <1>3, <2>1, <2>2 DEF MarkReclaiming, GiveUp, TypeOK
  <2>4. faults' \in 0..MaxFaults
    BY <1>3, FaultTyped DEF MarkReclaiming
  <2> QED
    BY <1>3, <2>1, <2>3, <2>4 DEF MarkReclaiming, GiveUp, Onward, TypeOK, ControlOK, Steps
<1>4. CASE DeleteWorkspace
  <2>1. cur \in Users
    BY <1>4 DEF DeleteWorkspace, ControlOK
  <2>2. Deleted(ws[cur]) \in Workspace
    BY <2>1, FieldsTyped DEF TypeOK
  <2>3. claim[cur] # Nil => [claim[cur] EXCEPT !.used = FALSE] \in Claim
    BY <2>1, FieldsTyped DEF TypeOK
  <2>4. claim' \in [Users -> Claim \cup {Nil}]
    BY <1>4, <2>1, <2>3 DEF DeleteWorkspace, GiveUp, TypeOK
  <2>5. ws' \in [Users -> Workspace]
    BY <1>4, <2>1, <2>2 DEF DeleteWorkspace, GiveUp, TypeOK
  <2>6. faults' \in 0..MaxFaults
    BY <1>4, FaultTyped DEF DeleteWorkspace
  <2> QED
    BY <1>4, <2>1, <2>4, <2>5, <2>6 DEF DeleteWorkspace, GiveUp, Onward, TypeOK, ControlOK, Steps
<1>5. CASE DeleteClaim
  <2>1. claim' \in [Users -> Claim \cup {Nil}]
    BY <1>5, ClaimsTyped DEF DeleteClaim, GiveUp, TypeOK, ControlOK
  <2>2. faults' \in 0..MaxFaults
    BY <1>5, FaultTyped DEF DeleteClaim
  <2> QED
    BY <1>5, <2>1, <2>2 DEF DeleteClaim, GiveUp, Onward, TypeOK, ControlOK, Steps
<1> QED
  BY <1>1, <1>2, <1>3, <1>4, <1>5

\* Every step keeps the types.
LEMMA StepTyped ==
  ASSUME TypeOK, ControlOK, [Next]_vars
  PROVE  TypeOK' /\ ControlOK'
<1>1. CASE UNCHANGED vars
  BY <1>1 DEF vars, pass, TypeOK, ControlOK
<1> QED
  BY <1>1, OthersTyped, ListsTyped, CallsTyped DEF Next, Reclaim, Others

\* The initial state has the types.
LEMMA InitTyped == Init => TypeOK /\ ControlOK
<1> SUFFICES ASSUME Init PROVE TypeOK /\ ControlOK
  OBVIOUS
<1>1. NoWorkspace \in Workspace /\ NotListed \in Listed
  BY FieldsTyped DEF NotListed, Listed
<1>2. 0 \in 0..MaxVisits /\ 0 \in 0..MaxDeletes /\ 0 \in 0..MaxFaults
  BY ReclaimerAssumption
<1>3. swept \in BOOLEAN
  BY DEF Init
<1> QED
  BY <1>1, <1>2, <1>3 DEF Init, TypeOK, ControlOK, Steps

-----------------------------------------------------------------------------
(* Release and stamp.                                                      *)

\* Until the stamp: a volume that was read with its claim still belongs to it,
\* and before the stamp is set it has been released.
CopyOK ==
  pc \in {"release", "stamp"} /\ copy.vol # "unbound" =>
    /\ claim[cur] # Nil
    /\ pc = "stamp" /\ DeleteVolumeData => claim[cur].vol = "Delete"

\* Nobody else takes a released volume back or puts a claim in place of the one
\* that a pass has read.
LEMMA OthersKeepClaims ==
  ASSUME TypeOK, Others
  PROVE  /\ \A u \in Users : ClaimKept(u)
         /\ UNCHANGED <<pc, list, todo, cur, swept>>
         /\ copy' = copy \/ (copy # Nil /\ copy' = [copy EXCEPT !.vol = "unbound"])
<1>1. CASE Tick \/ \E u \in Users : Visit(u) \/ HangUp(u) \/ ReconcileDelete(u) \/ DeleteByHand(u)
  <2>1. claim' = claim /\ UNCHANGED pass
    BY <1>1 DEF Tick, Visit, HangUp, ReconcileDelete, DeleteByHand
  <2> QED
    BY <2>1 DEF ClaimKept, pass
<1>2. ASSUME NEW u \in Users, Reconcile(u) \/ Seed(u) \/ Bind(u) \/ ClaimGone(u)
      PROVE  /\ \A v \in Users : ClaimKept(v)
             /\ UNCHANGED <<pc, list, todo, cur, swept>>
             /\ copy' = copy \/ (copy # Nil /\ copy' = [copy EXCEPT !.vol = "unbound"])
  <2>1. ASSUME NEW v \in Users, v # u
        PROVE  ClaimKept(v)
    <3>1. claim'[v] = claim[v]
      BY <1>2, <2>1 DEF Reconcile, Seed, Bind, ClaimGone, TypeOK
    <3> QED
      BY <3>1 DEF ClaimKept
  <2>2. ClaimKept(u)
    <3>1. CASE Reconcile(u)
      <4>1. PICK b \in BOOLEAN : \/ claim'[u] = claim[u]
                               \/ claim'[u] = [Ensured(u) EXCEPT !.used = b]
        <5>1. PICK p \in Rows(ws[u]) :
                claim' = IF ws[u].phase = "Failed" THEN claim
                         ELSE [claim EXCEPT ![u] =
                                [Ensured(u) EXCEPT
                                   !.used = @ \/ (p = "Starting" /\ ws[u].st = "live")]]
          BY <3>1 DEF Reconcile
        <5> DEFINE d == Ensured(u).used \/ (p = "Starting" /\ ws[u].st = "live")
        <5>2. d \in BOOLEAN
          OBVIOUS
        <5>3. claim'[u] = claim[u] \/ claim'[u] = [Ensured(u) EXCEPT !.used = d]
          BY <5>1 DEF TypeOK
        <5> HIDE DEF d
        <5> QED
          BY <5>2, <5>3
      <4>2. CASE claim'[u] = claim[u]
        BY <4>2 DEF ClaimKept
      <4>3. CASE claim[u] = Nil /\ claim'[u] = [NewClaim EXCEPT !.used = b]
        BY <4>3 DEF ClaimKept, NewClaim
      <4>4. CASE claim[u] # Nil /\ claim'[u] = [claim[u] EXCEPT !.used = b]
        <5>1. claim[u] \in Claim
          BY <4>4 DEF TypeOK
        <5>2. [claim[u] EXCEPT !.used = b] \in Claim
          BY <5>1, FieldsTyped
        <5>3. claim'[u] # Nil
          BY <4>4, <5>2, NilAssumption
        <5> QED
          BY <4>4, <5>1, <5>3 DEF ClaimKept, Claim
      <4> QED
        BY <4>1, <4>2, <4>3, <4>4 DEF Ensured
    <3>2. CASE Seed(u)
      BY <3>2 DEF Seed, ClaimKept, NewClaim, TypeOK
    <3>3. CASE Bind(u)
      <4>1. claim[u] \in Claim /\ claim'[u] = [claim[u] EXCEPT !.vol = "Retain"]
        BY <3>3 DEF Bind, TypeOK
      <4>2. claim'[u] # Nil
        <5>1. [claim[u] EXCEPT !.vol = "Retain"] \in Claim
          BY <4>1, FieldsTyped
        <5> QED
          BY <4>1, <5>1, NilAssumption
      <4> QED
        BY <3>3, <4>1, <4>2 DEF Bind, ClaimKept, Claim
    <3>4. CASE ClaimGone(u)
      BY <3>4 DEF ClaimGone, ClaimKept, TypeOK
    <3> QED
      BY <1>2, <3>1, <3>2, <3>3, <3>4
  <2>3. UNCHANGED <<pc, list, todo, cur, swept>>
    BY <1>2 DEF Reconcile, Seed, Bind, ClaimGone, pass
  <2>4. copy' = copy \/ (copy # Nil /\ copy' = [copy EXCEPT !.vol = "unbound"])
    BY <1>2 DEF Reconcile, Seed, Bind, ClaimGone, pass
  <2> QED
    BY <2>1, <2>2, <2>3, <2>4
<1> QED
  BY <1>1, <1>2 DEF Others

\* Everybody else leaves the order of release and stamp.
LEMMA OthersKeepRelease ==
  ASSUME TypeOK, ControlOK, CopyOK, StampFollowsRelease, Others
  PROVE  CopyOK' /\ StampFollowsRelease'
<1>1. /\ \A u \in Users : ClaimKept(u)
      /\ UNCHANGED <<pc, cur>>
      /\ copy' = copy \/ (copy # Nil /\ copy' = [copy EXCEPT !.vol = "unbound"])
  BY OthersKeepClaims
<1>2. StampFollowsRelease'
  BY <1>1 DEF StampFollowsRelease, ClaimKept
<1>3. ASSUME pc \in {"release", "stamp"}, copy'.vol # "unbound"
      PROVE  /\ claim'[cur] # Nil
             /\ pc = "stamp" /\ DeleteVolumeData => claim'[cur].vol = "Delete"
  <2>1. cur \in Users /\ copy \in Claim
    BY <1>3 DEF ControlOK
  <2>2. [copy EXCEPT !.vol = "unbound"].vol = "unbound"
    BY <2>1 DEF Claim
  <2>3. copy' = copy /\ copy' # [copy EXCEPT !.vol = "unbound"]
    BY <1>1, <1>3, <2>2
  <2>4. /\ claim[cur] # Nil
        /\ pc = "stamp" /\ DeleteVolumeData => claim[cur].vol = "Delete"
    BY <1>3, <2>3 DEF CopyOK
  <2>5. copy # Nil
    BY <2>1, NilAssumption
  <2>6. /\ claim'[cur] # Nil
        /\ claim[cur].vol # "unbound" => claim'[cur].vol = claim[cur].vol
    BY <1>1, <2>1, <2>3, <2>4, <2>5 DEF ClaimKept
  <2> QED
    BY <2>4, <2>6
<1>4. CopyOK'
  BY <1>1, <1>3 DEF CopyOK
<1> QED
  BY <1>2, <1>4

\* Each call of the Reclaimer keeps the order of release and stamp.
LEMMA ReclaimKeepsRelease ==
  ASSUME TypeOK, ControlOK, CopyOK, StampFollowsRelease, Reclaim \/ Crash
  PROVE  CopyOK' /\ StampFollowsRelease'
<1>1. CASE ListWorkspaces \/ ListClaims \/ Pick \/ EndPass \/ Crash
  <2>1. claim' = claim /\ pc' \notin {"release", "stamp"}
    BY <1>1 DEF ListWorkspaces, ListClaims, Pick, EndPass, Crash, Ended
  <2> QED
    BY <2>1 DEF CopyOK, StampFollowsRelease
<1>2. ASSUME NEW u \in Users, Sweep(u)
      PROVE  CopyOK' /\ StampFollowsRelease'
  <2>1. pc' \notin {"release", "stamp"}
    BY <1>2 DEF Sweep
  <2>2. ASSUME NEW v \in Users, claim'[v] # Nil
        PROVE  claim[v] # Nil /\ claim'[v].stamp = claim[v].stamp /\ claim'[v].vol = claim[v].vol
    BY <1>2, <2>2 DEF Sweep, Removed, TypeOK, Claim
  <2> QED
    BY <2>1, <2>2 DEF CopyOK, StampFollowsRelease
<1>3. ASSUME NEW u \in Users, GetClaim(u)
      PROVE  CopyOK' /\ StampFollowsRelease'
  <2>1. StampFollowsRelease'
    BY <1>3 DEF GetClaim, StampFollowsRelease
  <2>2. CopyOK'
    BY <1>3 DEF GetClaim, CopyOK
  <2> QED
    BY <2>1, <2>2
<1>4. CASE ReleaseVolume
  <2>1. cur \in Users /\ copy \in Claim /\ pc = "release"
    BY <1>4 DEF ReleaseVolume, ControlOK
  <2>2. CASE claim' = claim
    <3>1. StampFollowsRelease'
      BY <2>2 DEF StampFollowsRelease
    <3>2. CASE pc' = "next"
      BY <3>1, <3>2 DEF CopyOK
    <3>3. CASE pc' = "stamp" /\ claim[cur] = Nil /\ UNCHANGED <<cur, copy>>
      BY <2>1, <3>1, <3>3 DEF CopyOK
    <3>4. CASE pc' = "stamp" /\ claim[cur] # Nil /\ UNCHANGED <<cur, copy>>
      <4>1. claim[cur] = Released(claim[cur]) /\ claim[cur] \in Claim
        BY <1>4, <2>1, <2>2, <3>4 DEF ReleaseVolume, Onward, GiveUp, TypeOK
      <4>2. copy.vol # "unbound" /\ DeleteVolumeData => claim[cur].vol = "Delete"
        BY <4>1 DEF Released, Claim
      <4> QED
        BY <2>2, <3>1, <3>4, <4>2 DEF CopyOK
    <3> QED
      BY <1>4, <3>2, <3>3, <3>4 DEF ReleaseVolume, GiveUp, Onward
  <2>3. CASE /\ claim[cur] # Nil /\ pc' = "stamp" /\ UNCHANGED <<cur, copy>>
             /\ claim' = [claim EXCEPT ![cur] = Released(claim[cur])]
    <3>1. claim[cur] \in Claim /\ claim'[cur] = Released(claim[cur])
      BY <2>1, <2>3 DEF TypeOK
    <3>2. /\ Released(claim[cur]) \in Claim
          /\ Released(claim[cur]).stamp = claim[cur].stamp
          /\ claim[cur].vol = "Delete" => Released(claim[cur]).vol = "Delete"
          /\ DeleteVolumeData /\ copy.vol # "unbound" => Released(claim[cur]).vol = "Delete"
      BY <3>1 DEF Released, Claim
    <3>3. CopyOK'
      BY <2>3, <3>1, <3>2, NilAssumption DEF CopyOK
    <3>4. \A v \in Users : v # cur => claim'[v] = claim[v]
      BY <2>3 DEF TypeOK
    <3>5. StampFollowsRelease'
      BY <2>1, <2>3, <3>1, <3>2, <3>4 DEF StampFollowsRelease
    <3> QED
      BY <3>3, <3>5
  <2> QED
    BY <1>4, <2>2, <2>3 DEF ReleaseVolume, GiveUp
<1>5. CASE MarkReclaiming
  <2>1. cur \in Users /\ copy \in Claim /\ pc = "stamp"
    BY <1>5 DEF MarkReclaiming, ControlOK
  <2>2. CopyOK'
    BY <1>5 DEF MarkReclaiming, GiveUp, Onward, CopyOK
  <2>3. CASE claim' = claim
    BY <2>2, <2>3 DEF StampFollowsRelease
  <2>4. CASE claim[cur] # Nil /\ claim' = [claim EXCEPT ![cur] = Stamped(claim[cur])]
    <3>1. claim[cur] \in Claim /\ claim'[cur] = Stamped(claim[cur])
      BY <2>1, <2>4 DEF TypeOK
    <3>2. /\ Stamped(claim[cur]).vol = claim[cur].vol
          /\ Stamped(claim[cur]).stamp = "bound"
               => claim[cur].stamp = "bound" \/ copy.vol # "unbound"
      BY <2>1, <3>1 DEF Stamped, Claim
    <3>3. DeleteVolumeData /\ copy.vol # "unbound" => claim[cur].vol = "Delete"
      BY <2>1 DEF CopyOK
    <3>4. \A v \in Users : v # cur => claim'[v] = claim[v]
      BY <2>4 DEF TypeOK
    <3>5. StampFollowsRelease'
      BY <2>1, <2>4, <3>1, <3>2, <3>3, <3>4 DEF StampFollowsRelease
    <3> QED
      BY <2>2, <3>5
  <2> QED
    BY <1>5, <2>3, <2>4 DEF MarkReclaiming, GiveUp
<1>6. CASE DeleteWorkspace \/ DeleteClaim
  <2>1. pc' \notin {"release", "stamp"} /\ cur \in Users
    BY <1>6 DEF DeleteWorkspace, DeleteClaim, GiveUp, Onward, ControlOK
  <2>2. ASSUME NEW v \in Users, claim'[v] # Nil
        PROVE  claim[v] # Nil /\ claim'[v].stamp = claim[v].stamp /\ claim'[v].vol = claim[v].vol
    BY <1>6, <2>1, <2>2 DEF DeleteWorkspace, DeleteClaim, GiveUp, Removed, TypeOK, Claim
  <2> QED
    BY <2>1, <2>2 DEF CopyOK, StampFollowsRelease
<1> QED
  BY <1>1, <1>2, <1>3, <1>4, <1>5, <1>6 DEF Reclaim

-----------------------------------------------------------------------------
(* The orphan sweep.                                                       *)

\* What the sweep has still to delete is as it was listed: nobody else deletes
\* a claim, so none was replaced under its name.
SweepOK ==
  pc = "sweep" => \A u \in todo :
    claim[u] # Nil /\ claim[u].stamp # "no" /\ ~claim[u].del

\* Every step keeps what the sweep relies on.
LEMMA StepSweep ==
  ASSUME TypeOK, ControlOK, SweepOK, Reclaim \/ Crash \/ Others
  PROVE  SweepOK'
<1>1. CASE Others
  <2>1. /\ \A u \in Users : ClaimKept(u)
        /\ UNCHANGED <<pc, todo>>
    BY <1>1, OthersKeepClaims
  <2>2. todo \subseteq Users
    BY DEF TypeOK
  <2> QED
    BY <2>1, <2>2 DEF SweepOK, ClaimKept
<1>2. CASE ListClaims
  BY <1>2 DEF ListClaims, Ended, SweepOK, Orphan
<1>3. ASSUME NEW u \in Users, Sweep(u)
      PROVE  SweepOK'
  <2>1. \A v \in todo' : v \in todo /\ v # u
    BY <1>3 DEF Sweep
  <2>2. \A v \in Users : v # u => claim'[v] = claim[v]
    BY <1>3 DEF Sweep, Removed, TypeOK
  <2>3. todo \subseteq Users /\ pc = "sweep"
    BY <1>3 DEF TypeOK, Sweep
  <2> QED
    BY <2>1, <2>2, <2>3 DEF SweepOK
<1>4. CASE \/ ListWorkspaces \/ Pick \/ EndPass \/ Crash
           \/ ReleaseVolume \/ MarkReclaiming \/ DeleteWorkspace \/ DeleteClaim
           \/ \E u \in Users : GetClaim(u)
  <2>1. pc' # "sweep"
    BY <1>4 DEF ListWorkspaces, Pick, EndPass, Crash, Ended, ReleaseVolume,
       MarkReclaiming, DeleteWorkspace, DeleteClaim, GetClaim, GiveUp, Onward
  <2> QED
    BY <2>1 DEF SweepOK
<1> QED
  BY <1>1, <1>2, <1>3, <1>4 DEF Reclaim

\* A sweep deletes nothing that is unstamped.
LEMMA SweepSpares ==
  ASSUME TypeOK, SweepOK, [Next]_vars, NEW u \in Users,
         pc = "sweep", claim[u] # Nil, claim[u].stamp = "no", ~claim[u].del
  PROVE  claim'[u] # Nil /\ ~claim'[u].del
<1>1. CASE UNCHANGED vars
  BY <1>1 DEF vars
<1>2. CASE Others
  <2>1. ClaimKept(u)
    BY <1>2, OthersKeepClaims
  <2> QED
    BY <2>1 DEF ClaimKept
<1>3. ASSUME NEW v \in Users, Sweep(v)
      PROVE  claim'[u] # Nil /\ ~claim'[u].del
  <2>1. u # v
    BY <1>3 DEF Sweep, SweepOK
  <2> QED
    BY <1>3, <2>1 DEF Sweep, Removed, TypeOK
<1>4. CASE Pick \/ Crash
  BY <1>4 DEF Pick, Crash
<1>5. CASE \/ ListWorkspaces \/ ListClaims \/ EndPass
           \/ ReleaseVolume \/ MarkReclaiming \/ DeleteWorkspace \/ DeleteClaim
           \/ \E v \in Users : GetClaim(v)
  BY <1>5 DEF ListWorkspaces, ListClaims, EndPass, ReleaseVolume,
     MarkReclaiming, DeleteWorkspace, DeleteClaim, GetClaim
<1> QED
  BY <1>1, <1>2, <1>3, <1>4, <1>5 DEF Next, Reclaim, Others

-----------------------------------------------------------------------------
(* The target.                                                             *)

\* Whom this pass may still delete.
Victims == todo \cup (IF pc \in {"release", "stamp", "delws"} THEN {cur} ELSE {})

\* Unless somebody deletes by hand: whoever was listed is still there, and once
\* the pass has chosen, the Workspaces it leaves alone reach the target.
SpareOK ==
  deletes = 0 =>
    /\ pc \in {"claims", "sweep"} => Live \subseteq Present
    /\ pc \in {"next", "release", "stamp", "delws", "delclaim"} =>
         Cardinality(Present \ Victims) >= Target

\* All sets of users are finite, so they can be compared by size.
LEMMA Finite ==
  ASSUME NEW S, S \subseteq Users
  PROVE  /\ IsFiniteSet(S) /\ Cardinality(S) \in Nat
         /\ \A T \in SUBSET S : Cardinality(T) <= Cardinality(S)
BY ReclaimerAssumption, FS_Subset, FS_CardinalityType

\* A set stays above the target when it grows.
LEMMA MoreSpared ==
  ASSUME SpareOK, deletes = 0, UNCHANGED deletes,
         pc \in {"next", "release", "stamp", "delws", "delclaim"},
         Present \ Victims \subseteq (Present \ Victims)',
         (Present \ Victims)' \subseteq Users
  PROVE  Cardinality((Present \ Victims)') >= Target
<1> DEFINE A == Present \ Victims
           B == (Present \ Victims)'
<1>1. Cardinality(A) >= Target /\ A \subseteq B /\ B \subseteq Users
  BY DEF SpareOK
<1> HIDE DEF A, B
<1>2. Cardinality(A) \in Nat /\ Cardinality(B) \in Nat /\ Cardinality(A) <= Cardinality(B)
  BY <1>1, Finite
<1> QED
  BY <1>1, <1>2, ReclaimerAssumption DEF B

\* No step but a deletion takes a Workspace from the live ones.
LEMMA OnlyDeletionsTake ==
  ASSUME TypeOK, ControlOK, [Next]_vars
  PROVE  /\ deletes' \in Nat /\ deletes' >= deletes
         /\ deletes' = 0 => Present \subseteq Present' \/ (DeleteWorkspace /\ Present \subseteq Present' \cup {cur})
<1>0. deletes \in Nat
  BY ReclaimerAssumption DEF TypeOK
<1>1. CASE Tick
  <2>1. \A v \in Users : ws'[v].st = ws[v].st
    BY <1>1 DEF Tick, TypeOK, Workspace
  <2> QED
    BY <1>0, <1>1, <2>1 DEF Tick, Present
<1>2. ASSUME NEW u \in Users, Visit(u) \/ HangUp(u) \/ Reconcile(u) \/ ReconcileDelete(u)
      PROVE  Present \subseteq Present' /\ deletes' = deletes
  <2>1. \A v \in Users : v # u => ws'[v] = ws[v]
    BY <1>2 DEF Visit, HangUp, Reconcile, ReconcileDelete, TypeOK
  <2>2. ws[u].st = "live" => ws'[u].st = "live"
    BY <1>2 DEF Visit, HangUp, Reconcile, ReconcileDelete, TypeOK, Workspace
  <2>3. deletes' = deletes
    BY <1>2 DEF Visit, HangUp, Reconcile, ReconcileDelete
  <2> QED
    BY <2>1, <2>2, <2>3 DEF Present
<1>3. ASSUME NEW u \in Users, DeleteByHand(u)
      PROVE  deletes' \in Nat /\ deletes' >= deletes /\ deletes' # 0
  BY <1>0, <1>3 DEF DeleteByHand
<1>4. CASE DeleteWorkspace
  <2>1. deletes' = deletes /\ cur \in Users
    BY <1>4 DEF DeleteWorkspace, ControlOK
  <2>2. \A v \in Users : v # cur => ws'[v] = ws[v]
    BY <1>4, <2>1 DEF DeleteWorkspace, GiveUp, TypeOK
  <2>3. Present \subseteq Present' \cup {cur}
    BY <2>2 DEF Present
  <2> QED
    BY <1>0, <1>4, <2>1, <2>3
<1>5. CASE \/ ListWorkspaces \/ ListClaims \/ Pick \/ EndPass \/ Crash
           \/ ReleaseVolume \/ MarkReclaiming \/ DeleteClaim
           \/ \E u \in Users : Sweep(u) \/ GetClaim(u) \/ Seed(u) \/ Bind(u) \/ ClaimGone(u)
           \/ UNCHANGED vars
  <2>1. ws' = ws /\ deletes' = deletes
    BY <1>5 DEF ListWorkspaces, ListClaims, Pick, EndPass, Crash, ReleaseVolume,
       MarkReclaiming, DeleteClaim, GiveUp, Sweep, GetClaim, Seed, Bind, ClaimGone, vars
  <2> QED
    BY <1>0, <2>1 DEF Present
<1> QED
  BY <1>0, <1>1, <1>2, <1>3, <1>4, <1>5 DEF Next, Reclaim

\* From the choice to the end of a pass nobody becomes a victim.
LEMMA VictimsShrink ==
  ASSUME TypeOK, ControlOK, [Next]_vars,
         pc \in {"next", "release", "stamp", "delws", "delclaim"},
         pc' \in {"next", "release", "stamp", "delws", "delclaim"}
  PROVE  Victims' \subseteq Victims
<1>1. CASE Others
  BY <1>1, OthersKeepClaims DEF Victims
<1>2. CASE UNCHANGED vars
  BY <1>2 DEF vars, pass, Victims
<1>3. CASE ListWorkspaces \/ ListClaims \/ Pick \/ EndPass \/ Crash \/ \E u \in Users : Sweep(u)
  BY <1>3 DEF ListWorkspaces, ListClaims, Pick, EndPass, Crash, Ended, Sweep
<1>4. ASSUME NEW u \in Users, GetClaim(u)
      PROVE  Victims' \subseteq Victims
  BY <1>4 DEF GetClaim, Victims
<1>5. CASE ReleaseVolume
  BY <1>5 DEF ReleaseVolume, GiveUp, Onward, Victims
<1>6. CASE MarkReclaiming
  BY <1>6 DEF MarkReclaiming, GiveUp, Onward, Victims
<1>7. CASE DeleteWorkspace \/ DeleteClaim
  BY <1>7 DEF DeleteWorkspace, DeleteClaim, GiveUp, Onward, Victims
<1> QED
  BY <1>1, <1>2, <1>3, <1>4, <1>5, <1>6, <1>7 DEF Next, Reclaim, Others

\* A choice leaves as many of the listed as the target asks for.
LEMMA PickSpares ==
  ASSUME TypeOK, SpareOK, deletes = 0, Pick, pc' = "next"
  PROVE  Cardinality((Present \ Victims)') >= Target
<1>1. PICK S \in SUBSET Users : LeastRecent(S, Over) /\ todo' = S
  BY DEF Pick, Ended
<1>2. Over > 0 /\ ws' = ws /\ pc = "sweep"
  BY DEF Pick, Ended
<1>3. Live \subseteq Present /\ Present \subseteq Users
  BY <1>2 DEF SpareOK, Present
<1>4. (Present \ Victims)' = Present \ S
  BY <1>1, <1>2 DEF Present, Victims
<1>5. /\ Cardinality(Live) \in Nat /\ IsFiniteSet(Live) /\ Cardinality(S) \in Nat
      /\ Cardinality(Candidates) \in Nat
  BY <1>1, <1>3, Finite DEF Candidates
<1>6. Over = Cardinality(Live) - Target /\ Target \in Nat
  BY ReclaimerAssumption DEF Over
<1>7. Cardinality(S) <= Over
  BY <1>1, <1>5, <1>6 DEF LeastRecent
<1>8. Cardinality(Live \ S) = Cardinality(Live) - Cardinality(Live \cap S)
  BY <1>5, FS_Difference
<1>9. Cardinality(Live \cap S) \in Nat /\ Cardinality(Live \cap S) <= Cardinality(S)
  BY <1>1, Finite
<1>10. /\ Cardinality(Live \ S) \in Nat /\ Cardinality(Present \ S) \in Nat
       /\ Cardinality(Live \ S) <= Cardinality(Present \ S)
  <2>1. Live \ S \subseteq Present \ S /\ Present \ S \subseteq Users
    BY <1>3
  <2> QED
    BY <2>1, Finite
<1>11. Cardinality(Live \ S) >= Target
  BY <1>5, <1>6, <1>7, <1>8, <1>9
<1>12. Cardinality(Present \ S) >= Target
  BY <1>6, <1>10, <1>11
<1> QED
  BY <1>4, <1>12

\* Every step keeps what is spared.
LEMMA StepSpare ==
  ASSUME TypeOK, ControlOK, SpareOK, [Next]_vars
  PROVE  SpareOK'
<1> SUFFICES ASSUME deletes' = 0
             PROVE  /\ pc' \in {"claims", "sweep"} => Live' \subseteq Present'
                    /\ pc' \in {"next", "release", "stamp", "delws", "delclaim"} =>
                         Cardinality((Present \ Victims)') >= Target
  BY DEF SpareOK
<1>1. deletes = 0 /\ UNCHANGED deletes
  BY OnlyDeletionsTake, ReclaimerAssumption DEF TypeOK
<1>2. \/ Present \subseteq Present'
      \/ DeleteWorkspace /\ Present \subseteq Present' \cup {cur}
  BY OnlyDeletionsTake
<1>3. ASSUME pc' \in {"claims", "sweep"}
      PROVE  Live' \subseteq Present'
  <2>1. CASE ListWorkspaces
    BY <2>1 DEF ListWorkspaces, Live, Present
  <2>2. CASE ~ListWorkspaces
    <3>1. pc \in {"claims", "sweep"} /\ list' = list
      <4>1. CASE Others
        BY <1>3, <4>1, OthersKeepClaims
      <4>2. CASE UNCHANGED vars
        BY <1>3, <4>2 DEF vars, pass
      <4>3. CASE ListClaims \/ \E u \in Users : Sweep(u)
        BY <1>3, <4>3 DEF ListClaims, Sweep, Ended
      <4>4. CASE \/ Pick \/ EndPass \/ Crash \/ ReleaseVolume \/ MarkReclaiming
                 \/ DeleteWorkspace \/ DeleteClaim \/ \E u \in Users : GetClaim(u)
        BY <1>3, <4>4 DEF Pick, EndPass, Crash, Ended, ReleaseVolume, MarkReclaiming,
           DeleteWorkspace, DeleteClaim, GetClaim, GiveUp, Onward
      <4> QED
        BY <2>2, <4>1, <4>2, <4>3, <4>4 DEF Next, Reclaim, Others
    <3>2. Live' = Live /\ Live \subseteq Present
      BY <1>1, <3>1 DEF Live, SpareOK
    <3>3. ~DeleteWorkspace
      BY <3>1 DEF DeleteWorkspace
    <3> QED
      BY <1>2, <3>2, <3>3
  <2> QED
    BY <2>1, <2>2
<1>4. ASSUME pc' \in {"next", "release", "stamp", "delws", "delclaim"}
      PROVE  Cardinality((Present \ Victims)') >= Target
  <2>1. CASE Pick
    BY <1>1, <1>4, <2>1, PickSpares DEF Pick, Ended
  <2>2. CASE ~Pick
    <3>1. pc \in {"next", "release", "stamp", "delws", "delclaim"}
      <4>1. CASE Others
        BY <1>4, <4>1, OthersKeepClaims
      <4>2. CASE UNCHANGED vars
        BY <1>4, <4>2 DEF vars, pass
      <4>3. CASE \/ ListWorkspaces \/ ListClaims \/ EndPass \/ Crash
                 \/ \E u \in Users : Sweep(u)
        BY <1>4, <4>3 DEF ListWorkspaces, ListClaims, EndPass, Crash, Sweep, Ended
      <4>4. CASE \/ ReleaseVolume \/ MarkReclaiming
                 \/ DeleteWorkspace \/ DeleteClaim \/ \E u \in Users : GetClaim(u)
        BY <4>4 DEF ReleaseVolume, MarkReclaiming, DeleteWorkspace, DeleteClaim, GetClaim
      <4> QED
        BY <2>2, <4>1, <4>2, <4>3, <4>4 DEF Next, Reclaim, Others
    <3>2. Victims' \subseteq Victims
      BY <1>4, <3>1, VictimsShrink
    <3>3. Present \ Victims \subseteq Present'
      <4>1. DeleteWorkspace => cur \in Victims
        BY DEF DeleteWorkspace, Victims
      <4> QED
        BY <1>2, <4>1
    <3>4. Present \ Victims \subseteq (Present \ Victims)'
      BY <3>2, <3>3
    <3>5. (Present \ Victims)' \subseteq Users
      BY DEF Present
    <3> QED
      BY <1>1, <3>1, <3>4, <3>5, MoreSpared
  <2> QED
    BY <2>1, <2>2
<1> QED
  BY <1>3, <1>4

-----------------------------------------------------------------------------
(* Theorems.                                                               *)

Inv == TypeOK /\ ControlOK /\ CopyOK /\ StampFollowsRelease /\ SweepOK /\ SpareOK

\* The invariant is inductive.
LEMMA Inductive ==
  /\ Init => Inv
  /\ Inv /\ [Next]_vars => Inv'
<1>1. ASSUME Init PROVE Inv
  <2>1. TypeOK /\ ControlOK
    BY <1>1, InitTyped
  <2>2. CopyOK /\ StampFollowsRelease /\ SweepOK /\ SpareOK
    BY <1>1 DEF Init, CopyOK, StampFollowsRelease, SweepOK, SpareOK
  <2> QED
    BY <2>1, <2>2 DEF Inv
<1>2. ASSUME Inv, [Next]_vars PROVE Inv'
  <2> USE <1>2
  <2>1. TypeOK /\ ControlOK /\ CopyOK /\ StampFollowsRelease /\ SweepOK /\ SpareOK
    BY DEF Inv
  <2>2. TypeOK' /\ ControlOK'
    BY <2>1, StepTyped
  <2>3. SpareOK'
    BY <2>1, StepSpare
  <2>4. CASE UNCHANGED vars
    BY <2>1, <2>2, <2>3, <2>4 DEF vars, pass, Inv, CopyOK, StampFollowsRelease, SweepOK
  <2>5. CASE Reclaim \/ Crash \/ Others
    <3>1. CopyOK' /\ StampFollowsRelease'
      BY <2>1, <2>5, OthersKeepRelease, ReclaimKeepsRelease
    <3>2. SweepOK'
      BY <2>1, <2>5, StepSweep
    <3> QED
      BY <2>2, <2>3, <3>1, <3>2 DEF Inv
  <2> QED
    BY <2>4, <2>5 DEF Next, Others
<1> QED
  BY <1>1, <1>2

\* The objects and what a pass remembers of them have the types declared for
\* them, whatever fails or dies in between.
THEOREM ReclaimerTypes == Spec => []TypeOK
<1>1. Inv => TypeOK
  BY DEF Inv
<1> QED
  BY <1>1, Inductive, PTL DEF Spec

\* For any users, faults and crashes: with deleteVolumeData a claim stamped with
\* a bound volume has that volume released, so whoever deletes the claim later
\* frees the disk.
THEOREM ReleasedBeforeStamp == Spec => []StampFollowsRelease
<1>1. Inv => StampFollowsRelease
  BY DEF Inv
<1> QED
  BY <1>1, Inductive, PTL DEF Spec

\* For any users: no step of a sweep, nor anything that happens beside it,
\* deletes a claim that carries no stamp and that nobody used yet.
THEOREM SeededSurvives == Spec => SeededClaimSurvives
<1>1. Inv /\ [Next]_vars
        => [\A u \in Users :
              /\ pc = "sweep"
              /\ claim[u] # Nil /\ claim[u].stamp = "no" /\ ~claim[u].used /\ ~claim[u].del
              => claim'[u] # Nil /\ ~claim'[u].del]_vars
  BY SweepSpares DEF Inv
<1> QED
  BY <1>1, Inductive, PTL DEF Spec, SeededClaimSurvives

\* For any users and target: as long as nobody deletes by hand, a step that
\* leaves fewer live Workspaces leaves at least targetWorkspaces of them, over
\* any number of passes, faults and crashes.
THEOREM TargetKept == Spec => NeverBelowTarget
<1>1. ASSUME Inv, [Next]_vars, deletes' = 0, Cardinality(Present') < Cardinality(Present)
      PROVE  Cardinality(Present') >= Target
  <2>1. TypeOK /\ ControlOK /\ SpareOK
    BY <1>1 DEF Inv
  <2>2. deletes = 0
    BY <1>1, <2>1, OnlyDeletionsTake, ReclaimerAssumption DEF TypeOK
  <2>3. Present \subseteq Users /\ Present' \subseteq Users
    BY DEF Present
  <2>4. /\ Cardinality(Present) \in Nat /\ Cardinality(Present') \in Nat
        /\ Present \subseteq Present' => Cardinality(Present) <= Cardinality(Present')
    BY <2>3, Finite
  <2>5. DeleteWorkspace /\ Present \subseteq Present' \cup {cur}
    BY <1>1, <2>1, <2>4, OnlyDeletionsTake
  <2>6. pc = "delws" /\ cur \in Victims
    BY <2>5 DEF DeleteWorkspace, Victims
  <2>7. Cardinality(Present \ Victims) >= Target
    BY <2>1, <2>2, <2>6 DEF SpareOK
  <2>8. Present \ Victims \subseteq Present'
    BY <2>5, <2>6
  <2>9. /\ Cardinality(Present \ Victims) \in Nat
        /\ Cardinality(Present \ Victims) <= Cardinality(Present')
    BY <2>3, <2>8, Finite
  <2> QED
    BY <2>4, <2>7, <2>9, ReclaimerAssumption
<1>2. Inv /\ [Next]_vars
        => [deletes' = 0 /\ Cardinality(Present') < Cardinality(Present)
              => Cardinality(Present') >= Target]_vars
  BY <1>1
<1> QED
  BY <1>2, Inductive, PTL DEF Spec, NeverBelowTarget
=============================================================================
