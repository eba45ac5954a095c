---------------------------- MODULE StorageProofs ----------------------------
(***************************************************************************)
(* Theorems about the size of a user's volume, for any sizes and classes:  *)
(* types, and that a pass that is up to date lowers nothing.               *)
(***************************************************************************)
EXTENDS Storage, TLAPS

-----------------------------------------------------------------------------
(* The baseline.                                                           *)

\* raiseLargestObserved only raises, and touches nothing else.
LEMMA RaiseOnly ==
  ASSUME NEW st \in Workspaces, NEW size \in 0..MaxSize
  PROVE  LET new == raiseLargestObserved(st, size) IN
         new \in Workspaces /\ new.largest >= st.largest
BY StorageAssumption DEF raiseLargestObserved, Workspaces

\* The capacity of a claim goes into the baseline, if it has one.
LEMMA ObserveOnlyRaises ==
  ASSUME NEW st \in Workspaces, NEW c \in Claims
  PROVE  Observe(st, c) \in Workspaces /\ Observe(st, c).largest >= st.largest
<1>1. c.cap \in 0..MaxSize
  BY DEF Claims
<1>2. CASE Bound(c)
  BY <1>1, <1>2, RaiseOnly DEF Observe
<1>3. CASE ~Bound(c)
  BY <1>3, StorageAssumption DEF Observe, Workspaces
<1> QED
  BY <1>2, <1>3

-----------------------------------------------------------------------------
(* What a pass leaves.                                                     *)

\* An outcome of the storage part of a pass over the copy st.
Outcome(st, out) ==
  /\ out.st \in Workspaces /\ out.st.largest >= st.largest
  /\ out.claim \in Claims \cup {Nil}
  /\ out.ok \in BOOLEAN
  /\ seen.claim = claim /\ claim # Nil => out.claim # Nil /\ out.claim.req >= claim.req

\* Creating a claim does nothing to one that is there.
LEMMA CreateClaimOutcome ==
  ASSUME TypeOK, NEW st \in Workspaces, seen.claim = Nil
  PROVE  Outcome(st, CreateClaim(st))
<1> DEFINE raised == raiseLargestObserved(st, seen.app.size)
           new == IF claim = Nil
                  THEN [req |-> seen.app.size, cap |-> 0, class |-> seen.app.class]
                  ELSE claim
<1>1. seen.app \in Apps
  BY DEF TypeOK
<1>2. raised \in Workspaces /\ raised.largest >= st.largest
  BY <1>1, RaiseOnly, StorageAssumption DEF Apps, Sizes
<1>3. new \in Claims \cup {Nil} /\ (claim # Nil => new = claim)
  BY <1>1, StorageAssumption DEF TypeOK, Apps, Claims, Sizes
<1> DEFINE left == [raised EXCEPT !.drift = FALSE]
<1>4. CreateClaim(st) = Done(left, new)
  BY DEF CreateClaim
<1> HIDE DEF raised, new
<1>5. left \in Workspaces /\ left.largest = raised.largest
  BY <1>2 DEF Workspaces
<1> HIDE DEF left
<1>6. claim # Nil => claim.req >= claim.req
  BY StorageAssumption DEF TypeOK, Claims, Sizes
<1> QED
  BY <1>2, <1>3, <1>4, <1>5, <1>6 DEF Outcome, Done

\* A call that fails, and a refusal, leave the claim and the baseline.
LEMMA FailedOutcome ==
  ASSUME TypeOK, NEW st \in Workspaces
  PROVE  Outcome(st, Failed(st)) /\ Outcome(st, Done(st, claim))
<1>1. claim # Nil => claim.req >= claim.req
  BY StorageAssumption DEF TypeOK, Claims, Sizes
<1>2. st.largest >= st.largest
  BY StorageAssumption DEF Workspaces
<1> QED
  BY <1>1, <1>2 DEF TypeOK, Outcome, Failed, Done

\* The patch of the request: only from a copy whose request is smaller.
LEMMA RaiseClaimOutcome ==
  ASSUME TypeOK, NEW st \in Workspaces, seen.claim # Nil,
         seen.app.size > seen.claim.req, NEW out \in RaiseClaim(st)
  PROVE  Outcome(st, out)
<1> DEFINE size == seen.app.size
           larger == [raiseLargestObserved(st, size) EXCEPT !.drift = FALSE]
           raised == [claim EXCEPT !.req = size]
<1>1. CASE out = Failed(st)
  BY <1>1, FailedOutcome
<1>2. CASE claim # Nil /\ out = Done(Observe(larger, raised), raised)
  <2>1. size \in Sizes /\ claim \in Claims
    BY <1>2 DEF TypeOK, Apps
  <2>2. raised \in Claims /\ raised.req = size
    BY <2>1 DEF Claims
  <2>3. /\ raiseLargestObserved(st, size) \in Workspaces
        /\ raiseLargestObserved(st, size).largest >= st.largest
    BY <2>1, RaiseOnly, StorageAssumption DEF Sizes
  <2>4. larger \in Workspaces /\ larger.largest >= st.largest
    BY <2>3 DEF Workspaces
  <2> HIDE DEF larger, raised
  <2>5. /\ Observe(larger, raised) \in Workspaces
        /\ Observe(larger, raised).largest >= larger.largest
    BY <2>2, <2>4, ObserveOnlyRaises
  <2>6. Observe(larger, raised).largest >= st.largest
    BY <2>4, <2>5, StorageAssumption DEF Workspaces
  <2>7. seen.claim = claim => size >= claim.req
    BY <2>1, StorageAssumption DEF Claims, Sizes
  <2>8. Nil # raised
    BY <2>2, NilAssumption
  <2> QED
    BY <1>2, <2>1, <2>2, <2>5, <2>6, <2>7, <2>8 DEF Outcome, Done
<1> QED
  BY <1>1, <1>2 DEF RaiseClaim

\* A comparison writes conditions and what the copy has, and no claim.
LEMMA CompareClaimOutcome ==
  ASSUME TypeOK, NEW st \in Workspaces, seen.claim # Nil
  PROVE  Outcome(st, CompareClaim(st))
<1> DEFINE size == seen.app.size
           drift == CASE size = seen.claim.req -> seen.app.class # seen.claim.class
                      [] size < seen.claim.req -> TRUE
                      [] OTHER -> st.drift
           marked == [st EXCEPT !.drift = drift]
<1>1. seen.claim \in Claims /\ size \in Sizes
  BY DEF TypeOK, Apps
<1>2. seen.claim.req \in Nat /\ size \in Nat
  BY <1>1, StorageAssumption DEF Claims, Sizes
<1>3. st.drift \in BOOLEAN
  BY DEF Workspaces
<1>4. drift \in BOOLEAN
  <2>1. CASE size = seen.claim.req
    BY <2>1
  <2>2. CASE size < seen.claim.req
    BY <2>2, <1>2
  <2>3. CASE ~(size = seen.claim.req) /\ ~(size < seen.claim.req)
    BY <2>3, <1>3
  <2> QED
    BY <2>1, <2>2, <2>3
<1>5. CompareClaim(st) = Done(Observe(marked, seen.claim), claim)
  BY DEF CompareClaim
<1> HIDE DEF drift
<1>6. marked \in Workspaces /\ marked.largest = st.largest
  BY <1>4 DEF Workspaces
<1> HIDE DEF marked
<1>7. /\ Observe(marked, seen.claim) \in Workspaces
      /\ Observe(marked, seen.claim).largest >= st.largest
  BY <1>1, <1>6, ObserveOnlyRaises
<1>8. claim # Nil => claim.req >= claim.req
  BY StorageAssumption DEF TypeOK, Claims, Sizes
<1> QED
  BY <1>5, <1>7, <1>8 DEF Outcome, Done, TypeOK

\* A status that differs in its conditions alone has the same baseline.
LEMMA ReconcileOutcome ==
  ASSUME TypeOK, seen.ws # Nil, NEW fault, NEW out \in reconcilePVC(seen.ws, fault)
  PROVE  Outcome(seen.ws, out)
<1> DEFINE st == seen.ws
           refused == [st EXCEPT !.shrink = TRUE]
           allowed == [st EXCEPT !.shrink = FALSE]
<1>1. st \in Workspaces
  BY DEF TypeOK
<1>2. /\ refused \in Workspaces /\ refused.largest = st.largest
      /\ allowed \in Workspaces /\ allowed.largest = st.largest
  BY <1>1 DEF Workspaces
<1>3. out = Done(refused, claim) \/ out \in EnsureClaim(allowed, fault)
  BY DEF reconcilePVC
<1> HIDE DEF refused, allowed
<1>4. CASE out = Done(refused, claim)
  <2>1. Outcome(refused, out)
    BY <1>2, <1>4, FailedOutcome
  <2> QED
    BY <1>2, <2>1 DEF Outcome
<1>5. CASE out \in EnsureClaim(allowed, fault)
  <2>1. Outcome(allowed, out)
    <3>1. CASE fault = "call"
      BY <1>2, <1>5, <3>1, FailedOutcome DEF EnsureClaim
    <3>2. CASE fault # "call" /\ seen.claim = Nil
      BY <1>2, <1>5, <3>2, CreateClaimOutcome DEF EnsureClaim
    <3>3. CASE fault # "call" /\ seen.claim # Nil
      <4>1. out \in reconcileExistingPVC(allowed)
        BY <1>5, <3>3 DEF EnsureClaim
      <4> QED
        BY <1>2, <3>3, <4>1, RaiseClaimOutcome, CompareClaimOutcome DEF reconcileExistingPVC
    <3> QED
      BY <3>1, <3>2, <3>3
  <2> QED
    BY <1>2, <2>1 DEF Outcome
<1> QED
  BY <1>3, <1>4, <1>5

\* The merge patch takes what it changes from the pass and the rest from what
\* is there; against an up to date copy it writes the baseline of the pass.
LEMMA PatchedIsTyped ==
  ASSUME NEW new \in Workspaces, ws \in Workspaces, seen.ws \in Workspaces
  PROVE  /\ Patched(new) \in Workspaces
         /\ seen.ws = ws => Patched(new).largest = new.largest
<1> DEFINE from == IF <<new.shrink, new.drift>> # <<seen.ws.shrink, seen.ws.drift>>
                   THEN new ELSE ws
           most == IF new.largest # seen.ws.largest THEN new.largest ELSE ws.largest
<1>1. Patched(new) = [largest |-> most, shrink |-> from.shrink, drift |-> from.drift]
  BY DEF Patched
<1>2. from \in Workspaces
  BY DEF Workspaces
<1>3. most \in 0..MaxSize /\ (seen.ws = ws => most = new.largest)
  BY DEF Workspaces
<1> HIDE DEF from, most
<1> QED
  BY <1>1, <1>2, <1>3 DEF Workspaces

-----------------------------------------------------------------------------
(* A pass.                                                                 *)

\* What a pass does to the Workspace, the claim and the queue.
LEMMA PassOutcome ==
  ASSUME TypeOK, NEW fault, Pass(fault)
  PROVE  /\ ws' \in Workspaces \cup {Nil}
         /\ claim' \in Claims \cup {Nil}
         /\ queued' \in BOOLEAN
         /\ seen.claim = claim /\ claim # Nil => claim' # Nil /\ claim'.req >= claim.req
         /\ seen.ws = ws /\ ws # Nil => ws' # Nil /\ ws'.largest >= ws.largest
<1>1. /\ claim # Nil => claim.req >= claim.req
      /\ ws # Nil => ws.largest >= ws.largest
  BY StorageAssumption DEF TypeOK, Claims, Workspaces, Sizes
<1>2. CASE seen.ws = Nil
  BY <1>1, <1>2 DEF Pass, TypeOK
<1>3. CASE seen.ws # Nil
  <2> DEFINE lost(out) == out.st # seen.ws /\ (ws = Nil \/ fault = "patch")
  <2>1. PICK out \in reconcilePVC(seen.ws, fault) :
          /\ claim' = out.claim
          /\ ws' = IF out.st = seen.ws \/ lost(out) THEN ws ELSE Patched(out.st)
          /\ queued' = (lost(out) \/ ~out.ok)
    BY <1>3 DEF Pass
  <2>2. Outcome(seen.ws, out)
    BY <1>3, ReconcileOutcome
  <2>3. /\ claim' \in Claims \cup {Nil}
        /\ seen.claim = claim /\ claim # Nil => claim' # Nil /\ claim'.req >= claim.req
    BY <2>1, <2>2 DEF Outcome
  <2>4. queued' \in BOOLEAN
    BY <2>1
  <2>5. CASE ws' = ws
    BY <1>1, <2>3, <2>4, <2>5 DEF TypeOK
  <2>6. CASE ws # Nil /\ ws' = Patched(out.st)
    <3>1. ws \in Workspaces /\ seen.ws \in Workspaces /\ out.st \in Workspaces
      BY <1>3, <2>2, <2>6 DEF TypeOK, Outcome
    <3>2. /\ ws' \in Workspaces
          /\ seen.ws = ws => ws'.largest = out.st.largest
      BY <2>6, <3>1, PatchedIsTyped
    <3>3. seen.ws = ws => ws'.largest >= ws.largest
      BY <2>2, <3>2 DEF Outcome
    <3>4. ws' # Nil
      BY <3>2, NilAssumption
    <3> QED
      BY <2>3, <2>4, <3>2, <3>3, <3>4
  <2> QED
    BY <2>1, <2>5, <2>6
<1> QED
  BY <1>2, <1>3

\* Every step keeps the types.
LEMMA StepTyped ==
  ASSUME TypeOK, [Next]_vars
  PROVE  TypeOK'
<1> USE StorageAssumption DEF TypeOK
<1>1. ASSUME NEW a \in Apps, EditApp(a) \/ RecreateApp(a)
      PROVE  TypeOK'
  BY <1>1 DEF EditApp, RecreateApp, Change
<1>2. CASE CreateWorkspace
  <2>1. ws' \in Workspaces
    BY <1>2 DEF CreateWorkspace, Workspaces
  <2> QED
    BY <1>2, <2>1 DEF CreateWorkspace
<1>3. CASE DeleteWorkspace
  BY <1>3 DEF DeleteWorkspace, Change
<1>4. CASE DeleteClaim
  BY <1>4 DEF DeleteClaim, Change
<1>5. CASE Provision
  <2>1. claim' \in Claims
    BY <1>5 DEF Provision, Claims, Sizes
  <2> QED
    BY <1>5, <2>1 DEF Provision
<1>6. CASE DeliverApp
  BY <1>6 DEF DeliverApp
<1>7. CASE DeliverClaim
  BY <1>7 DEF DeliverClaim
<1>8. CASE DeliverWorkspace
  BY <1>8 DEF DeliverWorkspace
<1>9. CASE Resync
  BY <1>9 DEF Resync
<1>10. ASSUME NEW fault \in {"none", "call", "patch"}, Pass(fault)
       PROVE  TypeOK'
  <2>1. /\ ws' \in Workspaces \cup {Nil}
        /\ claim' \in Claims \cup {Nil}
        /\ queued' \in BOOLEAN
    BY <1>10, PassOutcome
  <2>2. faults' \in 0..MaxFaults
    BY <1>10 DEF Pass
  <2> QED
    BY <1>10, <2>1, <2>2 DEF Pass
<1>11. CASE UNCHANGED vars
  BY <1>11 DEF vars
<1> QED
  BY <1>1, <1>2, <1>3, <1>4, <1>5, <1>6, <1>7, <1>8, <1>9, <1>10, <1>11 DEF Next

\* A step that leaves the up to date copies alone lowers nothing.
LEMMA StepLowersNothing ==
  ASSUME TypeOK, [Next]_vars,
         seen = [app |-> app, ws |-> ws, claim |-> claim], seen' = seen
  PROVE  /\ claim # Nil /\ claim' # Nil => claim'.req >= claim.req
         /\ ws # Nil /\ ws' # Nil => ws'.largest >= ws.largest
<1>1. /\ claim # Nil => claim.req >= claim.req
      /\ ws # Nil => ws.largest >= ws.largest
  BY StorageAssumption DEF TypeOK, Claims, Workspaces, Sizes
<1>2. seen.ws = ws /\ seen.claim = claim
  OBVIOUS
<1>3. ASSUME NEW fault \in {"none", "call", "patch"}, Pass(fault)
      PROVE  /\ claim # Nil => claim'.req >= claim.req
             /\ ws # Nil => ws'.largest >= ws.largest
  BY <1>2, <1>3, PassOutcome
<1>4. CASE Provision
  BY <1>1, <1>4 DEF Provision, TypeOK, Claims
<1>5. CASE \/ \E a \in Apps : EditApp(a) \/ RecreateApp(a)
           \/ CreateWorkspace \/ DeleteWorkspace \/ DeleteClaim
           \/ DeliverApp \/ DeliverClaim \/ DeliverWorkspace \/ Resync
           \/ UNCHANGED vars
  BY <1>1, <1>5 DEF EditApp, RecreateApp, CreateWorkspace, DeleteWorkspace,
     DeleteClaim, DeliverApp, DeliverClaim, DeliverWorkspace, Resync, vars
<1> QED
  BY <1>3, <1>4, <1>5 DEF Next

-----------------------------------------------------------------------------
(* Theorems.                                                               *)

\* The sizes, the conditions, the claim and the three copies have the types
\* declared for them, whatever is edited, recreated, deleted or lost.
THEOREM StorageTypes == Spec => []TypeOK
<1>1. Init => TypeOK
  <2> SUFFICES ASSUME Init PROVE TypeOK
    OBVIOUS
  <2>1. seen \in [app: Apps, ws: Workspaces \cup {Nil}, claim: Claims \cup {Nil}]
    BY DEF Init
  <2>2. 0 \in 0..MaxChanges /\ 0 \in 0..MaxFaults
    BY StorageAssumption
  <2>3. queued \in BOOLEAN
    BY DEF Init
  <2> QED
    BY <2>1, <2>2, <2>3 DEF Init, TypeOK
<1>2. TypeOK /\ [Next]_vars => TypeOK'
  BY StepTyped
<1> QED
  BY <1>1, <1>2, PTL DEF Spec

\* For any sizes, classes and bounds: a pass whose copies are up to date lowers
\* neither the claim's request nor the baseline that later specs are refused
\* against.
THEOREM PassLowersNothing == Spec => NothingLowered
<1>1. TypeOK /\ [Next]_vars
        => [seen = [app |-> app, ws |-> ws, claim |-> claim] /\ seen' = seen
              => /\ claim # Nil /\ claim' # Nil => claim'.req >= claim.req
                 /\ ws # Nil /\ ws' # Nil => ws'.largest >= ws.largest]_vars
  BY StepLowersNothing
<1> QED
  BY <1>1, StorageTypes, PTL DEF Spec, NothingLowered
=============================================================================
