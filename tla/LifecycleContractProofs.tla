------------------------ MODULE LifecycleContractProofs ------------------------
(***************************************************************************)
(* Theorems about the phases of a Workspace and the Admitter, for every    *)
(* set of users, every value of the bounds and every lag of the informer.  *)
(* They rest on one lemma, ReconcileRow: what a pass does to phase,        *)
(* scale-down, backoff and Deployment, whatever copy of the Workspace it   *)
(* read.  One part of StartsBounded is about an informer that keeps up,    *)
(* MaxLag = 1; the invariant of the section of that name is for it alone.  *)
(***************************************************************************)
EXTENDS WorkspaceLifecycleProofs, FiniteSetTheorems

-----------------------------------------------------------------------------
(* Ambiguous volumes.                                                      *)

\* A pass that finds two claims leaves the Deployment as it is.
LEMMA AmbiguousPass ==
  ASSUME TypeOK, NEW u \in Users, Reconcile(u), Ambiguous(u)
  PROVE  dep' = [dep EXCEPT ![u] = dep[u]]
<1>1. ASSUME NEW st, NEW v, NEW again,
             Conclude(u, st, dep[u], v, again) \/ Interrupted(u, st, dep[u], v)
      PROVE  dep' = [dep EXCEPT ![u] = dep[u]]
  BY <1>1 DEF Conclude, Interrupted, Finish
<1>2. CASE ReconcileFinalizer(u)
  BY <1>2 DEF ReconcileFinalizer, Finish
<1>3. CASE ReconcileNew(u) \/ ReconcileFailed(u)
  BY <1>1, <1>3 DEF ReconcileNew, ReconcileFailed
<1>4. CASE ReconcilePending(u)
  <2>1. \/ Finish(u, ws[u], dep[u], volume[u], TRUE)
        \/ Conclude(u, RefusedPending(cache[u]), dep[u], volume[u], FALSE)
    BY <1>4 DEF ReconcilePending
  <2> QED
    BY <1>1, <2>1 DEF Finish
<1>5. CASE ReconcileStarting(u) \/ ReconcileReady(u) \/ ReconcileIdle(u)
  <2>1. StorageRefused(u)
    BY <1>5 DEF ReconcileStarting, ReconcileReady, ReconcileIdle, StorageThenError
  <2> QED
    BY <1>1, <2>1 DEF StorageRefused
<1> QED
  BY <1>2, <1>3, <1>4, <1>5 DEF Reconcile

\* NoStartOnAmbiguousVolume, for every set of users, every lag of the informer
\* and any number of errors, crashes and edits: every row of Reconcile asks
\* reconcilePVC before it touches the Deployment, and nobody else sets replicas
\* or the template.
THEOREM AmbiguousStaysDown == Spec => NoStartOnAmbiguousVolume
<1> DEFINE Held == \A u \in Users :
                     volume[u] = "many" => /\ dep'[u].replicas <= dep[u].replicas
                                           /\ dep'[u].ver = dep[u].ver
<1>1. TypeOK /\ [Next]_vars => [Held]_vars
  <2> SUFFICES ASSUME TypeOK, Next PROVE Held
    OBVIOUS
  <2>1. \A u \in Users : dep[u] \in Deployments /\ dep[u].replicas <= dep[u].replicas
    BY DEF TypeOK, Deployments
  <2>2. ASSUME UNCHANGED dep
        PROVE  Held
    BY <2>1, <2>2
  <2>3. ASSUME NEW u \in Users, Reconcile(u)
        PROVE  Held
    <3>1. \A w \in Users \ {u} : dep'[w] = dep[w]
      <4>1. PICK obj \in Workspace, d \in Deployments, v \in {"absent", "one", "many"},
                 again \in BOOLEAN : Finish(u, obj, d, v, again)
        BY <2>3, ReconcileIsPass DEF PassEnds
      <4> QED
        BY <4>1 DEF Finish, TypeOK
    <3>2. volume[u] = "many" => dep'[u] = dep[u]
      BY <2>3, AmbiguousPass DEF Ambiguous, TypeOK
    <3> QED
      BY <2>1, <3>1, <3>2
  <2>4. ASSUME NEW u \in Users, Cluster(u)
        PROVE  Held
    <3>1. CASE DeploymentStatus(u)
      <4>1. \A w \in Users : dep'[w].replicas = dep[w].replicas /\ dep'[w].ver = dep[w].ver
        BY <2>1, <3>1 DEF DeploymentStatus, TypeOK, Deployments
      <4> QED
        BY <2>1, <4>1
    <3>2. CASE UNCHANGED dep
      BY <2>2, <3>2
    <3> QED
      BY <2>4, <3>1, <3>2
         DEF Cluster, PodCreated, PodStops, PodGone, PodStuck, PodReady, PodLost,
             DuplicateClaim, RemoveDuplicate, SetPod
  <2>5. ASSUME NEW u \in Users, ReapWrite(u) \/ SweepOne(u) \/ Router(u)
        PROVE  Held
    BY <2>2, <2>5, RouterWrites DEF ReapWrite, SweepOne, infra
  <2>6. CASE Deliver \/ Resync \/ ReapList \/ Crash \/ Start \/ SweepList
             \/ EditApp \/ MigrationEnds \/ Tick
    BY <2>2, <2>6 DEF Deliver, Resync, ReapList, Crash, Start, SweepList, EditApp,
                      MigrationEnds, Tick, infra
  <2> QED
    BY <2>3, <2>4, <2>5, <2>6 DEF Next
<1> QED
  BY <1>1, TypeCorrect, PTL DEF Spec, NoStartOnAmbiguousVolume

-----------------------------------------------------------------------------
(* What a pass does, whatever copy it read.                                *)

\* Two Workspaces agree in what the rows of the switch are about.
Like(w, x) ==
  w.phase = x.phase /\ w.scaledDown = x.scaledDown /\ w.backoff = x.backoff

Keeps(w, x) == w.scaledDown = x.scaledDown /\ w.backoff = x.backoff

\* A start's Deployment: it asks for a pod, unless it was created from a copy that
\* says scaled down.
Raised(u, d) ==
  /\ d.exists
  /\ d.ready = (dep[u].exists /\ dep[u].ready)
  /\ d.replicas = 1 \/ (~dep[u].exists /\ cache[u].scaledDown)

\* A scale-down's.
Lowered(u, d) ==
  /\ d.exists = dep[u].exists /\ d.ready = dep[u].ready
  /\ IF dep[u].exists THEN d.replicas = 0 ELSE d = dep[u]

\* The rows of Reconcile's switch on the copy in the cache, as changes of the
\* phase, scaledDown and backoffUntil the API server holds and of the Deployment:
\* obj and d are what the pass leaves.
Row(u, obj, d) ==
  LET w == ws[u]
      c == cache[u]
  IN  \/ Like(obj, w) /\ d = dep[u]
      \/ c.phase = "none" /\ obj.phase = "Pending" /\ Keeps(obj, w) /\ d = dep[u]
      \/ /\ c.phase = "Failed" /\ obj.phase = "Pending"
         /\ obj.scaledDown = w.scaledDown /\ obj.backoff = Nil /\ d = dep[u]
      \/ /\ c.phase = "Pending" /\ obj.phase = "Starting" /\ Keeps(obj, w)
         /\ MayAdmit(u) /\ Raised(u, d)
      \/ /\ c.phase = "Pending" /\ obj.phase \in {w.phase, "Starting"} /\ Keeps(obj, w)
         /\ MayAdmit(u) /\ Fault
         /\ Raised(u, d) \/ d = dep[u]
      \/ /\ c.phase = "Starting" /\ obj.phase = w.phase
         /\ obj.scaledDown = w.scaledDown /\ obj.backoff # Nil
         /\ Fault /\ d = dep[u]
      \/ /\ c.phase = "Starting" /\ obj.phase = "Ready" /\ Keeps(obj, w)
         /\ dep[u].exists /\ dep[u].ready /\ d = dep[u]
      \/ /\ c.phase = "Starting" /\ obj.phase = "Failed"
         /\ obj.scaledDown = w.scaledDown /\ d = dep[u]
      \/ /\ c.phase = "Ready" /\ c.scaledDown /\ Keeps(obj, w) /\ Lowered(u, d)
         /\ obj.phase = w.phase \/ (obj.phase = "Idle" /\ PodsGone(u))
      \/ /\ c.phase \in {"Ready", "Idle"} /\ obj.phase = "Pending"
         /\ obj.scaledDown = IF c.scaledDown THEN FALSE ELSE w.scaledDown
         /\ obj.backoff = w.backoff /\ d = dep[u]

PassRow(u) ==
  \E obj \in Workspace, d \in Deployments, v \in {"absent", "one", "many"},
     again \in BOOLEAN :
    Finish(u, obj, d, v, again) /\ (Fault \/ NoFault) /\ Row(u, obj, d)

\* obj is what the API server holds after the status patch of a pass that edited
\* its copy into st.
Follows(u, obj, st) ==
  LET w == ws[u]
      c == cache[u]
  IN  /\ obj.phase = Merged(w.phase, c.phase, st.phase)
      /\ obj.scaledDown = Merged(w.scaledDown, c.scaledDown, st.scaledDown)
      /\ obj.backoff = Merged(w.backoff, c.backoff, st.backoff)

\* What the rows write into the phase, scaledDown and backoffUntil of their copy.
LEMMA RowsPhase ==
  ASSUME NEW w \in Workspace
  PROVE  /\ Like(VolumeRefused(w), w) /\ Like(VolumeAccepted(w), w)
         /\ RefusedPending(w).phase = "Pending" /\ Keeps(RefusedPending(w), w)
         /\ Admitted(w).phase = "Starting" /\ Keeps(Admitted(w), w)
         /\ BecomeReady(w).phase = "Ready" /\ Keeps(BecomeReady(w), w)
         /\ Retried(w).phase = "Pending" /\ Retried(w).backoff = Nil
         /\ WakeUp(w).phase = "Pending" /\ WakeUp(w).backoff = w.backoff
         /\ WakeUp(w).scaledDown = FALSE
         /\ \A p \in Pods : Like(Observed(w, p), w)
BY DEF Admitted, RefusedPending, VolumeRefused, VolumeAccepted, BecomeReady, Retried,
       WakeUp, Observed, Workspace, Like, Keeps

\* A row that sets the phase sets nothing else.
LEMMA PhaseOnly ==
  ASSUME NEW w \in Workspace, NEW p \in Phases
  PROVE  /\ [w EXCEPT !.phase = p] \in Workspace
         /\ [w EXCEPT !.phase = p].phase = p /\ Keeps([w EXCEPT !.phase = p], w)
BY DEF Workspace, Keeps

\* A recorded failure arms a backoff and leaves the phase.
LEMMA StartFailedArms ==
  ASSUME NEW w \in Workspace
  PROVE  StartFailed(w).phase = w.phase /\ StartFailed(w).backoff \in Nat
<1> DEFINE n == Sooner(w.fails + 1, MaxFailures)
<1>1. n \in 1..MaxFailures
  BY TimingAssumption DEF Workspace, Sooner
<1>2. BackoffFor[n] \in Nat
  BY <1>1, TimingAssumption
<1>3. StartFailed(w) = [w EXCEPT !.fails = n, !.backoff = BackoffFor[n]]
  BY DEF StartFailed
<1> QED
  BY <1>2, <1>3 DEF Workspace

\* A pass that ends with the copy st in hand follows a row of the switch if its
\* patch does, and if what is left of it when its status patch is lost does.
LEMMA ConcludeRow ==
  ASSUME TypeOK, NEW u \in Users, NEW st \in Workspace, NEW d \in Deployments,
         NEW v \in {"absent", "one", "many"}, NEW again \in BOOLEAN,
         Conclude(u, st, d, v, again) \/ Interrupted(u, st, d, v),
         \A obj \in Workspace : Follows(u, obj, st) => Row(u, obj, d),
         Fault => Row(u, ws[u], d)
  PROVE  PassRow(u)
<1>1. ws[u] \in Workspace /\ cache[u] \in Workspace
  BY PassTyped
<1>2. Patched(u, st) \in Workspace
  BY <1>1, MergePatchTyped DEF Patched
<1>3. Follows(u, Patched(u, st), st)
  BY DEF Patched, MergePatch, Follows
<1>4. CASE NoFault /\ Finish(u, Patched(u, st), d, v, again)
  BY <1>2, <1>3, <1>4 DEF PassRow
<1>5. CASE Fault /\ Finish(u, ws[u], d, v, TRUE)
  BY <1>1, <1>5 DEF PassRow
<1>6. CASE Fault /\ Finish(u, Patched(u, st), d, v, TRUE)
  BY <1>2, <1>3, <1>6 DEF PassRow
<1> QED
  BY <1>4, <1>5, <1>6 DEF Conclude, Interrupted

\* failStarting: Failed with whatever backoff was armed, or the phase as it was
\* with the backoff of the first patch when the second was lost.
LEMMA FailStartingRow ==
  ASSUME TypeOK, NEW u \in Users, cache[u].phase = "Starting",
         NEW st \in Workspace, Like(st, cache[u]), FailStarting(u, st)
  PROVE  PassRow(u)
<1> DEFINE failed == [st EXCEPT !.phase = "Failed"]
           armed  == StartFailed(failed)
           first  == MergePatch(ws[u], failed, armed)
           both   == MergePatch(first, cache[u], armed)
           lost   == Patched(u, failed)
<1>1. /\ failed \in Workspace /\ failed.phase = "Failed"
      /\ failed.scaledDown = cache[u].scaledDown
  BY PhaseOnly DEF Phases, Like, Keeps
<1>2. /\ armed \in Workspace /\ armed.phase = "Failed"
      /\ armed.scaledDown = cache[u].scaledDown /\ armed.backoff # Nil
  <2> HIDE DEF failed
  <2>1. /\ armed \in Workspace /\ armed.phase = failed.phase
        /\ armed.scaledDown = failed.scaledDown /\ armed.backoff \in Nat
    BY <1>1, StartFailedTyped, StartFailedArms, RowsScaledDown
  <2> QED
    BY <1>1, <2>1, NilAssumption
<1>3. ws[u] \in Workspace /\ cache[u] \in Workspace
  BY PassTyped
<1> HIDE DEF failed, armed
<1>4. /\ first \in Workspace /\ first.phase = ws[u].phase
      /\ first.scaledDown = ws[u].scaledDown
      /\ first.backoff = armed.backoff \/ first.backoff = ws[u].backoff
      /\ first.backoff = Nil => ws[u].backoff = Nil
  <2>1. first \in Workspace
    BY <1>1, <1>2, <1>3, MergePatchTyped
  <2>2. first.phase = ws[u].phase /\ first.scaledDown = ws[u].scaledDown
    BY <1>1, <1>2 DEF MergePatch, Merged
  <2>3. first.backoff = armed.backoff \/ first.backoff = ws[u].backoff
    BY DEF MergePatch, Merged
  <2> QED
    BY <1>2, <2>1, <2>2, <2>3
<1>5. /\ both \in Workspace /\ both.phase = "Failed"
      /\ both.scaledDown = ws[u].scaledDown
  <2>1. both \in Workspace
    BY <1>2, <1>3, <1>4, MergePatchTyped
  <2> HIDE DEF first
  <2>2. both.phase = "Failed" /\ both.scaledDown = ws[u].scaledDown
    BY <1>2, <1>4 DEF MergePatch, Merged
  <2> QED
    BY <2>1, <2>2
<1>6. /\ lost \in Workspace /\ lost.phase = "Failed"
      /\ lost.scaledDown = ws[u].scaledDown
  <2>1. lost = MergePatch(ws[u], cache[u], failed)
    BY DEF Patched
  <2>2. lost \in Workspace
    BY <1>1, <1>3, <2>1, MergePatchTyped
  <2>3. lost.phase = "Failed" /\ lost.scaledDown = ws[u].scaledDown
    BY <1>1, <2>1 DEF MergePatch, Merged
  <2> QED
    BY <2>2, <2>3
<1>7. \/ NoFault /\ Finish(u, both, dep[u], EnsuredClaim(u), FALSE)
      \/ Fault /\ Finish(u, lost, dep[u], EnsuredClaim(u), FALSE)
      \/ Fault /\ Finish(u, first, dep[u], EnsuredClaim(u), TRUE)
  BY DEF FailStarting, failed, armed
<1>8. dep[u] \in Deployments /\ EnsuredClaim(u) \in {"absent", "one", "many"}
  BY PassTyped
<1> HIDE DEF first, both, lost
<1>9. Row(u, both, dep[u]) /\ Row(u, lost, dep[u]) /\ (Fault => Row(u, first, dep[u]))
  <2>1. Row(u, both, dep[u]) /\ Row(u, lost, dep[u])
    BY <1>5, <1>6 DEF Row
  <2>2. first.backoff = Nil => Row(u, first, dep[u])
    BY <1>4 DEF Row, Like
  <2>3. first.backoff # Nil /\ Fault => Row(u, first, dep[u])
    BY <1>4 DEF Row
  <2> QED
    BY <2>1, <2>2, <2>3
<1> QED
  BY <1>4, <1>5, <1>6, <1>7, <1>8, <1>9 DEF PassRow

\* Every pass follows a row of the switch on the copy it read.
LEMMA ReconcileRow ==
  ASSUME TypeOK, ReapInv, NEW u \in Users, Reconcile(u)
  PROVE  PassRow(u)
<1> DEFINE c  == cache[u]
           st == VolumeAccepted(c)
<1>1. /\ ws[u] \in Workspace /\ c \in Workspace
      /\ dep[u] \in Deployments /\ pod[u] \in Pods
      /\ volume[u] \in {"absent", "one", "many"}
      /\ EnsuredClaim(u) \in {"absent", "one", "many"}
      /\ EnsuredDeployment(dep[u], 0) \in Deployments
      /\ EnsuredDeployment(dep[u], 1) \in Deployments
  BY PassTyped
<1>2. st \in Workspace /\ Like(st, c)
  <2>1. st \in Workspace
    BY <1>1, RowsTyped
  <2> QED
    BY <1>1, <2>1, RowsPhase
<1>3. Row(u, ws[u], dep[u])
  BY DEF Row, Like
<1>4. ASSUME NEW v \in {"absent", "one", "many"}, NEW again \in BOOLEAN,
             NEW x \in Workspace, Like(x, c),
             Conclude(u, x, dep[u], v, again) \/ Interrupted(u, x, dep[u], v)
      PROVE  PassRow(u)
  <2>1. \A obj \in Workspace : Follows(u, obj, x) => Row(u, obj, dep[u])
    BY <1>4 DEF Like, Follows, Merged, Row
  <2> QED
    BY <1>1, <1>3, <1>4, <2>1, ConcludeRow
<1>5. ASSUME StorageRefused(u) \/ StorageThenError(u)
      PROVE  PassRow(u)
  <2>1. VolumeRefused(c) \in Workspace /\ Like(VolumeRefused(c), c)
    BY <1>1, RowsTyped, RowsPhase
  <2> QED
    BY <1>1, <1>2, <1>4, <1>5, <2>1 DEF StorageRefused, StorageThenError
<1>6. CASE ReconcileFinalizer(u)
  <2> DEFINE upd == [c EXCEPT !.fin = TRUE]
  <2>1. upd \in Workspace /\ Like(upd, c)
    BY <1>1 DEF Workspace, Like
  <2>2. NoFault /\ \/ Current(u) /\ up /\ Finish(u, upd, dep[u], volume[u], FALSE)
                   \/ Finish(u, ws[u], dep[u], volume[u], TRUE)
    BY <1>6 DEF ReconcileFinalizer
  <2>3. Current(u) /\ up => c = ws[u]
    BY DEF ReapInv, CacheView
  <2> HIDE DEF upd, c
  <2>4. Current(u) /\ up => Row(u, upd, dep[u])
    BY <2>1, <2>3 DEF Row
  <2> QED
    BY <1>1, <1>3, <2>1, <2>2, <2>4 DEF PassRow
<1>7. CASE ReconcileNew(u)
  <2> DEFINE new == [c EXCEPT !.phase = "Pending"]
  <2>1. new \in Workspace /\ new.phase = "Pending" /\ Keeps(new, c)
    BY <1>1, PhaseOnly DEF Phases
  <2>2. Conclude(u, new, dep[u], volume[u], FALSE) /\ c.phase = "none"
    BY <1>7 DEF ReconcileNew, Reconciling
  <2> HIDE DEF new
  <2>3. \A obj \in Workspace : Follows(u, obj, new) => Row(u, obj, dep[u])
    BY <2>1, <2>2 DEF Row, Follows, Merged, Keeps
  <2> QED
    BY <1>1, <1>3, <2>1, <2>2, <2>3, ConcludeRow
<1>8. CASE ReconcilePending(u)
  <2> DEFINE ad == Admitted(c)
             ok == VolumeAccepted(ad)
             no == RefusedPending(c)
             d  == IF dep[u].exists THEN EnsuredDeployment(dep[u], 1)
                                    ELSE RenderedDeployment(ad)
  <2>1. /\ ad \in Workspace /\ ad.phase = "Starting" /\ Keeps(ad, c)
        /\ no \in Workspace /\ no.phase = "Pending" /\ Keeps(no, c)
    BY <1>1, RowsTyped, RowsPhase
  <2>2. ok \in Workspace /\ ok.phase = "Starting" /\ Keeps(ok, c)
    <3>1. ok \in Workspace /\ Like(ok, ad)
      BY <2>1, RowsTyped, RowsPhase
    <3> QED
      BY <2>1, <3>1 DEF Like, Keeps
  <2>3. c.phase = "Pending"
    BY <1>8 DEF ReconcilePending, Reconciling
  <2>4. d \in Deployments /\ Raised(u, d)
    <3>1. ad.scaledDown = c.scaledDown
      BY <2>1 DEF Keeps
    <3>2. d \in Deployments
      BY <1>1, <2>1, PassTyped
    <3>3. CASE dep[u].exists
      <4>1. d = [dep[u] EXCEPT !.replicas = 1, !.ver = appVer]
        BY <3>3 DEF EnsuredDeployment
      <4>2. d.exists /\ d.replicas = 1 /\ d.ready = dep[u].ready
        BY <1>1, <3>3, <4>1 DEF Deployments
      <4>3. d.ready = (dep[u].exists /\ dep[u].ready)
        BY <1>1, <3>3, <4>2 DEF Deployments
      <4> QED
        BY <3>2, <4>2, <4>3 DEF Raised
    <3>4. CASE ~dep[u].exists
      <4>1. d = RenderedDeployment(ad)
        BY <3>4
      <4> HIDE DEF d, ad
      <4>2. /\ d.exists /\ d.ready = FALSE
            /\ d.replicas = 1 \/ ad.scaledDown
        BY <4>1 DEF RenderedDeployment
      <4> QED
        BY <3>1, <3>2, <3>4, <4>2 DEF Raised
    <3> QED
      BY <3>3, <3>4
  <2>5. \/ NoFault /\ Finish(u, ws[u], dep[u], volume[u], TRUE)
        \/ Conclude(u, no, dep[u], volume[u], FALSE)
        \/ MayAdmit(u) /\ Conclude(u, ok, d, EnsuredClaim(u), FALSE)
        \/ MayAdmit(u) /\ Interrupted(u, ad, dep[u], volume[u])
        \/ MayAdmit(u) /\ Interrupted(u, ok, dep[u], EnsuredClaim(u))
        \/ MayAdmit(u) /\ Interrupted(u, ok, d, EnsuredClaim(u))
        \/ Fault /\ Finish(u, ws[u], dep[u], EnsuredClaim(u), TRUE)
    BY <1>8 DEF ReconcilePending
  <2> HIDE DEF ad, ok, no, d
  <2>6. ASSUME MayAdmit(u), Fault
        PROVE  Row(u, ws[u], d)
    BY <2>3, <2>4, <2>6 DEF Row, Keeps
  <2>7. ASSUME MayAdmit(u), NEW x \in Workspace, x.phase = "Starting", Keeps(x, c)
        PROVE  \A obj \in Workspace : Follows(u, obj, x) => Row(u, obj, d)
    BY <2>3, <2>4, <2>7 DEF Row, Keeps, Follows, Merged
  <2>8. ASSUME MayAdmit(u), Fault,
               NEW x \in Workspace, x.phase = "Starting", Keeps(x, c)
        PROVE  \A obj \in Workspace : Follows(u, obj, x) => Row(u, obj, dep[u])
    BY <2>3, <2>8 DEF Row, Keeps, Follows, Merged
  <2>9. CASE \/ NoFault /\ Finish(u, ws[u], dep[u], volume[u], TRUE)
             \/ Fault /\ Finish(u, ws[u], dep[u], EnsuredClaim(u), TRUE)
    BY <1>1, <1>3, <2>9 DEF PassRow
  <2>10. CASE Conclude(u, no, dep[u], volume[u], FALSE)
    <3>1. Like(no, c)
      BY <2>1, <2>3 DEF Like, Keeps
    <3> QED
      BY <1>1, <1>4, <2>1, <2>10, <3>1
  <2>11. CASE MayAdmit(u) /\ \/ Conclude(u, ok, d, EnsuredClaim(u), FALSE)
                             \/ Interrupted(u, ok, d, EnsuredClaim(u))
    <3>1. \A obj \in Workspace : Follows(u, obj, ok) => Row(u, obj, d)
      BY <2>2, <2>7, <2>11
    <3>2. Fault => Row(u, ws[u], d)
      BY <2>6, <2>11
    <3> QED
      BY <1>1, <2>2, <2>4, <2>11, <3>1, <3>2, ConcludeRow
  <2>12. CASE MayAdmit(u) /\ Interrupted(u, ad, dep[u], volume[u])
    <3>1. \A obj \in Workspace : Follows(u, obj, ad) => Row(u, obj, dep[u])
      BY <2>1, <2>8, <2>12 DEF Interrupted
    <3> QED
      BY <1>1, <1>3, <2>1, <2>12, <3>1, ConcludeRow
  <2>13. CASE MayAdmit(u) /\ Interrupted(u, ok, dep[u], EnsuredClaim(u))
    <3>1. \A obj \in Workspace : Follows(u, obj, ok) => Row(u, obj, dep[u])
      BY <2>2, <2>8, <2>13 DEF Interrupted
    <3> QED
      BY <1>1, <1>3, <2>2, <2>13, <3>1, ConcludeRow
  <2> QED
    BY <2>5, <2>9, <2>10, <2>11, <2>12, <2>13
<1>9. CASE ReconcileStarting(u)
  <2> DEFINE seen  == Observed(st, pod[u])
             ready == BecomeReady(st)
             fail  == [st EXCEPT !.phase = "Failed"]
  <2>1. /\ seen \in Workspace /\ Like(seen, c)
        /\ ready \in Workspace /\ ready.phase = "Ready" /\ Keeps(ready, c)
        /\ fail \in Workspace /\ fail.phase = "Failed" /\ Keeps(fail, c)
    <3>1. seen \in Workspace /\ ready \in Workspace
      BY <1>1, <1>2, RowsTyped
    <3>2. Like(seen, st) /\ ready.phase = "Ready" /\ Keeps(ready, st)
      BY <1>1, <1>2, RowsPhase
    <3>3. fail \in Workspace /\ fail.phase = "Failed" /\ Keeps(fail, st)
      BY <1>2, PhaseOnly DEF Phases
    <3> QED
      BY <1>2, <3>1, <3>2, <3>3 DEF Like, Keeps
  <2>2. \/ StorageRefused(u) \/ StorageThenError(u)
        \/ /\ dep[u].exists /\ dep[u].ready
           /\ Conclude(u, ready, dep[u], EnsuredClaim(u), FALSE)
        \/ Conclude(u, fail, dep[u], EnsuredClaim(u), FALSE)
        \/ FailStarting(u, seen)
        \/ Conclude(u, seen, dep[u], EnsuredClaim(u), TRUE)
    BY <1>9 DEF ReconcileStarting
  <2>3. c.phase = "Starting"
    BY <1>9 DEF ReconcileStarting, Reconciling
  <2> HIDE DEF st, seen, ready, fail
  <2>4. /\ dep[u].exists /\ dep[u].ready =>
             \A obj \in Workspace : Follows(u, obj, ready) => Row(u, obj, dep[u])
        /\ \A obj \in Workspace : Follows(u, obj, fail) => Row(u, obj, dep[u])
    BY <2>1, <2>3 DEF Row, Follows, Merged, Keeps
  <2>5. CASE /\ dep[u].exists /\ dep[u].ready
             /\ Conclude(u, ready, dep[u], EnsuredClaim(u), FALSE)
    BY <1>1, <1>3, <2>1, <2>4, <2>5, ConcludeRow
  <2>6. CASE Conclude(u, fail, dep[u], EnsuredClaim(u), FALSE)
    BY <1>1, <1>3, <2>1, <2>4, <2>6, ConcludeRow
  <2>7. CASE FailStarting(u, seen)
    BY <2>1, <2>3, <2>7, FailStartingRow
  <2>8. CASE Conclude(u, seen, dep[u], EnsuredClaim(u), TRUE)
    BY <1>1, <1>4, <2>1, <2>8
  <2> QED
    BY <1>5, <2>2, <2>5, <2>6, <2>7, <2>8
<1>10. ASSUME c.phase \in {"Ready", "Idle"},
              Conclude(u, WakeUp(st), dep[u], EnsuredClaim(u), FALSE)
       PROVE  PassRow(u)
  <2>1. /\ WakeUp(st) \in Workspace /\ WakeUp(st).scaledDown = FALSE
        /\ WakeUp(st).phase = "Pending" /\ WakeUp(st).backoff = c.backoff
    <3>1. WakeUp(st) \in Workspace
      BY <1>2, RowsTyped
    <3>2. /\ WakeUp(st).phase = "Pending" /\ WakeUp(st).backoff = st.backoff
          /\ WakeUp(st).scaledDown = FALSE
      BY <1>2, RowsPhase
    <3> QED
      BY <1>2, <3>1, <3>2 DEF Like
  <2> HIDE DEF st
  <2>2. c.scaledDown \in BOOLEAN
    BY <1>1 DEF Workspace
  <2>3. ASSUME NEW obj \in Workspace, Follows(u, obj, WakeUp(st))
        PROVE  Row(u, obj, dep[u])
    <3>1. obj.phase = "Pending" /\ obj.backoff = ws[u].backoff
      BY <1>10, <2>1, <2>3 DEF Follows, Merged
    <3>2. obj.scaledDown = IF c.scaledDown THEN FALSE ELSE ws[u].scaledDown
      BY <2>1, <2>2, <2>3 DEF Follows, Merged
    <3> QED
      BY <1>10, <3>1, <3>2 DEF Row
  <2> QED
    BY <1>1, <1>3, <1>10, <2>1, <2>3, ConcludeRow
<1>11. CASE ReconcileReady(u)
  <2> DEFINE d    == EnsuredDeployment(dep[u], 0)
             idle == [st EXCEPT !.phase = "Idle"]
  <2>1. idle \in Workspace /\ idle.phase = "Idle" /\ Keeps(idle, c)
    <3>1. idle \in Workspace /\ idle.phase = "Idle" /\ Keeps(idle, st)
      BY <1>2, PhaseOnly DEF Phases
    <3> QED
      BY <1>2, <3>1 DEF Like, Keeps
  <2>2. \/ StorageRefused(u) \/ StorageThenError(u)
        \/ Conclude(u, WakeUp(st), dep[u], EnsuredClaim(u), FALSE)
        \/ st.scaledDown /\ PodsGone(u) /\ Conclude(u, idle, d, EnsuredClaim(u), FALSE)
        \/ st.scaledDown /\ Conclude(u, st, d, EnsuredClaim(u), TRUE)
        \/ st.scaledDown /\ Interrupted(u, st, d, EnsuredClaim(u))
        \/ Conclude(u, st, dep[u], EnsuredClaim(u), FALSE)
    BY <1>11 DEF ReconcileReady
  <2>3. c.phase = "Ready"
    BY <1>11 DEF ReconcileReady, Reconciling
  <2>4. Lowered(u, d) /\ d \in Deployments
    BY <1>1 DEF Lowered, EnsuredDeployment, Deployments
  <2> HIDE DEF st, idle, d
  <2>5. ASSUME st.scaledDown
        PROVE  /\ Row(u, ws[u], d)
               /\ \A obj \in Workspace : Follows(u, obj, st) => Row(u, obj, d)
    BY <1>2, <2>3, <2>4, <2>5 DEF Row, Like, Keeps, Follows, Merged
  <2>6. ASSUME st.scaledDown, PodsGone(u)
        PROVE  \A obj \in Workspace : Follows(u, obj, idle) => Row(u, obj, d)
    BY <1>2, <2>1, <2>3, <2>4, <2>6 DEF Row, Like, Keeps, Follows, Merged
  <2>7. CASE Conclude(u, WakeUp(st), dep[u], EnsuredClaim(u), FALSE)
    BY <1>10, <2>3, <2>7
  <2>8. CASE st.scaledDown /\ PodsGone(u) /\ Conclude(u, idle, d, EnsuredClaim(u), FALSE)
    BY <1>1, <2>1, <2>4, <2>5, <2>6, <2>8, ConcludeRow
  <2>9. CASE st.scaledDown /\ \/ Conclude(u, st, d, EnsuredClaim(u), TRUE)
                              \/ Interrupted(u, st, d, EnsuredClaim(u))
    BY <1>1, <1>2, <2>4, <2>5, <2>9, ConcludeRow
  <2>10. CASE Conclude(u, st, dep[u], EnsuredClaim(u), FALSE)
    BY <1>1, <1>2, <1>4, <2>10
  <2> QED
    BY <1>5, <2>2, <2>7, <2>8, <2>9, <2>10
<1>12. CASE ReconcileIdle(u)
  <2>1. \/ StorageRefused(u) \/ StorageThenError(u)
        \/ Conclude(u, WakeUp(st), dep[u], EnsuredClaim(u), FALSE)
        \/ Conclude(u, st, dep[u], EnsuredClaim(u), FALSE)
    BY <1>12 DEF ReconcileIdle
  <2>2. c.phase = "Idle"
    BY <1>12 DEF ReconcileIdle, Reconciling
  <2> HIDE DEF st
  <2>3. CASE Conclude(u, st, dep[u], EnsuredClaim(u), FALSE)
    BY <1>1, <1>2, <1>4, <2>3
  <2> QED
    BY <1>5, <1>10, <2>1, <2>2, <2>3
<1>13. CASE ReconcileFailed(u)
  <2> DEFINE again == Retried(c)
  <2>1. /\ again \in Workspace /\ again.phase = "Pending" /\ again.backoff = Nil
        /\ again.scaledDown = c.scaledDown
    BY <1>1, RowsTyped, RowsScaledDown, RowsPhase
  <2>2. \/ BackoffOver(c) /\ Conclude(u, again, dep[u], volume[u], FALSE)
        \/ Conclude(u, c, dep[u], volume[u], FALSE)
    BY <1>13 DEF ReconcileFailed
  <2>3. c.phase = "Failed" /\ Like(c, c)
    BY <1>13 DEF ReconcileFailed, Reconciling, Like
  <2> HIDE DEF again
  <2>4. BackoffOver(c) =>
          \A obj \in Workspace : Follows(u, obj, again) => Row(u, obj, dep[u])
    BY <2>1, <2>3 DEF Row, Follows, Merged, BackoffOver
  <2>5. CASE BackoffOver(c) /\ Conclude(u, again, dep[u], volume[u], FALSE)
    BY <1>1, <1>3, <2>1, <2>4, <2>5, ConcludeRow
  <2>6. CASE Conclude(u, c, dep[u], volume[u], FALSE)
    BY <1>1, <1>4, <2>3, <2>6
  <2> QED
    BY <2>2, <2>5, <2>6
<1> QED
  BY <1>6, <1>7, <1>8, <1>9, <1>11, <1>12, <1>13 DEF Reconcile

Others(u) == \A w \in Users \ {u} : ws'[w] = ws[w]

\* A write changes one Workspace.
LEMMA PutOne ==
  ASSUME TypeOK, NEW u \in Users, NEW obj \in Workspace, Put(u, obj)
  PROVE  ws'[u] = obj /\ Others(u)
BY DEF Put, TypeOK, api, Others

\* What a pass leaves of its own user, and of the others.
LEMMA PassEffect ==
  ASSUME TypeOK, ReapInv, NEW u \in Users, Reconcile(u)
  PROVE  \E obj \in Workspace, d \in Deployments :
           /\ Row(u, obj, d)
           /\ Put(u, obj) /\ ws'[u] = obj /\ dep'[u] = d
           /\ Others(u) /\ \A w \in Users \ {u} : dep'[w] = dep[w]
           /\ UNCHANGED <<pod, cache, sweepTodo>>
           /\ Fault \/ NoFault
<1>1. PICK obj \in Workspace, d \in Deployments, v \in {"absent", "one", "many"},
           again \in BOOLEAN :
        Finish(u, obj, d, v, again) /\ (Fault \/ NoFault) /\ Row(u, obj, d)
  BY ReconcileRow DEF PassRow
<1>2. Put(u, obj) /\ ws'[u] = obj /\ Others(u)
  BY <1>1, PutOne DEF Finish
<1>3. dep'[u] = d /\ \A w \in Users \ {u} : dep'[w] = dep[w]
  BY <1>1 DEF Finish, TypeOK
<1>4. UNCHANGED <<pod, cache, sweepTodo>>
  BY <1>1 DEF Finish, sweeper
<1> QED
  BY <1>1, <1>2, <1>3, <1>4

\* A pass runs in a controller that is up, and only while the informer is near
\* enough.
LEMMA PassRuns ==
  ASSUME NEW u \in Users, Reconcile(u)
  PROVE  up /\ Room
BY DEF Reconcile, ReconcileFinalizer, ReconcileNew, ReconcilePending,
       ReconcileStarting, ReconcileReady, ReconcileIdle, ReconcileFailed, Reconciling

\* It read what the API server holds, unless an event is on its way.
LEMMA PassCopy ==
  ASSUME ReapInv, NEW u \in Users, Reconcile(u), Current(u)
  PROVE  cache[u] = ws[u]
BY PassRuns DEF ReapInv, CacheView

-----------------------------------------------------------------------------
(* What everybody else does to it.                                         *)

SameRow(u) ==
  /\ ws'[u].phase = ws[u].phase /\ ws'[u].scaledDown = ws[u].scaledDown
  /\ ws'[u].backoff = Nil <=> ws[u].backoff = Nil

Created(u) ==
  /\ ws[u].phase = "absent"
  /\ ws'[u].phase = "none" /\ ~ws'[u].scaledDown /\ ws'[u].backoff = Nil

Reaped(u) ==
  /\ ws[u].phase = "Ready" /\ ~ws[u].scaledDown
  /\ ws'[u].phase = "Ready" /\ ws'[u].scaledDown /\ ws'[u].backoff = ws[u].backoff

Armed(u) ==
  /\ ws'[u].phase = ws[u].phase /\ ws'[u].scaledDown = ws[u].scaledDown
  /\ ws'[u].backoff # Nil
  /\ u \in sweepTodo /\ ~dep[u].exists

Gentle(u) == SameRow(u) \/ Created(u) \/ Reaped(u) \/ Armed(u)

\* A request creates its Workspace, or leaves its row alone.
LEMMA RouterGentle ==
  ASSUME TypeOK, NEW u \in Users, Router(u)
  PROVE  (SameRow(u) \/ Created(u)) /\ Others(u)
<1>1. ws[u] \in Workspace
  BY DEF TypeOK
<1>2. ASSUME UNCHANGED api
      PROVE  SameRow(u) /\ Others(u)
  BY <1>2 DEF SameRow, Others, api
<1>3. ASSUME NEW obj \in Workspace, Put(u, obj), Like(obj, ws[u])
      PROVE  SameRow(u) /\ Others(u)
  BY <1>3, PutOne DEF SameRow, Like
<1>4. CASE ArriveNew(u)
  <2>1. PICK s \in 0..MaxStamp : Put(u, NewWorkspace(s)) /\ ws[u].phase = "absent"
    BY <1>4 DEF ArriveNew
  <2>2. NewWorkspace(s) \in Workspace /\ ~NewWorkspace(s).scaledDown
    BY NewWorkspaceTyped, BoundsAssumption
  <2>3. NewWorkspace(s).phase = "none" /\ NewWorkspace(s).backoff = Nil
    BY DEF NewWorkspace, NoWorkspace
  <2>4. ws'[u] = NewWorkspace(s) /\ Others(u)
    BY <2>1, <2>2, PutOne
  <2> QED
    BY <2>1, <2>2, <2>3, <2>4 DEF Created
<1>5. CASE EnsureEnqueuedAt(u)
  <2>1. PICK s \in 0..MaxStamp : Put(u, [ws[u] EXCEPT !.enq = s])
    BY <1>5 DEF EnsureEnqueuedAt
  <2>2. [ws[u] EXCEPT !.enq = s] \in Workspace
    BY <1>1, BoundsAssumption DEF Workspace
  <2>3. Like([ws[u] EXCEPT !.enq = s], ws[u])
    BY <1>1 DEF Like, Workspace
  <2> QED
    BY <1>3, <2>1, <2>2, <2>3
<1>6. CASE RequestWake(u) \/ Touch(u) \/ OpenConnection(u) \/ CloseConnection(u)
  <2>1. /\ [ws[u] EXCEPT !.wake = TRUE] \in Workspace
        /\ [ws[u] EXCEPT !.last = 0] \in Workspace
        /\ [ws[u] EXCEPT !.conns = 1] \in Workspace
        /\ [ws[u] EXCEPT !.conns = 0] \in Workspace
    BY <1>1 DEF Workspace
  <2>2. /\ Like([ws[u] EXCEPT !.wake = TRUE], ws[u])
        /\ Like([ws[u] EXCEPT !.last = 0], ws[u])
        /\ Like([ws[u] EXCEPT !.conns = 1], ws[u])
        /\ Like([ws[u] EXCEPT !.conns = 0], ws[u])
    BY <1>1 DEF Like, Workspace
  <2>3. \/ UNCHANGED api
        \/ Put(u, [ws[u] EXCEPT !.wake = TRUE]) \/ Put(u, [ws[u] EXCEPT !.last = 0])
        \/ Put(u, [ws[u] EXCEPT !.conns = 1]) \/ Put(u, [ws[u] EXCEPT !.conns = 0])
    BY <1>6 DEF RequestWake, Touch, OpenConnection, CloseConnection
  <2> QED
    BY <1>2, <1>3, <2>1, <2>2, <2>3
<1>7. CASE Arrive(u) \/ PollServable(u) \/ HoldExpires(u) \/ RequestEnds(u)
  BY <1>2, <1>7 DEF Arrive, PollServable, HoldExpires, RequestEnds
<1> QED
  BY <1>4, <1>5, <1>6, <1>7 DEF Router

\* The reaper scales a Ready Workspace down, or leaves it alone.
LEMMA ReaperGentle ==
  ASSUME TypeOK, ReapInv, NEW u \in Users, ReapWrite(u)
  PROVE  (SameRow(u) \/ Reaped(u)) /\ Others(u)
<1>1. CASE UNCHANGED api
  BY <1>1 DEF SameRow, Others, api
<1>2. CASE SameVersion(u) /\ Put(u, [reapSnap[u] EXCEPT !.scaledDown = TRUE])
  <2>1. u \in reapTodo \cap reapFresh
    BY <1>2 DEF ReapWrite, SameVersion
  <2>2. reapSnap[u] = ws[u] /\ ws[u].phase = "Ready" /\ ~ws[u].scaledDown
    BY <2>1 DEF ReapInv, FreshSnap, IsReapable
  <2>3. ws[u] \in Workspace
    BY DEF TypeOK
  <2>4. [ws[u] EXCEPT !.scaledDown = TRUE] \in Workspace
    BY <2>3 DEF Workspace
  <2>5. ws'[u] = [ws[u] EXCEPT !.scaledDown = TRUE] /\ Others(u)
    BY <1>2, <2>2, <2>4, PutOne
  <2> QED
    BY <2>2, <2>3, <2>5 DEF Reaped, Workspace
<1> QED
  BY <1>1, <1>2 DEF ReapWrite

\* The sweep arms the backoff of an orphan, or leaves the row alone.
LEMMA SweepGentle ==
  ASSUME TypeOK, NEW u \in Users, SweepOne(u)
  PROVE  (SameRow(u) \/ Armed(u)) /\ Others(u)
<1>1. sweepSnap[u] \in Workspace /\ ws[u] \in Workspace /\ sweepGap \in Nat
  BY TimingAssumption DEF TypeOK
<1>2. CASE UNCHANGED api
  BY <1>2 DEF SameRow, Others, api
<1>3. CASE dep[u].exists
           /\ Put(u, MergePatch(ws[u], sweepSnap[u], Extended(sweepSnap[u], sweepGap)))
  <2>1. Extended(sweepSnap[u], sweepGap) \in Workspace
    BY <1>1, RowsTyped
  <2>2. Like(Extended(sweepSnap[u], sweepGap), sweepSnap[u])
    BY <1>1 DEF Extended, Like, Workspace
  <2>3. PICK obj \in Workspace :
          obj = MergePatch(ws[u], sweepSnap[u], Extended(sweepSnap[u], sweepGap))
    BY <1>1, <2>1, MergePatchTyped
  <2>4. Like(obj, ws[u])
    BY <2>2, <2>3 DEF MergePatch, Merged, Like
  <2> QED
    BY <1>3, <2>3, <2>4, PutOne DEF SameRow, Like
<1>4. CASE ~dep[u].exists
           /\ Put(u, MergePatch(ws[u], sweepSnap[u], StartFailed(sweepSnap[u])))
  <2> DEFINE x == StartFailed(sweepSnap[u])
  <2>1. x \in Workspace /\ x.scaledDown = sweepSnap[u].scaledDown
    BY <1>1, StartFailedTyped, RowsScaledDown
  <2>2. x.phase = sweepSnap[u].phase /\ x.backoff # Nil
    BY <1>1, StartFailedArms, NilAssumption
  <2>3. PICK obj \in Workspace : obj = MergePatch(ws[u], sweepSnap[u], x)
    BY <1>1, <2>1, MergePatchTyped
  <2>4. ws'[u] = obj /\ Others(u)
    BY <1>4, <2>3, PutOne
  <2> HIDE DEF x
  <2>5. /\ obj.phase = ws[u].phase /\ obj.scaledDown = ws[u].scaledDown
        /\ obj.backoff = x.backoff \/ obj.backoff = ws[u].backoff
    BY <2>1, <2>2, <2>3 DEF MergePatch, Merged
  <2>6. u \in sweepTodo
    BY DEF SweepOne
  <2> QED
    BY <1>4, <2>2, <2>4, <2>5, <2>6 DEF SameRow, Armed
<1> QED
  BY <1>2, <1>3, <1>4 DEF SweepOne

\* A tick leaves every row alone.
LEMMA TickGentle ==
  ASSUME TypeOK, Tick
  PROVE  /\ \A u \in Users : SameRow(u)
         /\ \A u \in Users : cache'[u].phase = cache[u].phase
<1>1. ASSUME NEW w \in Workspace
      PROVE  /\ Aged(w).phase = w.phase /\ Aged(w).scaledDown = w.scaledDown
             /\ Aged(w).backoff = Nil <=> w.backoff = Nil
  <2> DEFINE b == IF w.backoff = Nil THEN Nil ELSE Later(w.backoff - 1, -1)
  <2>1. Aged(w).phase = w.phase /\ Aged(w).scaledDown = w.scaledDown /\ Aged(w).backoff = b
    BY DEF Aged, Workspace
  <2>2. b = Nil <=> w.backoff = Nil
    BY NilAssumption DEF Workspace, Later
  <2> QED
    BY <2>1, <2>2
<1>2. \A u \in Users : /\ ws[u] \in Workspace /\ ws'[u] = Aged(ws[u])
                       /\ cache[u] \in Workspace /\ cache'[u] = Aged(cache[u])
  BY DEF Tick, TypeOK
<1> QED
  BY <1>1, <1>2 DEF SameRow

AtMostOne == Len(events) <= 1

\* What a step that is no pass of u's does to the rest of u's state.
Calm(u) ==
  /\ dep'[u].exists = dep[u].exists /\ dep'[u].replicas = dep[u].replicas
  /\ ~Wanted(u) /\ pod[u].st = "none" => pod'[u].st = "none"
  /\ faults' = 0 => faults = 0
  /\ AtMostOne /\ cache'[u].phase = "Starting"
       => cache[u].phase = "Starting" \/ ws[u].phase = "Starting"
  /\ u \in sweepTodo' => u \in sweepTodo \/ cache[u].phase = "Starting"

\* Errors are only ever counted up.
LEMMA FaultsGrow ==
  ASSUME TypeOK, Fault \/ NoFault
  PROVE  (faults' = 0 => faults = 0) /\ (Fault => faults' # 0)
BY BoundsAssumption DEF TypeOK, Fault, NoFault

\* A step that touches none of it is calm.
LEMMA UntouchedCalm ==
  ASSUME UNCHANGED <<dep, pod, cache, sweepTodo>>, faults' = 0 => faults = 0
  PROVE  \A u \in Users : Calm(u)
BY DEF Calm

\* Every step but a pass is calm and gentle, for every user.
LEMMA OtherSteps ==
  ASSUME TypeOK, ReapInv, [Next]_vars
  PROVE  (\E u \in Users : Reconcile(u)) \/ (\A u \in Users : Gentle(u) /\ Calm(u))
<1>1. ASSUME NEW u \in Users, Gentle(u), Others(u)
      PROVE  \A w \in Users : Gentle(w)
  BY <1>1 DEF Others, Gentle, SameRow
<1>2. ASSUME UNCHANGED ws
      PROVE  \A w \in Users : Gentle(w)
  BY <1>2 DEF Gentle, SameRow
<1>3. ASSUME NEW u \in Users, Router(u)
      PROVE  \A w \in Users : Gentle(w) /\ Calm(w)
  <2>1. UNCHANGED <<infra, sweeper, work>> /\ (Fault \/ NoFault)
    BY <1>3, RouterWrites
  <2>2. \A w \in Users : Calm(w)
    BY <2>1, FaultsGrow, UntouchedCalm DEF infra, sweeper, work
  <2> QED
    BY <1>1, <1>3, <2>2, RouterGentle DEF Gentle
<1>4. ASSUME NEW u \in Users, ReapWrite(u)
      PROVE  \A w \in Users : Gentle(w) /\ Calm(w)
  <2>1. UNCHANGED <<infra, sweeper, work>> /\ (Fault \/ NoFault)
    BY <1>4 DEF ReapWrite
  <2>2. \A w \in Users : Calm(w)
    BY <2>1, FaultsGrow, UntouchedCalm DEF infra, sweeper, work
  <2> QED
    BY <1>1, <1>4, <2>2, ReaperGentle DEF Gentle
<1>5. ASSUME NEW u \in Users, SweepOne(u)
      PROVE  \A w \in Users : Gentle(w) /\ Calm(w)
  <2>1. /\ UNCHANGED <<infra, work>> /\ (Fault \/ NoFault)
        /\ sweepTodo' \subseteq sweepTodo
    BY <1>5 DEF SweepOne
  <2>2. faults' = 0 => faults = 0
    BY <2>1, FaultsGrow
  <2>3. \A w \in Users : Calm(w)
    BY <2>1, <2>2 DEF Calm, infra, work
  <2> QED
    BY <1>1, <1>5, <2>3, SweepGentle DEF Gentle
<1>6. ASSUME NEW u \in Users, Cluster(u)
      PROVE  \A w \in Users : Gentle(w) /\ Calm(w)
  <2>1. UNCHANGED <<ws, cache, sweepTodo>> /\ (Fault \/ faults' = faults)
    BY <1>6 DEF Cluster, PodCreated, PodStops, PodGone, PodStuck, PodReady, PodLost,
                DeploymentStatus, DuplicateClaim, RemoveDuplicate, SetPod, api, work, sweeper
  <2>2. faults' = 0 => faults = 0
    BY <2>1, FaultsGrow DEF NoFault
  <2>3. ASSUME UNCHANGED dep, \A w \in Users \ {u} : pod'[w] = pod[w],
               ~Wanted(u) /\ pod[u].st = "none" => pod'[u].st = "none"
        PROVE  \A w \in Users : Calm(w)
    BY <2>1, <2>2, <2>3 DEF Calm, Wanted
  <2>4. CASE PodCreated(u) \/ PodStops(u) \/ PodGone(u) \/ PodStuck(u) \/ PodReady(u)
    <3>1. dep' = dep /\ \A w \in Users \ {u} : pod'[w] = pod[w]
      BY <2>4 DEF PodCreated, PodStops, PodGone, PodStuck, PodReady, SetPod, TypeOK
    <3>2. ~Wanted(u) => pod[u].st # "none"
      BY <2>4 DEF PodCreated, PodStops, PodGone, PodStuck, PodReady, Wanted
    <3> QED
      BY <1>2, <2>1, <2>3, <3>1, <3>2
  <2>5. CASE PodLost(u)
    <3>1. dep' = dep /\ \A w \in Users \ {u} : pod'[w] = pod[w]
      BY <2>5 DEF PodLost, TypeOK
    <3>2. pod[u].st # "none"
      BY <2>5 DEF PodLost
    <3> QED
      BY <1>2, <2>1, <2>3, <3>1, <3>2
  <2>6. CASE DeploymentStatus(u)
    <3>1. \A w \in Users : dep'[w].exists = dep[w].exists /\ dep'[w].replicas = dep[w].replicas
      BY <2>6 DEF DeploymentStatus, TypeOK, Deployments
    <3>2. pod' = pod
      BY <2>6 DEF DeploymentStatus
    <3>3. \A w \in Users : Calm(w)
      BY <2>1, <2>2, <3>1, <3>2 DEF Calm
    <3> QED
      BY <1>2, <2>1, <3>3
  <2>7. CASE DuplicateClaim(u) \/ RemoveDuplicate(u)
    <3>1. UNCHANGED <<dep, pod>>
      BY <2>7 DEF DuplicateClaim, RemoveDuplicate
    <3> QED
      BY <1>2, <2>1, <2>2, <3>1, UntouchedCalm
  <2> QED
    BY <1>6, <2>4, <2>5, <2>6, <2>7 DEF Cluster
<1>7. CASE Deliver
  <2> DEFINE e == Head(events)
  <2>1. /\ cache' = [cache EXCEPT ![e.user] = e.obj] /\ events # <<>>
        /\ UNCHANGED <<ws, dep, pod, sweepTodo, faults>>
    BY <1>7 DEF Deliver, infra, sweeper
  <2>2. /\ events \in Seq([user: Users, obj: Workspace])
        /\ Len(events) \in Nat /\ DOMAIN events = 1..Len(events)
    BY LenProperties DEF TypeOK
  <2>3. AtMostOne => Len(events) = 1
    <3>1. Len(events) # 0
      BY <2>1, <2>2, EmptySeq
    <3> QED
      BY <2>2, <3>1 DEF AtMostOne
  <2>4. e = events[1]
    BY <2>1, <2>2
  <2>5. ASSUME AtMostOne
        PROVE  e.obj = ws[e.user]
    <3>1. DOMAIN events = 1..1
      BY <2>2, <2>3, <2>5
    <3> QED
      BY <2>4, <3>1 DEF ReapInv, LastEvent
  <2>6. AtMostOne => \A w \in Users : cache'[w] = cache[w] \/ cache'[w] = ws[w]
    BY <2>1, <2>5 DEF TypeOK
  <2> QED
    BY <1>2, <2>1, <2>6 DEF Calm
<1>8. CASE Resync \/ ReapList \/ EditApp \/ MigrationEnds
  <2>1. UNCHANGED <<ws, dep, pod, cache, sweepTodo, faults>>
    BY <1>8 DEF Resync, ReapList, EditApp, MigrationEnds, api, infra, sweeper, work
  <2> QED
    BY <1>2, <2>1, UntouchedCalm
<1>9. CASE Crash
  <2>1. /\ UNCHANGED <<ws, dep, pod, faults>> /\ sweepTodo' = {}
        /\ \A w \in Users : cache'[w] = NoWorkspace
    BY <1>9 DEF Crash, infra
  <2>2. NoWorkspace.phase = "absent"
    BY DEF NoWorkspace
  <2>3. \A w \in Users : Calm(w)
    BY <2>1, <2>2 DEF Calm
  <2> QED
    BY <1>2, <2>1, <2>3
<1>10. CASE Start
  <2>1. UNCHANGED <<ws, dep, pod, sweepTodo, faults>> /\ cache' = ws
    BY <1>10 DEF Start, api, infra
  <2> QED
    BY <1>2, <2>1 DEF Calm
<1>11. CASE SweepList
  <2>1. /\ UNCHANGED <<ws, dep, pod, cache, faults>>
        /\ sweepTodo' = {w \in Users : cache[w].phase = "Starting"}
    BY <1>11 DEF SweepList, api, infra, work
  <2> QED
    BY <1>2, <2>1 DEF Calm
<1>12. CASE Tick
  <2>1. UNCHANGED <<dep, pod, sweepTodo, faults>>
    BY <1>12 DEF Tick, infra
  <2> QED
    BY <1>12, <2>1, TickGentle DEF Calm, Gentle
<1>13. CASE UNCHANGED vars
  BY <1>2, <1>13, UntouchedCalm DEF vars, api, infra, work, sweeper
<1> QED
  BY <1>3, <1>4, <1>5, <1>6, <1>7, <1>8, <1>9, <1>10, <1>11, <1>12, <1>13 DEF Next

-----------------------------------------------------------------------------
(* Idle and Starting.                                                      *)

\* A pass that undoes Quiet had missed a write, and loses its own.
LEMMA PassQuiet ==
  ASSUME TypeOK, ReapInv, NEW u \in Users, Reconcile(u), Quiet(u),
         ~(~Current(u) /\ faults' > faults)
  PROVE  Quiet(u)'
<1>1. PICK obj \in Workspace, d \in Deployments :
        /\ Row(u, obj, d)
        /\ ws'[u] = obj /\ dep'[u] = d /\ pod' = pod
  BY PassEffect
<1>2. Quiet(u)' <=> (obj.phase = "Idle" => ~(d.exists /\ d.replicas = 1) /\ pod[u].st = "none")
  BY <1>1 DEF Quiet, Wanted
<1>3. ASSUME d = dep[u], obj.phase = ws[u].phase \/ obj.phase # "Idle"
      PROVE  Quiet(u)'
  BY <1>2, <1>3 DEF Quiet, Wanted
<1>4. CASE obj.phase # "Idle"
  BY <1>2, <1>4
<1>5. CASE Like(obj, ws[u]) /\ d = dep[u]
  BY <1>3, <1>5 DEF Like
<1>6. CASE /\ cache[u].phase = "Pending" /\ obj.phase \in {ws[u].phase, "Starting"}
           /\ Fault
  <2>1. faults' > faults
    BY <1>6, BoundsAssumption DEF Fault, TypeOK
  <2>2. cache[u] = ws[u]
    BY <2>1, PassCopy
  <2> QED
    BY <1>4, <1>6, <2>2
<1>7. CASE /\ cache[u].phase = "Starting" /\ obj.phase = ws[u].phase /\ d = dep[u]
  BY <1>3, <1>7
<1>8. CASE /\ cache[u].phase = "Ready" /\ Lowered(u, d)
           /\ obj.phase = ws[u].phase \/ (obj.phase = "Idle" /\ PodsGone(u))
  <2>1. ~(d.exists /\ d.replicas = 1) \/ d = dep[u]
    BY <1>8 DEF Lowered
  <2>2. obj.phase = "Idle" => pod[u].st = "none"
    BY <1>8 DEF PodsGone, Quiet
  <2>3. d.exists = dep[u].exists /\ (dep[u].exists => d.replicas = 0)
    BY <1>8 DEF Lowered
  <2> QED
    BY <1>2, <2>2, <2>3
<1> QED
  BY <1>1, <1>4, <1>5, <1>6, <1>7, <1>8 DEF Row

\* IdleMeansNothingRuns, for every set of users, every lag of the informer and
\* any number of errors, crashes, edits and requests: the row that says Idle has
\* scaled the Deployment down and found no pod, only an admission scales it up
\* again, and an admission that read the current Workspace says Starting of it.
THEOREM IdleIsIdle == Spec => IdleMeansNothingRuns
<1> DEFINE Held == \A u \in Users :
                     Quiet(u) => Quiet(u)' \/ (~Current(u) /\ faults' > faults)
<1>1. Init => ReapInv
  BY DEF Init, ReapInv, DownQuiet, CacheView, LastEvent, FreshSnap, Current
<1>2. TypeOK /\ ReapInv /\ [Next]_vars => ReapInv'
  BY NextReapInv
<1>3. TypeOK /\ ReapInv /\ [Next]_vars => [Held]_vars
  <2> SUFFICES ASSUME TypeOK, ReapInv, [Next]_vars PROVE Held
    OBVIOUS
  <2>1. ASSUME NEW u \in Users, Reconcile(u)
        PROVE  Held
    <3>1. \A w \in Users \ {u} : ws'[w] = ws[w] /\ dep'[w] = dep[w] /\ pod' = pod
      BY <2>1, PassEffect DEF Others
    <3>2. \A w \in Users \ {u} : Quiet(w) => Quiet(w)'
      BY <3>1 DEF Quiet, Wanted
    <3> QED
      BY <2>1, <3>2, PassQuiet
  <2>2. ASSUME NEW w \in Users, Gentle(w), Calm(w), Quiet(w)
        PROVE  Quiet(w)'
    <3>1. ws'[w].phase = "Idle" => ws[w].phase = "Idle"
      BY <2>2 DEF Gentle, SameRow, Created, Reaped, Armed
    <3> QED
      BY <2>2, <3>1 DEF Quiet, Wanted, Calm
  <2> QED
    BY <2>1, <2>2, OtherSteps
<1> QED
  BY <1>1, <1>2, <1>3, TypeCorrect, PTL DEF Spec, IdleMeansNothingRuns

\* A Workspace that is or was served has its Deployment, in whatever copy it is
\* said to be: Deployments are not deleted before their Workspace.
Founded(u, w) == w.scaledDown \/ w.phase = "Ready" => dep[u].exists

Foundations ==
  /\ \A u \in Users : Founded(u, ws[u]) /\ Founded(u, cache[u])
  /\ \A i \in DOMAIN events : Founded(events[i].user, events[i].obj)

\* Every step keeps Deployments, and serves or scales down none without one.
LEMMA FoundedStep ==
  ASSUME TypeOK, ReapInv, [Next]_vars, NEW w \in Users, Founded(w, ws[w])
  PROVE  (dep[w].exists => dep'[w].exists) /\ Founded(w, ws[w])'
<1>1. ASSUME NEW u \in Users, Reconcile(u)
      PROVE  (dep[w].exists => dep'[w].exists) /\ Founded(w, ws[w])'
  <2>1. PICK obj \in Workspace, d \in Deployments :
          /\ Row(u, obj, d) /\ ws'[u] = obj /\ dep'[u] = d
          /\ Others(u) /\ \A v \in Users \ {u} : dep'[v] = dep[v]
    BY <1>1, PassEffect
  <2>2. dep[u].exists => d.exists
    BY <2>1 DEF Row, Raised, Lowered
  <2>3. /\ obj.scaledDown => ws[u].scaledDown
        /\ obj.phase = "Ready" => ws[u].phase = "Ready" \/ dep[u].exists
    BY <2>1 DEF Row, Like, Keeps
  <2>4. CASE w = u
    BY <2>1, <2>2, <2>3, <2>4 DEF Founded
  <2>5. CASE w # u
    BY <2>1, <2>5 DEF Founded, Others
  <2> QED
    BY <2>4, <2>5
<1>2. CASE Gentle(w) /\ Calm(w)
  <2>1. ws'[w].scaledDown \/ ws'[w].phase = "Ready" => ws[w].scaledDown \/ ws[w].phase = "Ready"
    BY <1>2 DEF Gentle, SameRow, Created, Reaped, Armed
  <2> QED
    BY <1>2, <2>1 DEF Founded, Calm
<1> QED
  BY <1>1, <1>2, OtherSteps

\* A copy is made from another one or from what is written.
LEMMA FoundationsStep ==
  ASSUME TypeOK, ReapInv, Foundations, [Next]_vars
  PROVE  Foundations'
<1> DEFINE E == [user: Users, obj: Workspace]
           n == Len(events)
<1>1. \A w \in Users : (dep[w].exists => dep'[w].exists) /\ Founded(w, ws[w])'
  BY FoundedStep DEF Foundations
<1>2. /\ events \in Seq(E) /\ n \in Nat /\ DOMAIN events = 1..n
      /\ \A i \in 1..n : events[i] \in E
  <2>1. events \in Seq(E) /\ n \in Nat /\ DOMAIN events = 1..n
    BY LenProperties DEF TypeOK
  <2> QED
    BY <2>1, ElementOfSeq
<1>3. ASSUME UNCHANGED cache
      PROVE  \A w \in Users : Founded(w, cache[w])'
  BY <1>1, <1>3 DEF Foundations, Founded
<1>4. ASSUME UNCHANGED events
      PROVE  \A i \in DOMAIN events' : Founded(events[i].user, events[i].obj)'
  <2>1. \A i \in 1..n : events[i].user \in Users
    BY <1>2
  <2> QED
    BY <1>1, <1>2, <1>4, <2>1 DEF Foundations, Founded
<1>5. ASSUME NEW u \in Users, NEW obj \in Workspace, Put(u, obj)
      PROVE  \A i \in DOMAIN events' : Founded(events[i].user, events[i].obj)'
  <2>1. CASE UNCHANGED events
    BY <1>4, <2>1
  <2>2. CASE events' = Append(events, [user |-> u, obj |-> obj])
    <3>1. [user |-> u, obj |-> obj] \in E
      OBVIOUS
    <3>2. /\ DOMAIN events' = 1..(n + 1)
          /\ events'[n + 1] = [user |-> u, obj |-> obj]
          /\ \A i \in 1..n : events'[i] = events[i]
      BY <1>2, <2>2, <3>1, AppendProperties, LenProperties
    <3>3. ws'[u] = obj
      BY <1>5, PutOne
    <3>4. ASSUME NEW i, i = n + 1
          PROVE  Founded(events[i].user, events[i].obj)'
      <4>1. events'[i].user = u /\ events'[i].obj = ws'[u]
        BY <3>2, <3>3, <3>4
      <4> QED
        BY <1>1, <4>1 DEF Founded
    <3>5. ASSUME NEW i \in 1..n
          PROVE  Founded(events[i].user, events[i].obj)'
      <4>1. events'[i] = events[i] /\ events[i].user \in Users
        BY <1>2, <3>2
      <4> QED
        BY <1>1, <1>2, <4>1 DEF Foundations, Founded
    <3>6. \A i \in 1..(n + 1) : i = n + 1 \/ i \in 1..n
      BY <1>2
    <3> QED
      BY <3>2, <3>4, <3>5, <3>6
  <2> QED
    BY <1>5, <2>1, <2>2 DEF Put, api
<1>6. ASSUME UNCHANGED <<events, cache>>
      PROVE  Foundations'
  BY <1>1, <1>3, <1>4, <1>6 DEF Foundations
<1>7. ASSUME NEW u \in Users, NEW obj \in Workspace, Put(u, obj), UNCHANGED cache
      PROVE  Foundations'
  BY <1>1, <1>3, <1>5, <1>7 DEF Foundations
<1>8. ASSUME NEW u \in Users, Reconcile(u)
       PROVE  Foundations'
  BY <1>7, <1>8, PassEffect
<1>9. ASSUME NEW u \in Users, Router(u)
       PROVE  Foundations'
  <2>1. /\ UNCHANGED api \/ \E obj \in Workspace : Put(u, obj)
        /\ UNCHANGED cache
    BY <1>9, RouterWrites DEF work
  <2> QED
    BY <1>6, <1>7, <2>1 DEF api
<1>10. ASSUME NEW u \in Users, ReapWrite(u)
       PROVE  Foundations'
  <2>1. reapSnap[u] \in Workspace
    BY DEF TypeOK
  <2>2. [reapSnap[u] EXCEPT !.scaledDown = TRUE] \in Workspace
    BY <2>1 DEF Workspace
  <2>3. /\ UNCHANGED api \/ Put(u, [reapSnap[u] EXCEPT !.scaledDown = TRUE])
        /\ UNCHANGED cache
    BY <1>10 DEF ReapWrite, work
  <2> QED
    BY <1>6, <1>7, <2>2, <2>3 DEF api
<1>11. ASSUME NEW u \in Users, SweepOne(u)
       PROVE  Foundations'
  <2> DEFINE s   == sweepSnap[u]
             new == IF dep[u].exists THEN Extended(s, sweepGap) ELSE StartFailed(s)
  <2>1. s \in Workspace /\ ws[u] \in Workspace /\ sweepGap \in Nat
    BY TimingAssumption DEF TypeOK
  <2>2. new \in Workspace
    BY <2>1, RowsTyped, StartFailedTyped
  <2>3. MergePatch(ws[u], s, new) \in Workspace
    BY <2>1, <2>2, MergePatchTyped
  <2>4. /\ Put(u, MergePatch(ws[u], s, new)) \/ UNCHANGED api
        /\ UNCHANGED cache
    BY <1>11 DEF SweepOne, work
  <2> HIDE DEF s, new
  <2> QED
    BY <1>6, <1>7, <2>3, <2>4 DEF api
<1>12. ASSUME NEW u \in Users, Cluster(u)
       PROVE  Foundations'
  <2>1. UNCHANGED <<events, cache>>
    BY <1>12 DEF Cluster, PodCreated, PodStops, PodGone, PodStuck, PodReady, PodLost,
                 DeploymentStatus, DuplicateClaim, RemoveDuplicate, SetPod, api, work
  <2> QED
    BY <1>6, <2>1
<1>13. CASE Deliver
  <2> DEFINE e == Head(events)
  <2>1. /\ cache' = [cache EXCEPT ![e.user] = e.obj]
        /\ events' = Tail(events) /\ events # <<>> /\ dep' = dep
    BY <1>13 DEF Deliver, infra
  <2>2. n > 0 /\ e = events[1]
    <3>1. n # 0
      BY <1>2, <2>1, EmptySeq
    <3> QED
      BY <1>2, <2>1, <3>1
  <2>3. e.user \in Users /\ Founded(e.user, e.obj)
    BY <1>2, <2>2 DEF Foundations
  <2>4. \A w \in Users : Founded(w, cache[w])'
    <3> HIDE DEF e
    <3> QED
      BY <2>1, <2>3 DEF TypeOK, Foundations, Founded
  <2>5. /\ DOMAIN events' = 1..(n - 1)
        /\ \A i \in 1..(n - 1) : events'[i] = events[i + 1] /\ i + 1 \in 1..n
    <3>1. Tail(events) \in Seq(E) /\ Len(Tail(events)) = n - 1
      BY <1>2, <2>1, HeadTailProperties
    <3>2. \A i \in 1..(n - 1) : Tail(events)[i] = events[i + 1]
      BY <1>2, <2>1, <3>1, HeadTailProperties
    <3> QED
      BY <1>2, <2>1, <3>1, <3>2, LenProperties
  <2>6. \A i \in DOMAIN events' : Founded(events[i].user, events[i].obj)'
    BY <1>2, <2>1, <2>5 DEF Foundations, Founded
  <2> QED
    BY <1>1, <2>4, <2>6 DEF Foundations
<1>14. CASE Tick
  <2>1. \A x \in Workspace : Aged(x).phase = x.phase /\ Aged(x).scaledDown = x.scaledDown
    BY DEF Aged, Workspace
  <2>2. \A w \in Users : cache[w] \in Workspace /\ cache'[w] = Aged(cache[w])
    BY <1>14 DEF Tick, TypeOK
  <2>3. \A w \in Users : Founded(w, cache[w])'
    BY <1>1, <2>1, <2>2 DEF Foundations, Founded
  <2>4. /\ DOMAIN events' = 1..n
        /\ \A i \in 1..n : /\ events'[i].user = events[i].user
                           /\ events'[i].obj = Aged(events[i].obj)
    BY <1>2, <1>14 DEF Tick
  <2>5. ASSUME NEW i \in 1..n
        PROVE  Founded(events[i].user, events[i].obj)'
    <3>1. /\ events[i].user \in Users /\ events[i].obj \in Workspace
          /\ Founded(events[i].user, events[i].obj)
      BY <1>2 DEF Foundations
    <3> QED
      BY <1>1, <2>1, <2>4, <3>1 DEF Founded
  <2> QED
    BY <1>1, <2>3, <2>4, <2>5 DEF Foundations
<1>15. CASE Crash
  <2>1. events' = <<>> /\ \A w \in Users : cache'[w] = NoWorkspace
    BY <1>15 DEF Crash
  <2>2. \A w \in Users : Founded(w, cache[w])'
    BY <2>1 DEF Founded, NoWorkspace
  <2>3. DOMAIN events' = {}
    BY <2>1
  <2> QED
    BY <1>1, <2>2, <2>3 DEF Foundations
<1>16. CASE Start
  <2>1. cache' = ws /\ ws' = ws /\ UNCHANGED events
    BY <1>16 DEF Start, api
  <2>2. \A w \in Users : Founded(w, cache[w])'
    BY <1>1, <2>1 DEF Founded
  <2> QED
    BY <1>1, <1>4, <2>1, <2>2 DEF Foundations
<1>17. CASE Resync \/ ReapList \/ SweepList \/ EditApp \/ MigrationEnds \/ UNCHANGED vars
  BY <1>6, <1>17 DEF Resync, ReapList, SweepList, EditApp, MigrationEnds, vars, api, work
<1> QED
  BY <1>8, <1>9, <1>10, <1>11, <1>12, <1>13, <1>14, <1>15, <1>16, <1>17 DEF Next

\* StartingHasDeployment, for every set of users, every lag of the informer and
\* any number of errors, crashes, edits and second claims: an admission leaves a
\* Deployment that asks for its pod, and only a scale-down of a copy that missed
\* the start takes that back.
THEOREM StartingStarts == Spec => StartingHasDeployment
<1> DEFINE Held == \A u \in Users :
                     Backed(u) =>
                       \/ Backed(u)'
                       \/ cache[u].phase = "Pending" /\ faults' > faults
                       \/ cache[u].phase = "Ready" /\ cache[u].scaledDown /\ ~Current(u)
           Inv  == ReapInv /\ Foundations
<1>1. Init => Inv
  <2> SUFFICES ASSUME Init PROVE Inv
    OBVIOUS
  <2>1. ReapInv
    BY DEF Init, ReapInv, DownQuiet, CacheView, LastEvent, FreshSnap, Current
  <2>2. \A u \in Users : Founded(u, ws[u]) /\ Founded(u, cache[u])
    BY DEF Init, Founded, NoWorkspace
  <2> QED
    BY <2>1, <2>2 DEF Init, Foundations
<1>2. TypeOK /\ Inv /\ [Next]_vars => Inv'
  BY NextReapInv, FoundationsStep
<1>3. TypeOK /\ Inv /\ [Next]_vars => [Held]_vars
  <2> SUFFICES ASSUME TypeOK, ReapInv, Foundations, [Next]_vars PROVE Held
    OBVIOUS
  <2>1. ASSUME NEW u \in Users, Reconcile(u)
        PROVE  Held
    <3>1. PICK obj \in Workspace, d \in Deployments :
            /\ Row(u, obj, d) /\ ws'[u] = obj /\ dep'[u] = d
            /\ Others(u) /\ \A w \in Users \ {u} : dep'[w] = dep[w]
      BY <2>1, PassEffect
    <3>2. \A w \in Users \ {u} : Backed(w) => Backed(w)'
      BY <3>1 DEF Backed, Wanted, Others
    <3>3. ASSUME Backed(u),
                 ~(cache[u].phase = "Pending" /\ faults' > faults),
                 ~(cache[u].phase = "Ready" /\ cache[u].scaledDown /\ ~Current(u))
          PROVE  Backed(u)'
      <4>1. Backed(u)' <=> (obj.phase = "Starting" => d.exists /\ d.replicas = 1)
        BY <3>1 DEF Backed, Wanted
      <4>2. ~(cache[u].phase = "Pending" /\ Fault)
        BY <3>3, BoundsAssumption DEF Fault, TypeOK
      <4>3. cache[u].scaledDown => dep[u].exists
        BY DEF Foundations, Founded
      <4>4. CASE cache[u].phase = "Pending" /\ Raised(u, d)
        BY <4>1, <4>3, <4>4 DEF Raised
      <4>5. CASE cache[u].phase = "Ready" /\ cache[u].scaledDown
                 /\ obj.phase \in {ws[u].phase, "Idle"}
        <5>1. cache[u] = ws[u]
          BY <2>1, <3>3, <4>5, PassCopy
        <5> QED
          BY <4>1, <4>5, <5>1
      <4>6. CASE d = dep[u] /\ (obj.phase = ws[u].phase \/ obj.phase # "Starting")
        BY <3>3, <4>1, <4>6 DEF Backed, Wanted
      <4> QED
        BY <3>1, <4>2, <4>4, <4>5, <4>6 DEF Row, Like
    <3> QED
      BY <3>2, <3>3
  <2>2. ASSUME NEW w \in Users, Gentle(w), Calm(w), Backed(w)
        PROVE  Backed(w)'
    <3>1. ws'[w].phase = "Starting" => ws[w].phase = "Starting"
      BY <2>2 DEF Gentle, SameRow, Created, Reaped, Armed
    <3> QED
      BY <2>2, <3>1 DEF Backed, Wanted, Calm
  <2> QED
    BY <2>1, <2>2, OtherSteps
<1> QED
  BY <1>1, <1>2, <1>3, TypeCorrect, PTL DEF Spec, StartingHasDeployment

-----------------------------------------------------------------------------
(* The refinement.                                                         *)

PhaseOf == [u \in Users |-> IF ws[u].phase = "none" THEN "Pending" ELSE ws[u].phase]
DrainOf == [u \in Users |-> ws[u].scaledDown]
WantOf  == [u \in Users |-> Wanted(u)]
ServeOf == [u \in Users |-> dep[u].exists /\ dep[u].ready]
RunOf   == [u \in Users |-> pod[u].st # "none"]

Same == PhaseOf' = PhaseOf /\ DrainOf' = DrainOf
SameDep == WantOf' = WantOf /\ ServeOf' = ServeOf

Takes(u, from) == PhaseOf[u] = from \/ ~Current(u)

ContractStep == Contract!Next \/ UNCHANGED Contract!vars

\* The contract's steps, in terms of the mapped state.
LEMMA ContractHear ==
  ASSUME Same, SameDep, RunOf' = RunOf
  PROVE  ContractStep
BY DEF ContractStep, Contract!Next, Contract!Hear, Contract!object, Contract!pods,
       Same, SameDep, PhaseOf, DrainOf, WantOf, ServeOf, RunOf

\* The rows of the switch.
LEMMA ContractRows ==
  ASSUME NEW u \in Users, RunOf' = RunOf, ServeOf' = ServeOf,
         \/ /\ Takes(u, "Pending") /\ DrainOf' = DrainOf
            /\ PhaseOf' = [PhaseOf EXCEPT ![u] = "Starting"] \/ PhaseOf' = PhaseOf
            /\ WantOf' = [WantOf EXCEPT ![u] = TRUE] \/ WantOf' = WantOf
         \/ /\ Takes(u, "Starting") /\ ServeOf[u] /\ DrainOf' = DrainOf /\ WantOf' = WantOf
            /\ PhaseOf' = [PhaseOf EXCEPT ![u] = "Ready"]
         \/ /\ Takes(u, "Starting") /\ DrainOf' = DrainOf /\ WantOf' = WantOf
            /\ PhaseOf' = [PhaseOf EXCEPT ![u] = "Failed"]
         \/ /\ Takes(u, "Failed") /\ DrainOf' = DrainOf /\ WantOf' = WantOf
            /\ PhaseOf' = [PhaseOf EXCEPT ![u] = "Pending"]
         \/ /\ Takes(u, "Ready") /\ (DrainOf[u] \/ ~Current(u)) /\ DrainOf' = DrainOf
            /\ WantOf' = [WantOf EXCEPT ![u] = FALSE]
            /\ \/ PhaseOf' = [PhaseOf EXCEPT ![u] = "Idle"] /\ ~RunOf[u]
               \/ PhaseOf' = PhaseOf
         \/ /\ Takes(u, "Ready") \/ Takes(u, "Idle")
            /\ WantOf' = WantOf /\ PhaseOf' = [PhaseOf EXCEPT ![u] = "Pending"]
            /\ \/ DrainOf' = [DrainOf EXCEPT ![u] = FALSE]
               \/ ~Current(u) /\ DrainOf' = DrainOf
  PROVE  ContractStep
<1>1. \/ Contract!Begin(u) \/ Contract!Serve(u) \/ Contract!GiveUp(u)
      \/ Contract!Retry(u) \/ Contract!Drain(u) \/ Contract!Wake(u)
  BY DEF Contract!Begin, Contract!Serve, Contract!GiveUp, Contract!Retry,
         Contract!Drain, Contract!Wake, Contract!Says, Contract!Asks, Contract!Took,
         Contract!pods, Takes, PhaseOf, DrainOf, WantOf, ServeOf, RunOf
<1> QED
  BY <1>1 DEF ContractStep, Contract!Next

\* Creation, the reaper's decision and the cluster's steps.
LEMMA ContractOthers ==
  ASSUME NEW u \in Users, WantOf' = WantOf,
         \/ /\ PhaseOf[u] = "absent" /\ PhaseOf' = [PhaseOf EXCEPT ![u] = "Pending"]
            /\ DrainOf' = [DrainOf EXCEPT ![u] = FALSE]
            /\ ServeOf' = ServeOf /\ RunOf' = RunOf
         \/ /\ PhaseOf[u] = "Ready" /\ ~DrainOf[u] /\ PhaseOf' = PhaseOf
            /\ DrainOf' = [DrainOf EXCEPT ![u] = TRUE]
            /\ ServeOf' = ServeOf /\ RunOf' = RunOf
         \/ /\ WantOf[u] /\ ~RunOf[u] /\ RunOf' = [RunOf EXCEPT ![u] = TRUE]
            /\ Same /\ ServeOf' = ServeOf
         \/ /\ RunOf[u] /\ RunOf' = [RunOf EXCEPT ![u] = FALSE]
            /\ Same /\ ServeOf' = ServeOf
         \/ /\ ServeOf' = [ServeOf EXCEPT ![u] = ~ServeOf[u]]
            /\ Same /\ RunOf' = RunOf
  PROVE  ContractStep
<1>1. \/ Contract!Create(u) \/ Contract!Reap(u) \/ Contract!PodComes(u)
      \/ Contract!PodGoes(u) \/ Contract!PodReports(u)
  BY DEF Contract!Create, Contract!Reap, Contract!PodComes, Contract!PodGoes,
         Contract!PodReports, Contract!Says, Contract!object, Contract!pods,
         Same, PhaseOf, DrainOf, WantOf, ServeOf, RunOf
<1> QED
  BY <1>1 DEF ContractStep, Contract!Next

\* A step that changes one Workspace changes one phase and one decision.
LEMMA OneMoves ==
  ASSUME NEW u \in Users, Others(u), NEW p, NEW b,
         p = IF ws'[u].phase = "none" THEN "Pending" ELSE ws'[u].phase,
         b = ws'[u].scaledDown
  PROVE  /\ PhaseOf' = [PhaseOf EXCEPT ![u] = p]
         /\ DrainOf' = [DrainOf EXCEPT ![u] = b]
         /\ p = PhaseOf[u] => PhaseOf' = PhaseOf
         /\ b = ws[u].scaledDown => DrainOf' = DrainOf
BY DEF Others, PhaseOf, DrainOf

\* A step that changes one Deployment changes at most one wish, and no report if
\* it leaves its readiness alone.
LEMMA OneDeployment ==
  ASSUME TypeOK, NEW u \in Users, NEW d \in Deployments, dep'[u] = d,
         \A w \in Users \ {u} : dep'[w] = dep[w]
  PROVE  /\ d.exists /\ d.replicas = 1 => WantOf' = [WantOf EXCEPT ![u] = TRUE]
         /\ ~(d.exists /\ d.replicas = 1) => WantOf' = [WantOf EXCEPT ![u] = FALSE]
         /\ (d.exists /\ d.replicas = 1 <=> Wanted(u)) => WantOf' = WantOf
         /\ (d.exists /\ d.ready <=> dep[u].exists /\ dep[u].ready) => ServeOf' = ServeOf
BY DEF WantOf, ServeOf, Wanted

\* A pass is a step of the contract.
LEMMA PassImplements ==
  ASSUME TypeOK, ReapInv, NEW u \in Users, Reconcile(u)
  PROVE  ContractStep
<1> DEFINE c == cache[u]
           w == ws[u]
<1>1. PICK obj \in Workspace, d \in Deployments :
        /\ Row(u, obj, d) /\ ws'[u] = obj /\ dep'[u] = d
        /\ Others(u) /\ \A v \in Users \ {u} : dep'[v] = dep[v]
        /\ pod' = pod
  BY PassEffect
<1>2. RunOf' = RunOf
  BY <1>1 DEF RunOf
<1>3. PICK p, b : /\ p = IF obj.phase = "none" THEN "Pending" ELSE obj.phase
                  /\ b = obj.scaledDown
  OBVIOUS
<1>4. /\ PhaseOf' = [PhaseOf EXCEPT ![u] = p]
      /\ DrainOf' = [DrainOf EXCEPT ![u] = b]
      /\ p = PhaseOf[u] => PhaseOf' = PhaseOf
      /\ b = w.scaledDown => DrainOf' = DrainOf
  BY <1>1, <1>3, OneMoves
<1>5. /\ PhaseOf[u] = IF w.phase = "none" THEN "Pending" ELSE w.phase
      /\ DrainOf[u] = w.scaledDown
  BY DEF PhaseOf, DrainOf
<1>6. /\ d.exists /\ d.replicas = 1 => WantOf' = [WantOf EXCEPT ![u] = TRUE]
      /\ ~(d.exists /\ d.replicas = 1) => WantOf' = [WantOf EXCEPT ![u] = FALSE]
      /\ (d.exists /\ d.replicas = 1 <=> Wanted(u)) => WantOf' = WantOf
      /\ (d.exists /\ d.ready <=> dep[u].exists /\ dep[u].ready) => ServeOf' = ServeOf
  BY <1>1, OneDeployment
<1>7. d = dep[u] => SameDep
  BY <1>6 DEF SameDep, Wanted
<1>8. Current(u) => c = w
  BY PassCopy
<1> HIDE DEF c, w
<1>9. \A q \in {"Pending", "Starting", "Ready", "Idle", "Failed"} :
        c.phase = q => Takes(u, q)
  BY <1>5, <1>8 DEF Takes
<1>10. CASE Like(obj, w) /\ d = dep[u]
  <2>1. Same /\ SameDep
    BY <1>3, <1>4, <1>5, <1>7, <1>10 DEF Like, Same
  <2> QED
    BY <1>2, <2>1, ContractHear
<1>11. CASE c.phase \in {"none", "Failed"} /\ obj.phase = "Pending"
            /\ obj.scaledDown = w.scaledDown /\ d = dep[u]
  <2>1. PhaseOf' = [PhaseOf EXCEPT ![u] = "Pending"] /\ DrainOf' = DrainOf /\ SameDep
    BY <1>3, <1>4, <1>7, <1>11
  <2>2. CASE Takes(u, "Failed")
    BY <1>2, <2>1, <2>2, ContractRows DEF SameDep
  <2>3. CASE ~Takes(u, "Failed")
    <3>1. c = w /\ c.phase = "none"
      BY <1>8, <1>9, <1>11, <2>3 DEF Takes
    <3>2. Same
      BY <1>3, <1>4, <1>5, <1>11, <2>1, <3>1 DEF Same
    <3> QED
      BY <1>2, <2>1, <3>2, ContractHear
  <2> QED
    BY <2>2, <2>3
<1>12. CASE c.phase = "Pending" /\ obj.phase \in {w.phase, "Starting"} /\ Keeps(obj, w)
            /\ (Raised(u, d) \/ d = dep[u])
  <2>1. PhaseOf' = [PhaseOf EXCEPT ![u] = "Starting"] \/ PhaseOf' = PhaseOf
    BY <1>3, <1>4, <1>5, <1>12
  <2>2. DrainOf' = DrainOf
    BY <1>3, <1>4, <1>12 DEF Keeps
  <2>3. (WantOf' = [WantOf EXCEPT ![u] = TRUE] \/ WantOf' = WantOf) /\ ServeOf' = ServeOf
    <3>1. CASE d = dep[u]
      BY <1>7, <3>1 DEF SameDep
    <3>2. CASE Raised(u, d)
      <4>1. d.exists /\ d.ready <=> dep[u].exists /\ dep[u].ready
        BY <3>2 DEF Raised
      <4>2. d.replicas = 1 \/ ~dep[u].exists
        BY <3>2 DEF Raised
      <4>3. d.exists
        BY <3>2 DEF Raised
      <4> QED
        BY <1>6, <4>1, <4>2, <4>3 DEF Wanted
    <3> QED
      BY <1>12, <3>1, <3>2
  <2>4. Takes(u, "Pending")
    BY <1>9, <1>12
  <2> QED
    BY <1>2, <2>1, <2>2, <2>3, <2>4, ContractRows
<1>13. CASE c.phase = "Starting" /\ obj.phase = w.phase
            /\ obj.scaledDown = w.scaledDown /\ d = dep[u]
  <2>1. Same /\ SameDep
    BY <1>3, <1>4, <1>5, <1>7, <1>13 DEF Same
  <2> QED
    BY <1>2, <2>1, ContractHear
<1>14. CASE c.phase = "Starting" /\ obj.phase \in {"Ready", "Failed"}
            /\ obj.scaledDown = w.scaledDown /\ d = dep[u]
            /\ (obj.phase = "Ready" => dep[u].exists /\ dep[u].ready)
  <2>1. /\ PhaseOf' = [PhaseOf EXCEPT ![u] = obj.phase] /\ DrainOf' = DrainOf /\ SameDep
        /\ Takes(u, "Starting")
    BY <1>3, <1>4, <1>7, <1>9, <1>14
  <2>2. obj.phase = "Ready" => ServeOf[u]
    BY <1>14 DEF ServeOf
  <2> QED
    BY <1>2, <1>14, <2>1, <2>2, ContractRows DEF SameDep
<1>15. CASE c.phase = "Ready" /\ c.scaledDown /\ Keeps(obj, w) /\ Lowered(u, d)
            /\ (obj.phase = w.phase \/ (obj.phase = "Idle" /\ PodsGone(u)))
  <2>1. Takes(u, "Ready") /\ (DrainOf[u] \/ ~Current(u)) /\ DrainOf' = DrainOf
    BY <1>3, <1>4, <1>5, <1>8, <1>9, <1>15 DEF Keeps
  <2>2. WantOf' = [WantOf EXCEPT ![u] = FALSE] /\ ServeOf' = ServeOf
    <3>1. ~(d.exists /\ d.replicas = 1)
      BY <1>15 DEF Lowered
    <3>2. d.exists /\ d.ready <=> dep[u].exists /\ dep[u].ready
      BY <1>15 DEF Lowered
    <3> QED
      BY <1>6, <3>1, <3>2
  <2>3. \/ PhaseOf' = [PhaseOf EXCEPT ![u] = "Idle"] /\ ~RunOf[u]
        \/ PhaseOf' = PhaseOf
    BY <1>3, <1>4, <1>5, <1>15 DEF PodsGone, RunOf
  <2> QED
    BY <1>2, <2>1, <2>2, <2>3, ContractRows
<1>16. CASE /\ c.phase \in {"Ready", "Idle"} /\ obj.phase = "Pending" /\ d = dep[u]
            /\ obj.scaledDown = IF c.scaledDown THEN FALSE ELSE w.scaledDown
  <2>1. PhaseOf' = [PhaseOf EXCEPT ![u] = "Pending"] /\ SameDep
    BY <1>3, <1>4, <1>7, <1>16
  <2>2. Takes(u, "Ready") \/ Takes(u, "Idle")
    BY <1>9, <1>16
  <2>3. \/ DrainOf' = [DrainOf EXCEPT ![u] = FALSE]
        \/ ~Current(u) /\ DrainOf' = DrainOf
    <3>1. CASE c.scaledDown
      BY <1>3, <1>4, <1>16, <3>1
    <3>2. CASE ~c.scaledDown /\ Current(u)
      <4>1. b = FALSE
        <5>1. ~b /\ b = w.scaledDown
          BY <1>3, <1>8, <1>16, <3>2
        <5>2. w.scaledDown \in BOOLEAN
          BY DEF w, TypeOK, Workspace
        <5> QED
          BY <5>1, <5>2
      <4> QED
        BY <1>4, <4>1
    <3>3. CASE ~c.scaledDown /\ ~Current(u)
      BY <1>3, <1>4, <1>16, <3>3
    <3> QED
      BY <3>1, <3>2, <3>3
  <2> QED
    BY <1>2, <2>1, <2>2, <2>3, ContractRows DEF SameDep
<1> QED
  BY <1>1, <1>10, <1>11, <1>12, <1>13, <1>14, <1>15, <1>16 DEF Row, Keeps, c, w

\* So is every other step.
LEMMA OthersImplement ==
  ASSUME TypeOK, ReapInv, [Next]_vars, ~\E u \in Users : Reconcile(u)
  PROVE  ContractStep
<1>1. ASSUME UNCHANGED <<ws, dep, pod>>
      PROVE  ContractStep
  <2>1. Same /\ SameDep /\ RunOf' = RunOf
    BY <1>1 DEF Same, SameDep, PhaseOf, DrainOf, WantOf, ServeOf, RunOf, Wanted
  <2> QED
    BY <2>1, ContractHear
<1>2. ASSUME NEW u \in Users, Gentle(u), Others(u), UNCHANGED <<dep, pod>>
      PROVE  ContractStep
  <2>1. RunOf' = RunOf /\ SameDep
    BY <1>2 DEF RunOf, SameDep, WantOf, ServeOf, Wanted
  <2>2. PICK p, b : /\ p = IF ws'[u].phase = "none" THEN "Pending" ELSE ws'[u].phase
                    /\ b = ws'[u].scaledDown
    OBVIOUS
  <2>3. /\ PhaseOf' = [PhaseOf EXCEPT ![u] = p]
        /\ DrainOf' = [DrainOf EXCEPT ![u] = b]
        /\ p = PhaseOf[u] => PhaseOf' = PhaseOf
        /\ b = ws[u].scaledDown => DrainOf' = DrainOf
    BY <1>2, <2>2, OneMoves
  <2>4. /\ PhaseOf[u] = IF ws[u].phase = "none" THEN "Pending" ELSE ws[u].phase
        /\ DrainOf[u] = ws[u].scaledDown
    BY DEF PhaseOf, DrainOf
  <2>5. ws'[u].scaledDown \in BOOLEAN
    <3>1. ws'[u] \in Workspace
      BY NextTyped DEF TypeOK
    <3> QED
      BY <3>1 DEF Workspace
  <2>6. CASE SameRow(u) \/ Armed(u)
    <3>1. p = PhaseOf[u] /\ b = ws[u].scaledDown
      BY <2>2, <2>4, <2>6 DEF SameRow, Armed
    <3> QED
      BY <2>1, <2>3, <3>1, ContractHear DEF Same
  <2>7. CASE Created(u)
    <3>1. PhaseOf[u] = "absent" /\ p = "Pending" /\ b = FALSE
      BY <2>2, <2>4, <2>5, <2>7 DEF Created
    <3> QED
      BY <2>1, <2>3, <3>1, ContractOthers DEF SameDep
  <2>8. CASE Reaped(u)
    <3>1. PhaseOf[u] = "Ready" /\ PhaseOf' = PhaseOf /\ ~DrainOf[u] /\ b = TRUE
      BY <2>2, <2>3, <2>4, <2>5, <2>8 DEF Reaped
    <3> QED
      BY <2>1, <2>3, <3>1, ContractOthers DEF SameDep
  <2> QED
    BY <1>2, <2>6, <2>7, <2>8 DEF Gentle
<1>3. ASSUME NEW u \in Users, Router(u) \/ ReapWrite(u) \/ SweepOne(u)
      PROVE  ContractStep
  <2>1. UNCHANGED <<dep, pod>>
    BY <1>3, RouterWrites DEF ReapWrite, SweepOne, infra
  <2> QED
    BY <1>2, <1>3, <2>1, RouterGentle, ReaperGentle, SweepGentle DEF Gentle
<1>4. CASE Tick
  <2>1. RunOf' = RunOf /\ SameDep
    BY <1>4 DEF Tick, infra, RunOf, SameDep, WantOf, ServeOf, Wanted
  <2>2. Same
    BY <1>4, TickGentle DEF SameRow, Same, PhaseOf, DrainOf
  <2> QED
    BY <2>1, <2>2, ContractHear
<1>5. ASSUME NEW u \in Users, Cluster(u)
      PROVE  ContractStep
  <2>1. Same
    BY <1>5 DEF Cluster, PodCreated, PodStops, PodGone, PodStuck, PodReady, PodLost,
                DeploymentStatus, DuplicateClaim, RemoveDuplicate, SetPod, api,
                Same, PhaseOf, DrainOf
  <2>2. ASSUME UNCHANGED dep
        PROVE  SameDep
    BY <2>2 DEF SameDep, WantOf, ServeOf, Wanted
  <2>3. CASE PodCreated(u)
    <3>1. Wanted(u) /\ pod[u].st = "none" /\ SameDep
      BY <2>2, <2>3 DEF PodCreated, SetPod, Wanted
    <3>2. WantOf[u] /\ ~RunOf[u] /\ RunOf' = [RunOf EXCEPT ![u] = TRUE]
      BY <2>3, <3>1 DEF PodCreated, SetPod, TypeOK, RunOf, WantOf
    <3> QED
      BY <2>1, <3>1, <3>2, ContractOthers DEF SameDep
  <2>4. CASE PodGone(u) \/ PodLost(u)
    <3>1. pod[u].st # "none" /\ pod' = [pod EXCEPT ![u] = NoPod] /\ SameDep
      BY <2>2, <2>4 DEF PodGone, PodLost, SetPod
    <3>2. RunOf[u] /\ RunOf' = [RunOf EXCEPT ![u] = FALSE]
      BY <3>1 DEF TypeOK, RunOf, NoPod
    <3> QED
      BY <2>1, <3>1, <3>2, ContractOthers DEF SameDep
  <2>5. CASE PodStops(u) \/ PodStuck(u) \/ PodReady(u)
    <3>1. PICK x \in {"terminating", "pulling", "attach", "crash", "ready"} :
            pod' = [pod EXCEPT ![u] = [pod[u] EXCEPT !.st = x]] /\ pod[u].st # "none"
      BY <2>5, BoundsAssumption DEF PodStops, PodStuck, PodReady, SetPod
    <3>2. pod'[u].st # "none" /\ \A w \in Users \ {u} : pod'[w] = pod[w]
      BY <3>1 DEF TypeOK, Pods
    <3>3. RunOf' = RunOf
      BY <3>1, <3>2 DEF RunOf
    <3>4. SameDep
      BY <2>2, <2>5 DEF PodStops, PodStuck, PodReady, SetPod
    <3> QED
      BY <2>1, <3>3, <3>4, ContractHear
  <2>6. CASE DeploymentStatus(u)
    <3>1. /\ dep[u].exists /\ dep[u].ready # (pod[u].st = "ready")
          /\ dep' = [dep EXCEPT ![u].ready = (pod[u].st = "ready")] /\ pod' = pod
      BY <2>6 DEF DeploymentStatus
    <3>2. \A w \in Users \ {u} : dep'[w] = dep[w]
      BY <3>1 DEF TypeOK
    <3>3. /\ dep'[u].exists /\ dep'[u].replicas = dep[u].replicas
          /\ dep'[u].ready = ~dep[u].ready
      BY <3>1 DEF TypeOK, Deployments
    <3>4. RunOf' = RunOf /\ WantOf' = WantOf
      BY <3>1, <3>2, <3>3 DEF RunOf, WantOf, Wanted
    <3>5. ServeOf' = [ServeOf EXCEPT ![u] = ~ServeOf[u]]
      BY <3>1, <3>2, <3>3 DEF ServeOf
    <3> QED
      BY <2>1, <3>4, <3>5, ContractOthers
  <2>7. CASE DuplicateClaim(u) \/ RemoveDuplicate(u)
    <3>1. RunOf' = RunOf /\ SameDep
      BY <2>2, <2>7 DEF DuplicateClaim, RemoveDuplicate, RunOf
    <3> QED
      BY <2>1, <3>1, ContractHear
  <2> QED
    BY <1>5, <2>3, <2>4, <2>5, <2>6, <2>7 DEF Cluster
<1>6. CASE Deliver \/ Resync \/ ReapList \/ Crash \/ Start \/ SweepList
           \/ EditApp \/ MigrationEnds \/ UNCHANGED vars
  <2>1. UNCHANGED <<ws, dep, pod>>
    BY <1>6 DEF Deliver, Resync, ReapList, Crash, Start, SweepList, EditApp,
                MigrationEnds, vars, api, infra
  <2> QED
    BY <1>1, <2>1
<1> QED
  BY <1>3, <1>4, <1>5, <1>6 DEF Next

\* ImplementsContract, for every set of users, every lag of the informer and any
\* number of errors, crashes, edits and requests: a Workspace whose latest write
\* was read moves along the rows of Reconcile's switch and a wake undoes its
\* scale-down; one whose latest write was not is still called Ready only if it
\* serves and Idle only if it is scaled down and gone.
THEOREM Refinement == Spec => ImplementsContract
<1>1. Init => Contract!Init
  <2> SUFFICES ASSUME Init PROVE Contract!Init
    OBVIOUS
  <2>1. \A u \in Users : ws[u] = NoWorkspace /\ pod[u] = NoPod /\ dep[u] = NoDeployment
    BY DEF Init
  <2>2. /\ NoWorkspace.phase = "absent" /\ NoWorkspace.scaledDown = FALSE
        /\ NoPod.st = "none" /\ NoDeployment.exists = FALSE
    BY DEF NoWorkspace, NoPod, NoDeployment
  <2>3. /\ PhaseOf = [u \in Users |-> "absent"]
        /\ DrainOf = [u \in Users |-> FALSE]
    BY <2>1, <2>2 DEF PhaseOf, DrainOf
  <2>4. /\ WantOf = [u \in Users |-> FALSE]
        /\ ServeOf = [u \in Users |-> FALSE]
        /\ RunOf = [u \in Users |-> FALSE]
    BY <2>1, <2>2 DEF WantOf, ServeOf, RunOf, Wanted
  <2>5. {u \in Users : ~Current(u)} = {}
    BY DEF Init, Current
  <2> QED
    BY <2>3, <2>4, <2>5 DEF Contract!Init, PhaseOf, DrainOf, WantOf, ServeOf, RunOf
<1>2. Init => ReapInv
  BY DEF Init, ReapInv, DownQuiet, CacheView, LastEvent, FreshSnap, Current
<1>3. TypeOK /\ ReapInv /\ [Next]_vars => ReapInv' /\ [Contract!Next]_(Contract!vars)
  BY NextReapInv, PassImplements, OthersImplement DEF ContractStep
<1> QED
  BY <1>1, <1>2, <1>3, TypeCorrect, PTL DEF Spec, ImplementsContract, Contract!Spec

-----------------------------------------------------------------------------
(* The bound on starts.                                                    *)

Holds(w) == w.phase = "Starting" /\ w.backoff = Nil

\* Of all rows of Reconcile only the admission takes a slot.
LEMMA OnlyAdmissionStarts ==
  ASSUME TypeOK, ReapInv, NEW u \in Users, Reconcile(u), ~MayAdmit(u)
  PROVE  Holds(ws'[u]) => Holds(ws[u])
<1>1. PICK obj \in Workspace, d \in Deployments : Row(u, obj, d) /\ ws'[u] = obj
  BY PassEffect
<1> QED
  BY <1>1 DEF Row, Like, Keeps, Holds

\* Those of whom the informer has not heard the latest.
Undelivered == {w \in Users : ~Current(w)}

\* They are no more than the events on their way.
LEMMA UndeliveredCount ==
  ASSUME TypeOK
  PROVE  /\ IsFiniteSet(Undelivered)
         /\ Cardinality(Undelivered) \in Nat /\ Len(events) \in Nat
         /\ Cardinality(Undelivered) <= Len(events)
<1> DEFINE n == Len(events)
           f == [i \in 1..n |-> events[i].user]
<1>1. /\ events \in Seq([user: Users, obj: Workspace])
      /\ n \in Nat /\ DOMAIN events = 1..n
  BY LenProperties DEF TypeOK
<1>2. \A i \in 1..n : events[i].user \in Users
  <2>1. \A i \in 1..n : events[i] \in [user: Users, obj: Workspace]
    BY <1>1, ElementOfSeq
  <2> QED
    BY <2>1
<1>3. f \in Surjection(1..n, Undelivered)
  <2>1. \A i \in 1..n : f[i] \in Undelivered
    BY <1>1, <1>2 DEF Undelivered, Current
  <2>2. \A w \in Undelivered : \E i \in 1..n : f[i] = w
    BY <1>1 DEF Undelivered, Current
  <2> QED
    BY <2>1, <2>2 DEF Surjection
<1>4. IsFiniteSet(1..n) /\ Cardinality(1..n) = n
  BY <1>1, FS_Interval
<1> HIDE DEF f, n
<1>5. IsFiniteSet(Undelivered) /\ Cardinality(Undelivered) <= n
  BY <1>3, <1>4, FS_Surjection
<1>6. Cardinality(Undelivered) \in Nat
  BY <1>5, FS_CardinalityType
<1> QED
  BY <1>1, <1>5, <1>6 DEF n

\* The starts the Admitter does not count are among them.
LEMMA StartsSeen ==
  ASSUME TypeOK, ReapInv, up
  PROVE  /\ Cardinality(Starts) \in Nat /\ Cardinality(Occupied) \in Nat
         /\ Cardinality(Starts) <= Cardinality(Occupied) + Len(events)
<1> DEFINE U == Occupied \cup Undelivered
<1>1. \A S \in SUBSET Users : IsFiniteSet(S) /\ Cardinality(S) \in Nat
  BY BoundsAssumption, FS_Subset, FS_CardinalityType
<1>2. /\ Starts \in SUBSET Users /\ Occupied \in SUBSET Users
      /\ Undelivered \in SUBSET Users /\ U \in SUBSET Users
      /\ Occupied \cap Undelivered \in SUBSET Users
  BY DEF Starts, Starting, Occupied, Undelivered
<1>3. Starts \subseteq U
  BY DEF ReapInv, CacheView, Undelivered, Starts, Starting, Occupied
<1>4. Cardinality(Starts) <= Cardinality(U)
  BY <1>1, <1>2, <1>3, FS_Subset
<1>5. Cardinality(U) = Cardinality(Occupied) + Cardinality(Undelivered)
                         - Cardinality(Occupied \cap Undelivered)
  BY <1>1, <1>2, FS_Union
<1> HIDE DEF U
<1> QED
  BY <1>1, <1>2, <1>4, <1>5, UndeliveredCount

SlotsKept == Cardinality(Starts) < MaxConcurrentStarts + MaxLag

\* A slot is taken only by an admitted Workspace, when the Admitter counts one
\* free; the starts it misses are among those it has not heard the latest of.
LEMMA SlotsStep ==
  ASSUME TypeOK, ReapInv, SlotsKept, [Next]_vars
  PROVE  SlotsKept'
<1>1. \A S \in SUBSET Users : IsFiniteSet(S) /\ Cardinality(S) \in Nat
  BY BoundsAssumption, FS_Subset, FS_CardinalityType
<1>2. /\ Starts \in SUBSET Users /\ Starts' \in SUBSET Users
      /\ MaxConcurrentStarts \in Nat /\ MaxLag \in Nat
  BY BoundsAssumption DEF Starts, Starting
<1>3. ASSUME Starts' \subseteq Starts
      PROVE  SlotsKept'
  <2>1. Cardinality(Starts') <= Cardinality(Starts)
    BY <1>1, <1>2, <1>3, FS_Subset
  <2> QED
    BY <1>1, <1>2, <2>1 DEF SlotsKept
<1>4. ASSUME NEW u \in Users, Reconcile(u)
      PROVE  SlotsKept'
  <2>1. Others(u) /\ up /\ Room
    BY <1>4, PassEffect, PassRuns
  <2>2. Starts' \subseteq Starts \cup {u}
    BY <2>1 DEF Starts, Starting, Others
  <2>3. CASE MayAdmit(u)
    <3>1. /\ Cardinality(Starts) \in Nat /\ Cardinality(Occupied) \in Nat
          /\ Cardinality(Starts) <= Cardinality(Occupied) + Len(events)
      BY <2>1, StartsSeen
    <3>2. Cardinality(Occupied) < MaxConcurrentStarts
      <4>1. Cardinality(Ahead(u)) \in Nat
        BY <1>1 DEF Ahead, Candidates
      <4> QED
        BY <1>2, <2>3, <3>1, <4>1 DEF MayAdmit, Slots
    <3>3. Len(events) < MaxLag /\ Len(events) \in Nat
      BY <2>1, UndeliveredCount DEF Room
    <3>4. Cardinality(Starts \cup {u}) <= Cardinality(Starts) + 1
      <4>1. Cardinality(Starts \cup {u})
              = IF u \in Starts THEN Cardinality(Starts) ELSE Cardinality(Starts) + 1
        BY <1>1, <1>2, FS_AddElement
      <4> QED
        BY <1>1, <1>2, <4>1
    <3>5. /\ Cardinality(Starts') <= Cardinality(Starts \cup {u})
          /\ Cardinality(Starts') \in Nat /\ Cardinality(Starts \cup {u}) \in Nat
      <4>1. Starts \cup {u} \in SUBSET Users
        BY <1>2
      <4> QED
        BY <1>1, <1>2, <2>2, <4>1, FS_Subset
    <3> QED
      BY <1>2, <3>1, <3>2, <3>3, <3>4, <3>5 DEF SlotsKept
  <2>4. CASE ~MayAdmit(u)
    <3>1. u \in Starts' => u \in Starts
      BY <1>4, <2>4, OnlyAdmissionStarts DEF Holds, Starts, Starting
    <3> QED
      BY <1>3, <2>2, <3>1
  <2> QED
    BY <2>3, <2>4
<1>5. ASSUME \A w \in Users : Gentle(w)
      PROVE  Starts' \subseteq Starts
  BY <1>5 DEF Starts, Starting, Gentle, SameRow, Created, Reaped, Armed
<1> QED
  BY <1>3, <1>4, <1>5, OtherSteps

-----------------------------------------------------------------------------
(* An informer that keeps up.                                              *)

\* As long as no call failed, what starts has its Deployment, also in the
\* informer's and the sweep's eyes, and no Workspace carries the backoffUntil of
\* an earlier start.
Settled(u) ==
  /\ ws[u].phase = "Starting" => dep[u].exists
  /\ ws[u].phase # "Failed" => ws[u].backoff = Nil
  /\ cache[u].phase = "Starting" => dep[u].exists
  /\ u \in sweepTodo => dep[u].exists

LifeInv == AtMostOne /\ (faults = 0 => \A u \in Users : Settled(u))

\* A writer that had room found nothing undelivered.
LEMMA NothingUndelivered ==
  ASSUME MaxLag = 1, TypeOK, Room, up
  PROVE  events = <<>>
<1>1. events \in Seq([user: Users, obj: Workspace]) /\ Len(events) \in Nat
  BY LenProperties DEF TypeOK
<1>2. Len(events) = 0
  BY <1>1 DEF Room
<1> QED
  BY <1>1, <1>2, EmptySeq

\* A pass reads what the API server holds.
LEMMA PassIsCurrent ==
  ASSUME MaxLag = 1, TypeOK, ReapInv, NEW u \in Users, Reconcile(u)
  PROVE  up /\ Room /\ events = <<>> /\ cache = ws
<1>1. up /\ Room
  BY PassRuns
<1>2. events = <<>>
  BY <1>1, NothingUndelivered
<1>3. \A w \in Users : cache[w] = ws[w]
  BY <1>1, <1>2 DEF ReapInv, CacheView, Current
<1> QED
  BY <1>1, <1>2, <1>3 DEF TypeOK

\* A step that is no pass keeps it.
LEMMA GentleSettled ==
  ASSUME NEW u \in Users, AtMostOne, Settled(u), Gentle(u), Calm(u)
  PROVE  Settled(u)'
<1>1. CASE SameRow(u)
  BY <1>1 DEF Settled, Calm, SameRow
<1>2. CASE Created(u)
  BY <1>2 DEF Settled, Calm, Created
<1>3. CASE Reaped(u)
  BY <1>3 DEF Settled, Calm, Reaped
<1>4. CASE Armed(u)
  BY <1>4 DEF Settled, Calm, Armed
<1> QED
  BY <1>1, <1>2, <1>3, <1>4 DEF Gentle

\* So does a pass in which no call fails.
LEMMA PassSettled ==
  ASSUME MaxLag = 1, TypeOK, ReapInv, \A w \in Users : Settled(w),
         NEW u \in Users, Reconcile(u), ~Fault
  PROVE  \A w \in Users : Settled(w)'
<1>1. PICK obj \in Workspace, d \in Deployments :
        /\ Row(u, obj, d)
        /\ ws'[u] = obj /\ dep'[u] = d
        /\ Others(u) /\ \A w \in Users \ {u} : dep'[w] = dep[w]
        /\ UNCHANGED <<cache, sweepTodo>>
  BY PassEffect
<1>2. \A w \in Users \ {u} : Settled(w)'
  BY <1>1 DEF Settled, Others
<1>3. Settled(u) /\ cache[u] = ws[u]
  BY PassIsCurrent
<1>4. dep[u].exists => d.exists
  BY <1>1 DEF Row, Raised, Lowered
<1>5. (obj.phase # "Failed" => obj.backoff = Nil) /\ (obj.phase = "Starting" => d.exists)
  <2>1. CASE cache[u].phase = "Pending" /\ Keeps(obj, ws[u]) /\ Raised(u, d)
    BY <1>3, <2>1 DEF Settled, Keeps, Raised
  <2>2. CASE Like(obj, ws[u])
    BY <1>3, <1>4, <2>2 DEF Settled, Like
  <2>3. CASE cache[u].phase = "none" /\ Keeps(obj, ws[u]) /\ obj.phase = "Pending"
    BY <1>3, <2>3 DEF Settled, Keeps
  <2>4. CASE cache[u].phase = "Starting" /\ obj.phase = "Ready" /\ Keeps(obj, ws[u])
    BY <1>3, <2>4 DEF Settled, Keeps
  <2>5. CASE obj.phase = "Failed" \/ (obj.phase = "Pending" /\ obj.backoff = Nil)
    BY <2>5
  <2>6. CASE cache[u].phase \in {"Ready", "Idle"} /\ obj.backoff = ws[u].backoff
             /\ obj.phase \in {ws[u].phase, "Idle", "Pending"}
    BY <1>3, <2>6 DEF Settled
  <2> QED
    BY <1>1, <2>1, <2>2, <2>3, <2>4, <2>5, <2>6 DEF Row, Keeps
<1>6. Settled(u)'
  BY <1>1, <1>3, <1>4, <1>5 DEF Settled
<1> QED
  BY <1>2, <1>6

\* The informer that keeps up is never more than one event behind.
LEMMA LagStep ==
  ASSUME MaxLag = 1, TypeOK, ReapInv, AtMostOne, [Next]_vars
  PROVE  AtMostOne'
<1>1. /\ events \in Seq([user: Users, obj: Workspace])
      /\ Len(events) \in Nat /\ Len(events) <= 1
  BY LenProperties DEF TypeOK, AtMostOne
<1>2. ASSUME UNCHANGED events
      PROVE  AtMostOne'
  BY <1>2 DEF AtMostOne
<1>3. ASSUME NEW u \in Users, NEW obj, Room, Put(u, obj)
      PROVE  AtMostOne'
  <2>1. CASE ~up \/ obj = ws[u]
    BY <1>2, <1>3, <2>1 DEF Put, api
  <2>2. CASE up /\ obj # ws[u]
    <3>1. events = <<>>
      BY <1>3, <2>2, NothingUndelivered
    <3>2. events' = Append(<<>>, [user |-> u, obj |-> obj])
      BY <1>3, <2>2, <3>1 DEF Put
    <3> QED
      BY <3>2 DEF AtMostOne
  <2> QED
    BY <2>1, <2>2
<1>4. ASSUME NEW u \in Users, Reconcile(u)
      PROVE  AtMostOne'
  BY <1>3, <1>4, PassIsCurrent, ReconcileIsPass DEF PassEnds, Finish
<1>5. ASSUME NEW u \in Users, ReapWrite(u) \/ SweepOne(u)
      PROVE  AtMostOne'
  BY <1>2, <1>3, <1>5 DEF ReapWrite, SweepOne, api
<1>6. ASSUME NEW u \in Users, Router(u)
      PROVE  AtMostOne'
  BY <1>2, <1>3, <1>6
     DEF Router, ArriveNew, Arrive, EnsureEnqueuedAt, RequestWake, PollServable,
         HoldExpires, Touch, OpenConnection, CloseConnection, RequestEnds, api
<1>7. ASSUME NEW u \in Users, Cluster(u)
      PROVE  AtMostOne'
  BY <1>2, <1>7
     DEF Cluster, PodCreated, PodStops, PodGone, PodStuck, PodReady, PodLost,
         DeploymentStatus, DuplicateClaim, RemoveDuplicate, SetPod, api
<1>8. CASE Deliver
  <2>1. events # <<>> /\ events' = Tail(events)
    BY <1>8 DEF Deliver
  <2>2. Len(Tail(events)) = Len(events) - 1
    BY <1>1, <2>1, HeadTailProperties
  <2> QED
    BY <1>1, <2>1, <2>2 DEF AtMostOne
<1>9. CASE Crash
  <2>1. events' = <<>>
    BY <1>9 DEF Crash
  <2> QED
    BY <2>1 DEF AtMostOne
<1>10. CASE Tick
  <2>1. events' = [i \in 1..Len(events) |-> [events[i] EXCEPT !.obj = Aged(@)]]
    BY <1>1, <1>10, LenProperties DEF Tick
  <2>2. Len(events') = Len(events)
    BY <1>1, <2>1
  <2> QED
    BY <1>1, <2>2 DEF AtMostOne
<1>11. CASE Resync \/ ReapList \/ Start \/ SweepList \/ EditApp \/ MigrationEnds
            \/ UNCHANGED vars
  BY <1>2, <1>11 DEF Resync, ReapList, Start, SweepList, EditApp, MigrationEnds, vars, api
<1> QED
  BY <1>4, <1>5, <1>6, <1>7, <1>8, <1>9, <1>10, <1>11 DEF Next

\* The invariant holds throughout.
LEMMA LifeInvariant ==
  ASSUME MaxLag = 1
  PROVE  Spec => [](TypeOK /\ ReapInv /\ LifeInv)
<1>1. Init => ReapInv
  BY DEF Init, ReapInv, DownQuiet, CacheView, LastEvent, FreshSnap, Current
<1>2. Init => LifeInv
  <2> SUFFICES ASSUME Init PROVE LifeInv
    OBVIOUS
  <2>1. AtMostOne
    BY DEF Init, AtMostOne
  <2>2. \A u \in Users : ws[u] = NoWorkspace /\ cache[u] = NoWorkspace
    BY DEF Init
  <2>3. \A u \in Users : Settled(u)
    BY <2>2 DEF Init, Settled, NoWorkspace
  <2> QED
    BY <2>1, <2>3 DEF LifeInv
<1>3. TypeOK /\ ReapInv /\ LifeInv /\ [Next]_vars => LifeInv'
  <2> SUFFICES ASSUME TypeOK, ReapInv, LifeInv, [Next]_vars PROVE LifeInv'
    OBVIOUS
  <2>1. AtMostOne /\ AtMostOne'
    BY LagStep DEF LifeInv
  <2>2. ASSUME NEW u \in Users, Reconcile(u), faults' = 0
        PROVE  \A w \in Users : Settled(w)'
    <3>1. Fault \/ NoFault
      BY <2>2, PassEffect
    <3>2. ~Fault /\ faults = 0
      BY <2>2, <3>1, FaultsGrow
    <3> QED
      BY <2>2, <3>2, PassSettled DEF LifeInv
  <2>3. ASSUME \A w \in Users : Gentle(w) /\ Calm(w), faults' = 0, Users # {}
        PROVE  \A w \in Users : Settled(w)'
    <3>1. faults = 0
      BY <2>3 DEF Calm
    <3> QED
      BY <2>1, <2>3, <3>1, GentleSettled DEF LifeInv
  <2>4. faults' = 0 => \A w \in Users : Settled(w)'
    BY <2>2, <2>3, OtherSteps
  <2> QED
    BY <2>1, <2>4 DEF LifeInv
<1>4. TypeOK /\ ReapInv /\ [Next]_vars => ReapInv'
  BY NextReapInv
<1> QED
  BY <1>1, <1>2, <1>3, <1>4, TypeCorrect, PTL DEF Spec

\* StartsBounded, for every number of users, every maxConcurrentStarts and every
\* lag of the informer: the Admitter passes spec.limits.maxConcurrentStarts by
\* less than the number of events it may be behind by, whatever fails, crashes or
\* is swept, and if it keeps up hides no start from itself.
THEOREM StartsStayBounded == Spec => []StartsBounded
<1>1. Init => ReapInv
  BY DEF Init, ReapInv, DownQuiet, CacheView, LastEvent, FreshSnap, Current
<1>2. Init => SlotsKept
  <2> SUFFICES ASSUME Init PROVE SlotsKept
    OBVIOUS
  <2>1. Starts = {}
    BY DEF Init, Starts, Starting, NoWorkspace
  <2> QED
    BY <2>1, FS_EmptySet, BoundsAssumption DEF SlotsKept
<1>3. TypeOK /\ ReapInv /\ SlotsKept /\ [Next]_vars => ReapInv' /\ SlotsKept'
  BY NextReapInv, SlotsStep
<1>4. Spec => []SlotsKept
  BY <1>1, <1>2, <1>3, TypeCorrect, PTL DEF Spec
<1>5. CASE MaxLag = 1
  <2>1. LifeInv /\ SlotsKept => StartsBounded
    <3> SUFFICES ASSUME LifeInv, SlotsKept PROVE StartsBounded
      OBVIOUS
    <3>1. faults = 0 => Starting = Starts
      BY DEF LifeInv, Settled, Starting, Starts
    <3>2. Cardinality(Starts) \in Nat /\ MaxConcurrentStarts \in Nat
      BY BoundsAssumption, FS_Subset, FS_CardinalityType DEF Starts, Starting
    <3> QED
      BY <1>5, <3>1, <3>2 DEF SlotsKept, StartsBounded
  <2> QED
    BY <1>4, <1>5, <2>1, LifeInvariant, PTL
<1>6. CASE MaxLag # 1
  <2>1. SlotsKept => StartsBounded
    BY <1>6 DEF SlotsKept, StartsBounded
  <2> QED
    BY <1>4, <2>1, PTL
<1> QED
  BY <1>5, <1>6

-----------------------------------------------------------------------------
(* First come, first served.                                               *)

\* NoOvertaking, for every set of users, every maxConcurrentStarts and every lag
\* of the informer: whoever is admitted past an older Pending Workspace that the
\* Admitter sees leaves a slot for it, by the Admitter's count.
THEOREM FirstComeFirstServed == Spec => NoOvertaking
<1> DEFINE Fair == \A u, v \in Users :
                     /\ ws[u].phase = "Pending" /\ ws'[u].phase = "Starting"
                     /\ ws[v].phase = "Pending"
                     /\ Key(ws[v]) < Key(ws[u])
                     /\ Current(u) /\ Current(v)
                     => Cardinality(Starts) + 1 < MaxConcurrentStarts + Len(events)
<1>1. Init => ReapInv
  BY DEF Init, ReapInv, DownQuiet, CacheView, LastEvent, FreshSnap, Current
<1>2. TypeOK /\ ReapInv /\ [Next]_vars => ReapInv'
  BY NextReapInv
<1>3. TypeOK /\ ReapInv /\ [Next]_vars => [Fair]_vars
  <2> SUFFICES ASSUME TypeOK, ReapInv, [Next]_vars,
                      NEW u \in Users, NEW v \in Users,
                      ws[u].phase = "Pending", ws'[u].phase = "Starting",
                      ws[v].phase = "Pending", Key(ws[v]) < Key(ws[u]),
                      Current(u), Current(v)
               PROVE  Cardinality(Starts) + 1 < MaxConcurrentStarts + Len(events)
    OBVIOUS
  <2>1. ~Gentle(u)
    BY DEF Gentle, SameRow, Created, Reaped, Armed
  <2>2. PICK w \in Users : Reconcile(w)
    BY <2>1, OtherSteps
  <2>3. Others(w) /\ up
    BY <2>2, PassEffect, PassRuns
  <2>4. w = u
    BY <2>3 DEF Others
  <2>5. cache[u] = ws[u] /\ cache[v] = ws[v]
    BY <2>3 DEF ReapInv, CacheView
  <2>6. ReconcilePending(u)
    BY <2>2, <2>4, <2>5
       DEF Reconcile, ReconcileFinalizer, ReconcileNew, ReconcileStarting,
           ReconcileReady, ReconcileIdle, ReconcileFailed, Reconciling
  <2>7. ~Put(u, ws[u])
    <3>1. ws[u] \in Workspace
      BY DEF TypeOK
    <3> QED
      BY <3>1, PutOne
  <2>8. MayAdmit(u)
    BY <2>6, <2>7 DEF ReconcilePending, Finish
  <2>9. v \in Ahead(u)
    BY <2>5 DEF Ahead, Candidates
  <2>10. Cardinality(Ahead(u)) \in Nat /\ Cardinality(Ahead(u)) # 0
    <3>1. IsFiniteSet(Ahead(u))
      BY BoundsAssumption, FS_Subset DEF Ahead, Candidates
    <3> QED
      BY <2>9, <3>1, FS_CardinalityType, FS_EmptySet
  <2>11. /\ Cardinality(Starts) \in Nat /\ Cardinality(Occupied) \in Nat
         /\ Cardinality(Starts) <= Cardinality(Occupied) + Len(events)
         /\ Len(events) \in Nat
    BY <2>3, StartsSeen, UndeliveredCount
  <2> QED
    BY <2>8, <2>10, <2>11, BoundsAssumption DEF MayAdmit, Slots
<1> QED
  BY <1>1, <1>2, <1>3, TypeCorrect, PTL DEF Spec, NoOvertaking

=============================================================================
