----------------------- MODULE WorkspaceLifecycleProofs -----------------------
(***************************************************************************)
(* Theorems about the Workspace lifecycle, for every set of users and      *)
(* every value of the other constants: types, the order of claims and      *)
(* Deployments, and the reaper's conditional write.                        *)
(***************************************************************************)
EXTENDS WorkspaceLifecycle, SequenceTheorems, TLAPS

-----------------------------------------------------------------------------
(* The operators on one Workspace stay within its type.                    *)

\* The absent object and a new one are Workspaces.
LEMMA NoWorkspaceTyped == NoWorkspace \in Workspace
BY TimingAssumption DEF NoWorkspace, Workspace, Phases, Reasons

\* A new object, in whatever second it is made, is not scaled down.
LEMMA NewWorkspaceTyped ==
  ASSUME NEW s \in Nat
  PROVE  NewWorkspace(s) \in Workspace /\ ~NewWorkspace(s).scaledDown
<1>1. NewWorkspace(s) \in Workspace
  BY NoWorkspaceTyped DEF NewWorkspace, Workspace, Phases
<1>2. ~NewWorkspace(s).scaledDown
  BY DEF NewWorkspace, NoWorkspace
<1> QED
  BY <1>1, <1>2

\* A merge patch of Workspaces is a Workspace.
LEMMA MergePatchTyped ==
  ASSUME NEW cur \in Workspace, NEW base \in Workspace, NEW new \in Workspace
  PROVE  MergePatch(cur, base, new) \in Workspace
BY DEF MergePatch, Merged, Workspace

\* A tick leaves a Workspace a Workspace.
LEMMA AgedTyped ==
  ASSUME NEW w \in Workspace
  PROVE  Aged(w) \in Workspace
<1> DEFINE b == IF w.backoff = Nil THEN Nil ELSE Later(w.backoff - 1, -1)
           d == IF w.deadline = Nil THEN Nil ELSE Later(w.deadline - 1, -MaxGap)
           l == IF w.last = Nil THEN Nil ELSE Sooner(w.last + 1, IdleTimeout + 1)
<1>1. b \in Int \cup {Nil}
  BY DEF Workspace, Later
<1>2. d \in Int \cup {Nil}
  BY TimingAssumption DEF Workspace, Later
<1>3. l \in Nat \cup {Nil}
  BY TimingAssumption DEF Workspace, Sooner
<1>4. Aged(w) = [w EXCEPT !.backoff = b, !.deadline = d, !.last = l]
  BY DEF Aged
<1> QED
  BY <1>1, <1>2, <1>3, <1>4 DEF Workspace

\* RecordStartFailure leaves a Workspace a Workspace: the backoff of any
\* failure count is defined.
LEMMA StartFailedTyped ==
  ASSUME NEW w \in Workspace
  PROVE  StartFailed(w) \in Workspace
<1> DEFINE n == Sooner(w.fails + 1, MaxFailures)
<1>1. n \in 1..MaxFailures
  BY TimingAssumption DEF Workspace, Sooner
<1>2. BackoffFor[n] \in Int \cup {Nil} /\ n \in 0..MaxFailures
  BY <1>1, TimingAssumption
<1>3. StartFailed(w) = [w EXCEPT !.fails = n, !.backoff = BackoffFor[n]]
  BY DEF StartFailed
<1> QED
  BY <1>2, <1>3 DEF Workspace

\* So does every row of the reconciler's switch, and the sweep's extension.
LEMMA RowsTyped ==
  ASSUME NEW w \in Workspace
  PROVE  /\ Admitted(w) \in Workspace
         /\ RefusedPending(w) \in Workspace
         /\ VolumeRefused(w) \in Workspace
         /\ VolumeAccepted(w) \in Workspace
         /\ BecomeReady(w) \in Workspace
         /\ WakeUp(w) \in Workspace
         /\ Retried(w) \in Workspace
         /\ \A p \in Phases : [w EXCEPT !.phase = p] \in Workspace
         /\ \A p \in Pods : Observed(w, p) \in Workspace
         /\ \A g \in Nat : Extended(w, g) \in Workspace
<1>1. Admitted(w) \in Workspace
  <2>1. StartupTimeout \in Int \cup {Nil} /\ "Starting" \in Phases
    BY TimingAssumption DEF Phases
  <2> QED
    BY <2>1 DEF Admitted, Workspace
<1>2. RefusedPending(w) \in Workspace
  BY DEF RefusedPending, Workspace, Phases
<1>3. VolumeRefused(w) \in Workspace /\ VolumeAccepted(w) \in Workspace
  BY DEF VolumeRefused, VolumeAccepted, Workspace
<1>4. BecomeReady(w) \in Workspace
  <2>1. /\ 0 \in 0..MaxFailures /\ Nil \in Int \cup {Nil}
        /\ "Ready" \in Phases /\ "none" \in Reasons
    BY TimingAssumption DEF Phases, Reasons
  <2> QED
    BY <2>1 DEF BecomeReady, Workspace
<1>5. WakeUp(w) \in Workspace /\ Retried(w) \in Workspace
  BY DEF WakeUp, Retried, Workspace, Phases
<1>6. \A p \in Phases : [w EXCEPT !.phase = p] \in Workspace
  BY DEF Workspace
<1>7. \A p \in Pods : Observed(w, p) \in Workspace
  BY DEF Observed, Workspace, Reasons
<1>8. \A g \in Nat : Extended(w, g) \in Workspace
  BY NilAssumption DEF Extended, Workspace
<1> QED
  BY <1>1, <1>2, <1>3, <1>4, <1>5, <1>6, <1>7, <1>8

-----------------------------------------------------------------------------
(* Types.                                                                  *)

\* A write of a Workspace keeps the API server, the watch and the reaper's
\* versions within their types.
LEMMA PutTyped ==
  ASSUME TypeOK, NEW u \in Users, NEW obj \in Workspace, Put(u, obj)
  PROVE  /\ ws' \in [Users -> Workspace]
         /\ events' \in Seq([user: Users, obj: Workspace])
         /\ reapFresh' \in SUBSET Users
<1> DEFINE E == [user: Users, obj: Workspace]
<1>1. events \in Seq(E) /\ [user |-> u, obj |-> obj] \in E
  BY DEF TypeOK
<1>2. Append(events, [user |-> u, obj |-> obj]) \in Seq(E)
  BY <1>1, AppendProperties
<1>3. CASE obj = ws[u]
  BY <1>3 DEF TypeOK, Put, api
<1>4. CASE obj # ws[u]
  <2>1. ws' = [ws EXCEPT ![u] = obj] /\ reapFresh' = reapFresh \ {u}
    BY <1>4 DEF Put
  <2>2. events' = IF up THEN Append(events, [user |-> u, obj |-> obj]) ELSE events
    BY <1>4 DEF Put
  <2> QED
    BY <1>1, <1>2, <2>1, <2>2 DEF TypeOK
<1> QED
  BY <1>3, <1>4

\* An error, or its absence, keeps the count of errors within its bound.
LEMMA FaultTyped ==
  ASSUME TypeOK, Fault \/ NoFault
  PROVE  faults' \in 0..MaxFaults
BY BoundsAssumption DEF TypeOK, Fault, NoFault

\* The end of a pass keeps every type.
LEMMA FinishTyped ==
  ASSUME TypeOK, Fault \/ NoFault,
         NEW u \in Users, NEW obj \in Workspace, NEW d \in Deployments,
         NEW v \in {"absent", "one", "many"}, NEW again, Finish(u, obj, d, v, again)
  PROVE  TypeOK'
<1>1. /\ ws' \in [Users -> Workspace]
      /\ events' \in Seq([user: Users, obj: Workspace])
      /\ reapFresh' \in SUBSET Users
  BY PutTyped DEF Finish
<1>2. faults' \in 0..MaxFaults
  BY FaultTyped
<1>3. dep' \in [Users -> Deployments] /\ volume' \in [Users -> {"absent", "one", "many"}]
  BY DEF Finish, TypeOK
<1>4. queue' \in SUBSET Users
  BY DEF Finish, TypeOK
<1> QED
  BY <1>1, <1>2, <1>3, <1>4 DEF TypeOK, Finish, reaper, sweeper, process, client

\* What a pass reads and builds has its type.
LEMMA PassTyped ==
  ASSUME TypeOK, NEW u \in Users
  PROVE  /\ ws[u] \in Workspace /\ cache[u] \in Workspace
         /\ dep[u] \in Deployments /\ pod[u] \in Pods
         /\ volume[u] \in {"absent", "one", "many"}
         /\ EnsuredClaim(u) \in {"absent", "one", "many"} /\ EnsuredClaim(u) # "absent"
         /\ \A n \in {0, 1} : EnsuredDeployment(dep[u], n) \in Deployments
         /\ \A w \in Workspace : RenderedDeployment(w) \in Deployments
<1>1. dep[u] \in Deployments /\ appVer \in Nat
  BY BoundsAssumption DEF TypeOK
<1>2. \A n \in {0, 1} : EnsuredDeployment(dep[u], n) \in Deployments
  BY <1>1 DEF EnsuredDeployment, Deployments
<1>3. \A w \in Workspace : RenderedDeployment(w) \in Deployments
  BY <1>1 DEF RenderedDeployment, Deployments
<1>4. EnsuredClaim(u) \in {"absent", "one", "many"} /\ EnsuredClaim(u) # "absent"
  BY DEF TypeOK, EnsuredClaim
<1> QED
  BY <1>1, <1>2, <1>3, <1>4 DEF TypeOK

\* What a pass of Reconcile may leave behind: it ends with one Finish, which
\* does not leave a Deployment without a claim and does not scale a Workspace
\* down; the finalizer's Update alone writes back what the cache held.
PassEnds(u) ==
  \E obj \in Workspace, d \in Deployments, v \in {"absent", "one", "many"},
     again \in BOOLEAN :
    /\ Fault \/ NoFault
    /\ Finish(u, obj, d, v, again)
    /\ (d.exists => v # "absent") \/ (d = dep[u] /\ v = volume[u])
    /\ obj.scaledDown => ws[u].scaledDown \/ (Current(u) /\ cache[u].scaledDown)

\* Only the reaper sets scaledDown: a merge patch of a copy that does not set it
\* does not set it, however stale the copy's base is.
LEMMA MergePatchScaledDown ==
  ASSUME NEW cur \in Workspace, NEW base \in Workspace, NEW new \in Workspace,
         new.scaledDown = base.scaledDown \/ ~new.scaledDown
  PROVE  MergePatch(cur, base, new).scaledDown => cur.scaledDown
BY DEF MergePatch, Merged, Workspace

\* No row of the reconciler's switch sets it, nor does the sweep.
LEMMA RowsScaledDown ==
  ASSUME NEW w \in Workspace
  PROVE  /\ Admitted(w).scaledDown = w.scaledDown
         /\ RefusedPending(w).scaledDown = w.scaledDown
         /\ VolumeRefused(w).scaledDown = w.scaledDown
         /\ VolumeAccepted(w).scaledDown = w.scaledDown
         /\ BecomeReady(w).scaledDown = w.scaledDown
         /\ Retried(w).scaledDown = w.scaledDown
         /\ StartFailed(w).scaledDown = w.scaledDown
         /\ ~WakeUp(w).scaledDown
         /\ \A p \in Phases : [w EXCEPT !.phase = p].scaledDown = w.scaledDown
         /\ \A p \in Pods : Observed(w, p).scaledDown = w.scaledDown
         /\ \A g \in Nat : Extended(w, g).scaledDown = w.scaledDown
BY DEF Admitted, RefusedPending, VolumeRefused, VolumeAccepted, BecomeReady, Retried,
       StartFailed, WakeUp, Observed, Extended, Workspace

\* A pass that ends with the copy st in hand, whether its status patch is lost
\* or not, and one that is interrupted.
LEMMA ConcludeIsPass ==
  ASSUME TypeOK, NEW u \in Users, NEW st \in Workspace, NEW d \in Deployments,
         NEW v \in {"absent", "one", "many"}, NEW again \in BOOLEAN,
         st.scaledDown = cache[u].scaledDown \/ ~st.scaledDown,
         (d.exists => v # "absent") \/ (d = dep[u] /\ v = volume[u]),
         Conclude(u, st, d, v, again) \/ Interrupted(u, st, d, v)
  PROVE  PassEnds(u)
<1>1. ws[u] \in Workspace /\ cache[u] \in Workspace
  BY PassTyped
<1>2. /\ Patched(u, st) \in Workspace
      /\ Patched(u, st).scaledDown => ws[u].scaledDown
  BY <1>1, MergePatchTyped, MergePatchScaledDown DEF Patched
<1>3. CASE NoFault /\ Finish(u, Patched(u, st), d, v, again)
  BY <1>2, <1>3 DEF PassEnds
<1>4. CASE Fault /\ Finish(u, ws[u], d, v, TRUE)
  BY <1>1, <1>4 DEF PassEnds
<1>5. CASE Fault /\ Finish(u, Patched(u, st), d, v, TRUE)
  BY <1>2, <1>5 DEF PassEnds
<1> QED
  BY <1>3, <1>4, <1>5 DEF Conclude, Interrupted

\* Both patches of failStarting, and each alone.
LEMMA FailStartingIsPass ==
  ASSUME TypeOK, NEW u \in Users, NEW st \in Workspace,
         st.scaledDown = cache[u].scaledDown, FailStarting(u, st)
  PROVE  PassEnds(u)
<1> DEFINE failed == [st EXCEPT !.phase = "Failed"]
           armed  == StartFailed(failed)
           first  == MergePatch(ws[u], failed, armed)
           both   == MergePatch(first, cache[u], armed)
<1>1. failed \in Workspace /\ failed.scaledDown = st.scaledDown
  BY RowsTyped, RowsScaledDown DEF Phases
<1>2. armed \in Workspace /\ armed.scaledDown = st.scaledDown
  BY <1>1, StartFailedTyped, RowsScaledDown
<1>3. ws[u] \in Workspace /\ cache[u] \in Workspace
  BY PassTyped
<1>4. first \in Workspace /\ (first.scaledDown => ws[u].scaledDown)
  BY <1>1, <1>2, <1>3, MergePatchTyped, MergePatchScaledDown
<1>5. both \in Workspace /\ (both.scaledDown => ws[u].scaledDown)
  BY <1>2, <1>3, <1>4, MergePatchTyped, MergePatchScaledDown
<1>6. Patched(u, failed) \in Workspace /\ (Patched(u, failed).scaledDown => ws[u].scaledDown)
  BY <1>1, <1>3, MergePatchTyped, MergePatchScaledDown DEF Patched
<1>7. \/ NoFault /\ Finish(u, both, dep[u], EnsuredClaim(u), FALSE)
      \/ Fault /\ Finish(u, Patched(u, failed), dep[u], EnsuredClaim(u), FALSE)
      \/ Fault /\ Finish(u, first, dep[u], EnsuredClaim(u), TRUE)
  BY DEF FailStarting
<1>8. /\ dep[u] \in Deployments
      /\ EnsuredClaim(u) \in {"absent", "one", "many"} /\ EnsuredClaim(u) # "absent"
  BY PassTyped
<1> HIDE DEF failed, armed, first, both
<1> QED
  BY <1>4, <1>5, <1>6, <1>7, <1>8 DEF PassEnds

\* Every row of Reconcile ends that way.
LEMMA ReconcileIsPass ==
  ASSUME TypeOK, NEW u \in Users, Reconcile(u)
  PROVE  PassEnds(u)
<1> DEFINE st == VolumeAccepted(cache[u])
<1>1. /\ ws[u] \in Workspace /\ cache[u] \in Workspace
      /\ dep[u] \in Deployments /\ pod[u] \in Pods
      /\ volume[u] \in {"absent", "one", "many"}
      /\ EnsuredClaim(u) \in {"absent", "one", "many"} /\ EnsuredClaim(u) # "absent"
      /\ EnsuredDeployment(dep[u], 0) \in Deployments
      /\ EnsuredDeployment(dep[u], 1) \in Deployments
  BY PassTyped
<1>2. /\ st \in Workspace /\ st.scaledDown = cache[u].scaledDown
      /\ VolumeRefused(cache[u]) \in Workspace
      /\ VolumeRefused(cache[u]).scaledDown = cache[u].scaledDown
  BY <1>1, RowsTyped, RowsScaledDown
<1>3. ASSUME StorageRefused(u) \/ StorageThenError(u)
      PROVE  PassEnds(u)
  BY <1>1, <1>2, <1>3, ConcludeIsPass DEF StorageRefused, StorageThenError
<1>4. CASE ReconcileFinalizer(u)
  <2> DEFINE upd == [cache[u] EXCEPT !.fin = TRUE]
  <2>1. upd \in Workspace /\ upd.scaledDown = cache[u].scaledDown
    BY <1>1 DEF Workspace
  <2>2. NoFault /\ \/ Current(u) /\ Finish(u, upd, dep[u], volume[u], FALSE)
                   \/ Finish(u, ws[u], dep[u], volume[u], TRUE)
    BY <1>4 DEF ReconcileFinalizer
  <2> HIDE DEF upd
  <2> QED
    BY <1>1, <2>1, <2>2 DEF PassEnds
<1>5. CASE ReconcileNew(u)
  <2> DEFINE new == [cache[u] EXCEPT !.phase = "Pending"]
  <2>1. new \in Workspace /\ new.scaledDown = cache[u].scaledDown
    BY <1>1, RowsTyped, RowsScaledDown DEF Phases
  <2>2. Conclude(u, new, dep[u], volume[u], FALSE)
    BY <1>5 DEF ReconcileNew
  <2> HIDE DEF new
  <2> QED
    BY <1>1, <2>1, <2>2, ConcludeIsPass
<1>6. CASE ReconcilePending(u)
  <2> DEFINE ad == Admitted(cache[u])
             ok == VolumeAccepted(ad)
             no == RefusedPending(cache[u])
             d  == IF dep[u].exists THEN EnsuredDeployment(dep[u], 1)
                                    ELSE RenderedDeployment(ad)
  <2>1. /\ ad \in Workspace /\ ad.scaledDown = cache[u].scaledDown
        /\ no \in Workspace /\ no.scaledDown = cache[u].scaledDown
    BY <1>1, RowsTyped, RowsScaledDown
  <2>2. ok \in Workspace /\ ok.scaledDown = cache[u].scaledDown
    BY <2>1, RowsTyped, RowsScaledDown
  <2>3. d \in Deployments
    BY <1>1, <2>1, PassTyped
  <2>4. \/ NoFault /\ Finish(u, ws[u], dep[u], volume[u], TRUE)
        \/ Conclude(u, no, dep[u], volume[u], FALSE)
        \/ Conclude(u, ok, d, EnsuredClaim(u), FALSE)
        \/ Interrupted(u, ad, dep[u], volume[u])
        \/ Interrupted(u, ok, dep[u], EnsuredClaim(u))
        \/ Interrupted(u, ok, d, EnsuredClaim(u))
        \/ Fault /\ Finish(u, ws[u], dep[u], EnsuredClaim(u), TRUE)
    BY <1>6 DEF ReconcilePending
  <2> HIDE DEF ad, ok, no, d
  <2>5. CASE NoFault /\ Finish(u, ws[u], dep[u], volume[u], TRUE)
    BY <1>1, <2>5 DEF PassEnds
  <2>6. CASE Fault /\ Finish(u, ws[u], dep[u], EnsuredClaim(u), TRUE)
    BY <1>1, <2>6 DEF PassEnds
  <2> QED
    BY <1>1, <2>1, <2>2, <2>3, <2>4, <2>5, <2>6, ConcludeIsPass
<1>7. CASE ReconcileStarting(u)
  <2> DEFINE seen  == Observed(st, pod[u])
             ready == BecomeReady(st)
             fail  == [st EXCEPT !.phase = "Failed"]
  <2>1. /\ seen \in Workspace /\ seen.scaledDown = cache[u].scaledDown
        /\ ready \in Workspace /\ ready.scaledDown = cache[u].scaledDown
        /\ fail \in Workspace /\ fail.scaledDown = cache[u].scaledDown
    BY <1>1, <1>2, RowsTyped, RowsScaledDown DEF Phases
  <2>2. \/ StorageRefused(u) \/ StorageThenError(u)
        \/ Conclude(u, ready, dep[u], EnsuredClaim(u), FALSE)
        \/ Conclude(u, fail, dep[u], EnsuredClaim(u), FALSE)
        \/ FailStarting(u, seen)
        \/ Conclude(u, seen, dep[u], EnsuredClaim(u), TRUE)
    BY <1>7 DEF ReconcileStarting
  <2> HIDE DEF st, seen, ready, fail
  <2> QED
    BY <1>1, <1>3, <2>1, <2>2, ConcludeIsPass, FailStartingIsPass
<1>8. CASE ReconcileReady(u)
  <2> DEFINE d     == EnsuredDeployment(dep[u], 0)
             woken == WakeUp(st)
             idle  == [st EXCEPT !.phase = "Idle"]
  <2>1. /\ woken \in Workspace /\ ~woken.scaledDown
        /\ idle \in Workspace /\ idle.scaledDown = cache[u].scaledDown
    BY <1>2, RowsTyped, RowsScaledDown DEF Phases
  <2>2. \/ StorageRefused(u) \/ StorageThenError(u)
        \/ Conclude(u, woken, dep[u], EnsuredClaim(u), FALSE)
        \/ Conclude(u, idle, d, EnsuredClaim(u), FALSE)
        \/ Conclude(u, st, d, EnsuredClaim(u), TRUE)
        \/ Interrupted(u, st, d, EnsuredClaim(u))
        \/ Conclude(u, st, dep[u], EnsuredClaim(u), FALSE)
    BY <1>8 DEF ReconcileReady
  <2> HIDE DEF st, woken, idle
  <2> QED
    BY <1>1, <1>2, <1>3, <2>1, <2>2, ConcludeIsPass
<1>9. CASE ReconcileIdle(u)
  <2> DEFINE next == IF st.wake THEN WakeUp(st) ELSE st
  <2>1. next \in Workspace /\ (next.scaledDown = cache[u].scaledDown \/ ~next.scaledDown)
    BY <1>2, RowsTyped, RowsScaledDown
  <2>2. \/ StorageRefused(u) \/ StorageThenError(u)
        \/ Conclude(u, next, dep[u], EnsuredClaim(u), FALSE)
    BY <1>9 DEF ReconcileIdle
  <2> HIDE DEF next
  <2> QED
    BY <1>1, <1>3, <2>1, <2>2, ConcludeIsPass
<1>10. CASE ReconcileFailed(u)
  <2> DEFINE next == IF BackoffOver(cache[u]) THEN Retried(cache[u]) ELSE cache[u]
  <2>1. next \in Workspace /\ next.scaledDown = cache[u].scaledDown
    BY <1>1, RowsTyped, RowsScaledDown
  <2>2. Conclude(u, next, dep[u], volume[u], FALSE)
    BY <1>10 DEF ReconcileFailed
  <2> HIDE DEF next
  <2> QED
    BY <1>1, <2>1, <2>2, ConcludeIsPass
<1> QED
  BY <1>4, <1>5, <1>6, <1>7, <1>8, <1>9, <1>10 DEF Reconcile

\* A pass of Reconcile keeps every type.
LEMMA ReconcileTyped ==
  ASSUME TypeOK, NEW u \in Users, Reconcile(u)
  PROVE  TypeOK'
BY ReconcileIsPass, FinishTyped DEF PassEnds

\* The informer's delivery and resync keep every type.
LEMMA InformerTyped ==
  ASSUME TypeOK, Deliver \/ Resync
  PROVE  TypeOK'
<1> DEFINE E == [user: Users, obj: Workspace]
<1>1. CASE Deliver
  <2>1. events \in Seq(E) /\ events # <<>>
    BY <1>1 DEF TypeOK, Deliver
  <2>2. Head(events) \in E /\ Tail(events) \in Seq(E)
    BY <2>1, HeadTailProperties
  <2>3. cache' \in [Users -> Workspace] /\ queue' \in SUBSET Users
    BY <1>1, <2>2 DEF TypeOK, Deliver
  <2> QED
    BY <1>1, <2>2, <2>3 DEF TypeOK, Deliver, infra, reaper, sweeper, process, client
<1>2. CASE Resync
  BY <1>2 DEF TypeOK, Resync, api, infra, reaper, sweeper, process, client
<1> QED
  BY <1>1, <1>2

\* So do the reaper's List and its conditional write.
LEMMA ReaperTyped ==
  ASSUME TypeOK, ReapList \/ \E u \in Users : ReapWrite(u)
  PROVE  TypeOK'
<1>1. CASE ReapList
  <2>1. reapTodo' \in SUBSET Users /\ reapFresh' \in SUBSET Users
    BY <1>1 DEF ReapList
  <2>2. reapSnap' \in [Users -> Workspace]
    BY <1>1, NoWorkspaceTyped DEF TypeOK, ReapList
  <2> QED
    BY <1>1, <2>1, <2>2 DEF TypeOK, ReapList, infra, sweeper, work, process, client
<1>2. ASSUME NEW u \in Users, ReapWrite(u)
      PROVE  TypeOK'
  <2>1. reapSnap[u] \in Workspace
    BY DEF TypeOK
  <2>2. [reapSnap[u] EXCEPT !.scaledDown = TRUE] \in Workspace
    BY <2>1 DEF Workspace
  <2>3. /\ ws' \in [Users -> Workspace]
        /\ events' \in Seq([user: Users, obj: Workspace])
        /\ reapFresh' \in SUBSET Users
    BY <1>2, <2>2, PutTyped DEF ReapWrite, TypeOK, api
  <2>4. faults' \in 0..MaxFaults
    BY <1>2, FaultTyped DEF ReapWrite
  <2>5. reapTodo' \in SUBSET Users /\ reapSnap' \in [Users -> Workspace]
    BY <1>2, NoWorkspaceTyped DEF ReapWrite, TypeOK
  <2> QED
    BY <1>2, <2>3, <2>4, <2>5 DEF TypeOK, ReapWrite, infra, sweeper, work, process, client
<1> QED
  BY <1>1, <1>2

\* So do a crash, a takeover and the sweep that follows it.
LEMMA LeadershipTyped ==
  ASSUME TypeOK, Crash \/ Start \/ SweepList \/ \E u \in Users : SweepOne(u)
  PROVE  TypeOK'
<1>1. CASE Crash
  <2>1. [u \in Users |-> NoWorkspace] \in [Users -> Workspace]
    BY NoWorkspaceTyped
  <2>2. <<>> \in Seq([user: Users, obj: Workspace])
    BY EmptySeq
  <2>3. crashes' \in 0..MaxCrashes /\ gap' \in 0..MaxGap
    BY <1>1, BoundsAssumption, TimingAssumption DEF Crash, TypeOK
  <2> QED
    BY <1>1, <2>1, <2>2, <2>3 DEF TypeOK, Crash, infra, client
<1>2. CASE Start
  <2>1. sweepGap' \in 0..MaxGap /\ gap' \in 0..MaxGap
    BY <1>2, TimingAssumption DEF Start, Leaderless, TypeOK
  <2> QED
    BY <1>2, <2>1 DEF TypeOK, Start, api, infra, reaper, client
<1>3. CASE SweepList
  <2>1. sweepSnap' \in [Users -> Workspace] /\ sweepTodo' \in SUBSET Users
    BY <1>3, NoWorkspaceTyped DEF TypeOK, SweepList
  <2> QED
    BY <1>3, <2>1 DEF TypeOK, SweepList, api, infra, reaper, work, process, client
<1>4. ASSUME NEW u \in Users, SweepOne(u)
      PROVE  TypeOK'
  <2> DEFINE w   == sweepSnap[u]
             new == IF dep[u].exists THEN Extended(w, sweepGap) ELSE StartFailed(w)
  <2>1. w \in Workspace /\ ws[u] \in Workspace /\ sweepGap \in Nat
    BY TimingAssumption DEF TypeOK
  <2>2. new \in Workspace
    BY <2>1, RowsTyped, StartFailedTyped
  <2>3. MergePatch(ws[u], w, new) \in Workspace
    BY <2>1, <2>2, MergePatchTyped
  <2>4. /\ Fault \/ NoFault
        /\ Put(u, MergePatch(ws[u], w, new)) \/ UNCHANGED api
        /\ sweepTodo' \in SUBSET Users
    BY <1>4 DEF SweepOne, TypeOK
  <2> HIDE DEF w, new
  <2>5. /\ ws' \in [Users -> Workspace]
        /\ events' \in Seq([user: Users, obj: Workspace])
        /\ reapFresh' \in SUBSET Users
    BY <2>3, <2>4, PutTyped DEF TypeOK, api
  <2>6. faults' \in 0..MaxFaults
    BY <2>4, FaultTyped
  <2>7. sweepSnap' \in [Users -> Workspace]
    BY <1>4, NoWorkspaceTyped DEF SweepOne, TypeOK
  <2> QED
    BY <1>4, <2>4, <2>5, <2>6, <2>7 DEF TypeOK, SweepOne, infra, reaper, work, process, client
<1> QED
  BY <1>1, <1>2, <1>3, <1>4

\* So does what the cluster and the people who run the app do.
LEMMA ClusterTyped ==
  ASSUME TypeOK, EditApp \/ MigrationEnds \/ \E u \in Users : Cluster(u)
  PROVE  TypeOK'
<1>1. CASE EditApp
  <2>1. appVer' \in 0..MaxEdits
    BY <1>1, BoundsAssumption DEF TypeOK, EditApp
  <2> QED
    BY <1>1, <2>1 DEF TypeOK, EditApp, api, reaper, sweeper, work, process, client
<1>2. CASE MigrationEnds
  BY <1>2 DEF TypeOK, MigrationEnds, api, reaper, sweeper, work, process, client
<1>3. ASSUME NEW u \in Users, NEW p \in Pods, SetPod(u, p)
      PROVE  TypeOK'
  BY <1>3 DEF TypeOK, SetPod, api, reaper, sweeper, work, process, client
<1>4. ASSUME NEW u \in Users, Cluster(u)
      PROVE  TypeOK'
  <2>1. pod[u] \in Pods /\ dep[u].ver \in Nat
    BY DEF TypeOK, Deployments
  <2>2. \A s \in {"starting", "pulling", "attach", "crash", "ready", "terminating"} :
          /\ [pod[u] EXCEPT !.st = s] \in Pods
          /\ [st |-> s, ver |-> dep[u].ver] \in Pods
    BY <2>1 DEF Pods
  <2>3. NoPod \in Pods
    BY DEF NoPod, Pods
  <2>4. CASE PodCreated(u) \/ PodStops(u) \/ PodGone(u) \/ PodStuck(u) \/ PodReady(u)
    <3>1. \E p \in Pods : SetPod(u, p)
      BY <2>2, <2>3, <2>4, BoundsAssumption
         DEF PodCreated, PodStops, PodGone, PodStuck, PodReady
    <3> QED
      BY <3>1, <1>3
  <2>5. CASE PodLost(u)
    <3>1. faults' \in 0..MaxFaults /\ pod' \in [Users -> Pods]
      BY <2>3, <2>5, FaultTyped DEF PodLost, TypeOK
    <3> QED
      BY <2>5, <3>1 DEF TypeOK, PodLost, api, reaper, sweeper, work, process, client
  <2>6. CASE DeploymentStatus(u)
    <3> DEFINE b == (pod[u].st = "ready")
    <3>1. b \in BOOLEAN /\ dep[u] \in Deployments
      BY DEF TypeOK
    <3>2. dep' = [dep EXCEPT ![u].ready = b]
      BY <2>6 DEF DeploymentStatus
    <3>3. queue' \in SUBSET Users
      BY <2>6 DEF DeploymentStatus, TypeOK
    <3> HIDE DEF b
    <3>4. [dep[u] EXCEPT !.ready = b] \in Deployments
      BY <3>1 DEF Deployments
    <3>5. dep' \in [Users -> Deployments]
      BY <3>2, <3>4 DEF TypeOK
    <3> QED
      BY <2>6, <3>3, <3>5 DEF TypeOK, DeploymentStatus, api, reaper, sweeper, process, client
  <2>7. CASE DuplicateClaim(u)
    <3>1. duplicates' \in 0..MaxDuplicates
      BY <2>7, BoundsAssumption DEF DuplicateClaim, TypeOK
    <3> QED
      BY <2>7, <3>1 DEF TypeOK, DuplicateClaim, api, reaper, sweeper, work, process, client
  <2>8. CASE RemoveDuplicate(u)
    BY <2>8 DEF TypeOK, RemoveDuplicate, api, reaper, sweeper, work, process, client
  <2> QED
    BY <1>4, <2>4, <2>5, <2>6, <2>7, <2>8 DEF Cluster
<1> QED
  BY <1>1, <1>2, <1>3, <1>4

\* What a request writes is a Workspace, and it is written with one Put or not
\* at all.
LEMMA RouterWrites ==
  ASSUME TypeOK, NEW u \in Users, Router(u)
  PROVE  /\ UNCHANGED api \/ \E obj \in Workspace : Put(u, obj)
         /\ Fault \/ NoFault
         /\ req' \in [Users -> ReqStates]
         /\ requests' \in 0..MaxRequests
         /\ UNCHANGED <<infra, reaper, sweeper, work, process>>
<1>1. ws[u] \in Workspace
  BY DEF TypeOK
<1>2. \A s \in 0..MaxStamp : NewWorkspace(s) \in Workspace
  BY NewWorkspaceTyped, BoundsAssumption
<1>3. \A s \in 0..MaxStamp : [ws[u] EXCEPT !.enq = s] \in Workspace
  BY <1>1, BoundsAssumption DEF Workspace
<1>4. /\ [ws[u] EXCEPT !.wake = TRUE] \in Workspace
      /\ [ws[u] EXCEPT !.last = 0] \in Workspace
      /\ [ws[u] EXCEPT !.conns = 1] \in Workspace
      /\ [ws[u] EXCEPT !.conns = 0] \in Workspace
  BY <1>1 DEF Workspace
<1>5. \A w : Route(u, w) \in ReqStates
  BY DEF Route, ReqStates
<1>6. ASSUME NEW r \in ReqStates, Step(u, r)
      PROVE  /\ req' \in [Users -> ReqStates] /\ requests' \in 0..MaxRequests
             /\ UNCHANGED <<infra, reaper, sweeper, work, process>>
  BY <1>6 DEF Step, TypeOK
<1>7. ASSUME NEW r \in ReqStates, Enter(u, r)
      PROVE  /\ req' \in [Users -> ReqStates] /\ requests' \in 0..MaxRequests
             /\ UNCHANGED <<infra, reaper, sweeper, work, process>>
             /\ NoFault
  BY <1>7, BoundsAssumption DEF Enter, TypeOK
<1>8. CASE ArriveNew(u)
  BY <1>2, <1>7, <1>8 DEF ArriveNew, ReqStates
<1>9. CASE Arrive(u)
  <2>1. (IF ws[u].enq = Nil THEN "enq" ELSE Route(u, ws[u])) \in ReqStates
    BY <1>5 DEF ReqStates
  <2> QED
    BY <1>7, <1>9, <2>1 DEF Arrive
<1>10. CASE EnsureEnqueuedAt(u)
  BY <1>3, <1>5, <1>6, <1>10 DEF EnsureEnqueuedAt
<1>11. CASE RequestWake(u) \/ PollServable(u) \/ HoldExpires(u) \/ Touch(u)
  BY <1>4, <1>6, <1>11 DEF RequestWake, PollServable, HoldExpires, Touch, ReqStates
<1>12. CASE OpenConnection(u) \/ CloseConnection(u) \/ RequestEnds(u)
  BY <1>4, <1>6, <1>12 DEF OpenConnection, CloseConnection, RequestEnds, ReqStates
<1> QED
  BY <1>8, <1>9, <1>10, <1>11, <1>12 DEF Router

\* A request keeps every type.
LEMMA RouterTyped ==
  ASSUME TypeOK, NEW u \in Users, Router(u)
  PROVE  TypeOK'
<1>1. /\ UNCHANGED api \/ \E obj \in Workspace : Put(u, obj)
      /\ Fault \/ NoFault
      /\ req' \in [Users -> ReqStates] /\ requests' \in 0..MaxRequests
      /\ UNCHANGED <<infra, reaper, sweeper, work, process>>
  BY RouterWrites
<1>2. /\ ws' \in [Users -> Workspace]
      /\ events' \in Seq([user: Users, obj: Workspace])
      /\ reapFresh' \in SUBSET Users
  BY <1>1, PutTyped DEF TypeOK, api
<1>3. faults' \in 0..MaxFaults
  BY <1>1, FaultTyped
<1> QED
  BY <1>1, <1>2, <1>3 DEF TypeOK, infra, reaper, sweeper, work, process

\* A tick keeps every type.
LEMMA TickTyped ==
  ASSUME TypeOK, Tick
  PROVE  TypeOK'
<1> DEFINE E == [user: Users, obj: Workspace]
<1>1. /\ ws' \in [Users -> Workspace] /\ cache' \in [Users -> Workspace]
      /\ reapSnap' \in [Users -> Workspace] /\ sweepSnap' \in [Users -> Workspace]
  BY AgedTyped DEF TypeOK, Tick
<1>2. gap' \in 0..MaxGap
  BY TimingAssumption DEF TypeOK, Tick
<1>3. events' \in Seq(E)
  <2>1. events \in Seq(E) /\ Len(events) \in Nat /\ DOMAIN events = 1..Len(events)
    BY LenProperties DEF TypeOK
  <2>2. \A i \in 1..Len(events) : events[i] \in E
    BY <2>1, ElementOfSeq
  <2>3. \A i \in 1..Len(events) : [events[i] EXCEPT !.obj = Aged(@)] \in E
    BY <2>2, AgedTyped
  <2>4. events' = [i \in 1..Len(events) |-> [events[i] EXCEPT !.obj = Aged(@)]]
    BY <2>1 DEF Tick
  <2> QED
    BY <2>1, <2>3, <2>4, IsASeq
<1> QED
  BY <1>1, <1>2, <1>3 DEF TypeOK, Tick, infra, client

\* Every step keeps the types.
LEMMA NextTyped ==
  ASSUME TypeOK, [Next]_vars
  PROVE  TypeOK'
<1>1. CASE UNCHANGED vars
  BY <1>1 DEF TypeOK, vars, api, infra, reaper, sweeper, work, process, client
<1>2. CASE Next
  BY <1>2, InformerTyped, ReaperTyped, LeadershipTyped, ClusterTyped, TickTyped,
     ReconcileTyped, RouterTyped DEF Next
<1> QED
  BY <1>1, <1>2

\* TypeOK holds for every set of users and every bound: no pass, patch, crash,
\* sweep or request of the operator leaves its types.
THEOREM TypeCorrect == Spec => []TypeOK
<1>1. Init => TypeOK
  <2> SUFFICES ASSUME Init PROVE TypeOK
    OBVIOUS
  <2>1. /\ NoDeployment \in Deployments /\ NoPod \in Pods
        /\ "idle" \in ReqStates
    BY DEF NoDeployment, Deployments, NoPod, Pods, ReqStates
  <2>2. /\ 0 \in 0..MaxGap /\ 0 \in 0..MaxEdits /\ 0 \in 0..MaxFaults
        /\ 0 \in 0..MaxCrashes /\ 0 \in 0..MaxDuplicates /\ 0 \in 0..MaxRequests
    BY BoundsAssumption, TimingAssumption
  <2>3. <<>> \in Seq([user: Users, obj: Workspace])
    BY EmptySeq
  <2> QED
    BY <2>1, <2>2, <2>3, NoWorkspaceTyped DEF Init, TypeOK
<1>2. TypeOK /\ [Next]_vars => TypeOK'
  BY NextTyped
<1> QED
  BY <1>1, <1>2, PTL DEF Spec

-----------------------------------------------------------------------------
(* Claims before Deployments.                                              *)

\* ClaimBeforeDeployment, for every set of users and every bound: reconcilePVC
\* comes before Create in every row and nobody deletes a claim, so it needs no
\* strengthening but the types.
THEOREM ClaimFirst == Spec => []ClaimBeforeDeployment
<1>1. Init => ClaimBeforeDeployment
  BY DEF Init, ClaimBeforeDeployment, NoDeployment
<1>2. TypeOK /\ ClaimBeforeDeployment /\ [Next]_vars => ClaimBeforeDeployment'
  <2> SUFFICES ASSUME TypeOK, ClaimBeforeDeployment, [Next]_vars
               PROVE  ClaimBeforeDeployment'
    OBVIOUS
  <2>1. ASSUME UNCHANGED <<dep, volume>>
        PROVE  ClaimBeforeDeployment'
    BY <2>1 DEF ClaimBeforeDeployment
  <2>2. ASSUME NEW u \in Users, Reconcile(u)
        PROVE  ClaimBeforeDeployment'
    <3>1. PICK obj \in Workspace, d \in Deployments, v \in {"absent", "one", "many"},
               again \in BOOLEAN :
            /\ Finish(u, obj, d, v, again)
            /\ (d.exists => v # "absent") \/ (d = dep[u] /\ v = volume[u])
      BY <2>2, ReconcileIsPass DEF PassEnds
    <3>2. d.exists => v # "absent"
      BY <3>1 DEF ClaimBeforeDeployment
    <3>3. dep' = [dep EXCEPT ![u] = d] /\ volume' = [volume EXCEPT ![u] = v]
      BY <3>1 DEF Finish
    <3> QED
      BY <3>2, <3>3 DEF TypeOK, ClaimBeforeDeployment
  <2>3. ASSUME NEW u \in Users, Cluster(u)
        PROVE  ClaimBeforeDeployment'
    <3>1. CASE PodCreated(u) \/ PodStops(u) \/ PodGone(u) \/ PodStuck(u)
               \/ PodReady(u) \/ PodLost(u)
      BY <2>1, <3>1
         DEF PodCreated, PodStops, PodGone, PodStuck, PodReady, PodLost, SetPod
    <3>2. CASE DeploymentStatus(u)
      <4>1. \A w \in Users : dep'[w].exists = dep[w].exists
        BY <3>2 DEF DeploymentStatus, TypeOK, Deployments
      <4> QED
        BY <3>2, <4>1 DEF DeploymentStatus, ClaimBeforeDeployment
    <3>3. CASE DuplicateClaim(u) \/ RemoveDuplicate(u)
      <4>1. /\ dep' = dep
            /\ \A w \in Users : volume'[w] = volume[w] \/ volume'[w] # "absent"
        BY <3>3 DEF DuplicateClaim, RemoveDuplicate, TypeOK
      <4> QED
        BY <4>1 DEF ClaimBeforeDeployment
    <3> QED
      BY <2>3, <3>1, <3>2, <3>3 DEF Cluster
  <2>4. ASSUME NEW u \in Users, ReapWrite(u) \/ SweepOne(u) \/ Router(u)
        PROVE  ClaimBeforeDeployment'
    BY <2>1, <2>4, RouterWrites DEF ReapWrite, SweepOne, infra
  <2>5. CASE Deliver \/ Resync \/ ReapList \/ Crash \/ Start \/ SweepList
             \/ EditApp \/ MigrationEnds \/ Tick
    BY <2>1, <2>5 DEF Deliver, Resync, ReapList, Crash, Start, SweepList, EditApp,
                      MigrationEnds, Tick, infra
  <2>6. CASE UNCHANGED vars
    BY <2>1, <2>6 DEF vars, infra
  <2> QED
    BY <2>2, <2>3, <2>4, <2>5, <2>6 DEF Next
<1> QED
  BY <1>1, <1>2, TypeCorrect, PTL DEF Spec

-----------------------------------------------------------------------------
(* The reaper's conditional write.  ReapOnlyReapable is about what the API *)
(* server holds when the write lands, the reaper's predicate about what    *)
(* its List read; the invariant ties the two together through the          *)
(* informer.                                                               *)

\* A stopped controller has no watch open.
DownQuiet == ~up => events = <<>>

\* What the informer holds of a Workspace with no event on its way is what the
\* API server holds.
CacheView == up => \A u \in Users : Current(u) => cache[u] = ws[u]

\* The last event on its way carries what the API server holds.
LastEvent ==
  \A i \in DOMAIN events :
    (\A j \in DOMAIN events : j > i => events[j].user # events[i].user)
      => events[i].obj = ws[events[i].user]

\* A List item whose resourceVersion is still current is the stored object, and
\* still reapable: only the clock has moved.
FreshSnap ==
  \A u \in reapTodo \cap reapFresh : reapSnap[u] = ws[u] /\ IsReapable(ws[u])

ReapInv == DownQuiet /\ CacheView /\ LastEvent /\ FreshSnap

\* No tick undoes isReapable.
LEMMA AgedReapable ==
  ASSUME NEW w \in Workspace, IsReapable(w)
  PROVE  IsReapable(Aged(w))
<1>1. w.last \in Nat /\ w.last > IdleTimeout
  BY NilAssumption DEF IsReapable, Workspace
<1>2. /\ Aged(w).phase = w.phase /\ Aged(w).scaledDown = w.scaledDown
      /\ Aged(w).conns = w.conns
      /\ Aged(w).last = Sooner(w.last + 1, IdleTimeout + 1)
  BY <1>1, NilAssumption DEF Aged, Workspace
<1>3. Aged(w).last \in Nat /\ Aged(w).last > IdleTimeout
  BY <1>1, <1>2, TimingAssumption DEF Sooner
<1> QED
  BY <1>2, <1>3, NilAssumption DEF IsReapable

\* A write of any Workspace, by anybody, keeps the invariant.
LEMMA PutReapInv ==
  ASSUME TypeOK, ReapInv, NEW u \in Users, NEW obj \in Workspace, Put(u, obj),
         UNCHANGED <<up, cache>>, reapTodo' \subseteq reapTodo,
         \A w \in reapTodo' : reapSnap'[w] = reapSnap[w]
  PROVE  ReapInv'
<1>1. CASE obj = ws[u]
  <2>1. UNCHANGED <<ws, events, reapFresh>>
    BY <1>1 DEF Put, api
  <2> QED
    BY <2>1 DEF ReapInv, DownQuiet, CacheView, LastEvent, FreshSnap, Current
<1>2. CASE obj # ws[u]
  <2> DEFINE e == [user |-> u, obj |-> obj]
             n == Len(events)
  <2>1. /\ ws' = [ws EXCEPT ![u] = obj] /\ reapFresh' = reapFresh \ {u}
        /\ events' = IF up THEN Append(events, e) ELSE events
    BY <1>2 DEF Put
  <2>2. ws'[u] = obj /\ \A w \in Users \ {u} : ws'[w] = ws[w]
    BY <2>1 DEF TypeOK
  <2>3. /\ events \in Seq([user: Users, obj: Workspace])
        /\ n \in Nat /\ DOMAIN events = 1..n
    BY LenProperties DEF TypeOK
  <2>4. FreshSnap'
    BY <2>1, <2>2 DEF ReapInv, FreshSnap, TypeOK
  <2>5. CASE ~up
    BY <2>1, <2>4, <2>5 DEF ReapInv, DownQuiet, CacheView, LastEvent
  <2>6. CASE up
    <3>1. /\ DOMAIN events' = 1..(n + 1) /\ events'[n + 1] = e
          /\ \A i \in 1..n : events'[i] = events[i]
      BY <2>1, <2>3, <2>6, AppendProperties
    <3>2. \A i \in 1..n : events[i].user \in Users
      <4>1. \A i \in 1..n : events[i] \in [user: Users, obj: Workspace]
        BY <2>3, ElementOfSeq
      <4> QED
        BY <4>1
    <3>3. LastEvent'
      <4> SUFFICES ASSUME NEW i \in 1..(n + 1),
                          \A j \in 1..(n + 1) : j > i => events'[j].user # events'[i].user
                   PROVE  events'[i].obj = ws'[events'[i].user]
        BY <3>1 DEF LastEvent
      <4>1. CASE i = n + 1
        BY <2>2, <3>1, <4>1
      <4>2. CASE i \in 1..n
        <5>1. \A j \in 1..n : j > i => events[j].user # events[i].user
          BY <2>3, <3>1, <4>2
        <5>2. events[i].user # u
          BY <2>3, <3>1, <4>2
        <5>3. events[i].obj = ws[events[i].user]
          BY <2>3, <4>2, <5>1 DEF ReapInv, LastEvent
        <5> QED
          BY <2>2, <3>1, <3>2, <4>2, <5>2, <5>3
      <4> QED
        BY <2>3, <4>1, <4>2
    <3>4. CacheView'
      <4> SUFFICES ASSUME NEW w \in Users, Current(w)' PROVE cache[w] = ws'[w]
        BY DEF CacheView
      <4>1. w # u
        BY <2>3, <3>1 DEF Current
      <4>2. Current(w)
        BY <2>3, <3>1 DEF Current
      <4> QED
        BY <2>2, <2>6, <4>1, <4>2 DEF ReapInv, CacheView
    <3> QED
      BY <2>4, <2>6, <3>3, <3>4 DEF ReapInv, DownQuiet
  <2> QED
    BY <2>5, <2>6
<1> QED
  BY <1>1, <1>2

\* A delivery keeps the invariant: what was an event is now in the cache.
LEMMA DeliverReapInv ==
  ASSUME TypeOK, ReapInv, Deliver
  PROVE  ReapInv'
<1> DEFINE E == [user: Users, obj: Workspace]
           n == Len(events)
           e == Head(events)
<1>1. /\ up /\ up' = up
      /\ cache' = [cache EXCEPT ![e.user] = e.obj]
      /\ events' = Tail(events) /\ events # <<>>
      /\ UNCHANGED <<ws, reapFresh, reapTodo, reapSnap>>
  BY DEF Deliver, process, reaper
<1>2. /\ events \in Seq(E) /\ n \in Nat /\ DOMAIN events = 1..n
  BY LenProperties DEF TypeOK
<1>3. n > 0 /\ e = events[1] /\ e \in E
  <2>1. n # 0
    BY <1>1, <1>2, EmptySeq
  <2>2. e \in E
    BY <1>1, <1>2, HeadTailProperties
  <2>3. e = events[1]
    BY <1>1, <1>2, <2>1
  <2> QED
    BY <1>2, <2>1, <2>2, <2>3
<1>4. /\ DOMAIN events' = 1..(n - 1)
      /\ \A i \in 1..(n - 1) : events'[i] = events[i + 1]
  <2>1. Tail(events) \in Seq(E) /\ Len(Tail(events)) = n - 1
    BY <1>1, <1>2, HeadTailProperties
  <2>2. \A i \in 1..(n - 1) : Tail(events)[i] = events[i + 1]
    BY <1>1, <1>2, <2>1, HeadTailProperties
  <2>3. DOMAIN Tail(events) = 1..(n - 1)
    BY <2>1, LenProperties
  <2> QED
    BY <1>1, <2>2, <2>3
<1> HIDE DEF n, e
<1>5. LastEvent'
  <2> SUFFICES ASSUME NEW i \in 1..(n - 1),
                      \A j \in 1..(n - 1) : j > i => events'[j].user # events'[i].user
               PROVE  events'[i].obj = ws[events'[i].user]
    BY <1>1, <1>4 DEF LastEvent
  <2>1. i + 1 \in 1..n /\ events'[i] = events[i + 1]
    BY <1>2, <1>4
  <2>2. ASSUME NEW j \in 1..n, j > i + 1
        PROVE  events[j].user # events[i + 1].user
    <3>1. j - 1 \in 1..(n - 1) /\ j - 1 > i /\ (j - 1) + 1 = j
      BY <1>2, <2>2
    <3>2. events'[j - 1] = events[j]
      BY <1>4, <3>1
    <3> QED
      BY <2>1, <3>1, <3>2
  <2> QED
    BY <1>2, <2>1, <2>2 DEF ReapInv, LastEvent
<1>6. CacheView'
  <2> SUFFICES ASSUME NEW w \in Users, Current(w)' PROVE cache'[w] = ws[w]
    BY <1>1 DEF CacheView
  <2>1. ASSUME NEW j \in 1..n, j > 1
        PROVE  events[j].user # w
    <3>1. j - 1 \in 1..(n - 1) /\ (j - 1) + 1 = j
      BY <1>2, <2>1
    <3>2. events'[j - 1] = events[j]
      BY <1>4, <3>1
    <3> QED
      BY <1>4, <3>1, <3>2 DEF Current
  <2>2. CASE e.user = w
    <3>1. \A j \in DOMAIN events : j > 1 => events[j].user # events[1].user
      BY <1>2, <1>3, <2>1, <2>2
    <3>2. e.obj = ws[w]
      BY <1>2, <1>3, <2>2, <3>1 DEF ReapInv, LastEvent
    <3> QED
      BY <1>1, <2>2, <3>2 DEF TypeOK
  <2>3. CASE e.user # w
    <3>1. Current(w)
      BY <1>2, <1>3, <2>1, <2>3 DEF Current
    <3> QED
      BY <1>1, <2>3, <3>1 DEF TypeOK, ReapInv, CacheView
  <2> QED
    BY <2>2, <2>3
<1> QED
  BY <1>1, <1>5, <1>6 DEF ReapInv, DownQuiet, FreshSnap

\* A tick ages every copy of a Workspace alike.
LEMMA TickReapInv ==
  ASSUME TypeOK, ReapInv, Tick
  PROVE  ReapInv'
<1> DEFINE E == [user: Users, obj: Workspace]
<1>1. /\ ws' = [u \in Users |-> Aged(ws[u])]
      /\ cache' = [u \in Users |-> Aged(cache[u])]
      /\ reapSnap' = [u \in Users |-> Aged(reapSnap[u])]
      /\ UNCHANGED <<up, reapTodo, reapFresh>>
  BY DEF Tick
<1>2. DOMAIN events' = DOMAIN events
  BY DEF Tick
<1>3. \A i \in DOMAIN events : events[i] \in E
  <2>1. events \in Seq(E) /\ DOMAIN events = 1..Len(events)
    BY LenProperties DEF TypeOK
  <2> QED
    BY <2>1, ElementOfSeq
<1>4. \A i \in DOMAIN events :
        events'[i].user = events[i].user /\ events'[i].obj = Aged(events[i].obj)
  BY <1>3 DEF Tick
<1>5. DownQuiet'
  <2> SUFFICES ASSUME ~up PROVE events' = <<>>
    BY <1>1 DEF DownQuiet
  <2>1. events = <<>>
    BY DEF ReapInv, DownQuiet
  <2> QED
    BY <2>1 DEF Tick
<1>6. CacheView'
  BY <1>1, <1>2, <1>4 DEF ReapInv, CacheView, Current
<1>7. LastEvent'
  BY <1>1, <1>2, <1>3, <1>4 DEF ReapInv, LastEvent
<1>8. FreshSnap'
  <2> SUFFICES ASSUME NEW u \in reapTodo \cap reapFresh
               PROVE  reapSnap'[u] = ws'[u] /\ IsReapable(ws'[u])
    BY <1>1 DEF FreshSnap
  <2>1. u \in Users /\ ws[u] \in Workspace
    BY DEF TypeOK
  <2>2. reapSnap[u] = ws[u] /\ IsReapable(ws[u])
    BY DEF ReapInv, FreshSnap
  <2> QED
    BY <1>1, <2>1, <2>2, AgedReapable
<1> QED
  BY <1>5, <1>6, <1>7, <1>8 DEF ReapInv

\* Steps that leave the API server, the informer and the reaper alone.
LEMMA IdleReapInv ==
  ASSUME ReapInv, UNCHANGED <<api, cache, up, reaper>>
  PROVE  ReapInv'
BY DEF ReapInv, DownQuiet, CacheView, LastEvent, FreshSnap, Current, api, reaper

\* Every step keeps the invariant.
LEMMA NextReapInv ==
  ASSUME TypeOK, ReapInv, [Next]_vars
  PROVE  ReapInv'
<1>1. ASSUME NEW u \in Users, Reconcile(u)
      PROVE  ReapInv'
  <2>1. PICK obj \in Workspace, d \in Deployments, v \in {"absent", "one", "many"},
             again \in BOOLEAN : Finish(u, obj, d, v, again)
    BY <1>1, ReconcileIsPass DEF PassEnds
  <2> QED
    BY <2>1, PutReapInv DEF Finish, reaper, process
<1>2. ASSUME NEW u \in Users, Router(u)
      PROVE  ReapInv'
  <2>1. /\ UNCHANGED api \/ \E obj \in Workspace : Put(u, obj)
        /\ UNCHANGED <<reaper, work, process>>
    BY <1>2, RouterWrites
  <2>2. CASE UNCHANGED api
    BY <2>1, <2>2, IdleReapInv DEF work, process
  <2>3. CASE \E obj \in Workspace : Put(u, obj)
    BY <2>1, <2>3, PutReapInv DEF reaper, work, process
  <2> QED
    BY <2>1, <2>2, <2>3
<1>3. ASSUME NEW u \in Users, SweepOne(u)
      PROVE  ReapInv'
  <2> DEFINE w   == sweepSnap[u]
             new == IF dep[u].exists THEN Extended(w, sweepGap) ELSE StartFailed(w)
  <2>1. w \in Workspace /\ ws[u] \in Workspace /\ sweepGap \in Nat
    BY TimingAssumption DEF TypeOK
  <2>2. new \in Workspace
    BY <2>1, RowsTyped, StartFailedTyped
  <2>3. MergePatch(ws[u], w, new) \in Workspace
    BY <2>1, <2>2, MergePatchTyped
  <2>4. /\ Put(u, MergePatch(ws[u], w, new)) \/ UNCHANGED api
        /\ UNCHANGED <<reaper, work, process>>
    BY <1>3 DEF SweepOne
  <2> HIDE DEF w, new
  <2>5. CASE UNCHANGED api
    BY <2>4, <2>5, IdleReapInv DEF work, process
  <2>6. CASE Put(u, MergePatch(ws[u], w, new))
    BY <2>3, <2>4, <2>6, PutReapInv DEF reaper, work, process
  <2> QED
    BY <2>4, <2>5, <2>6
<1>4. ASSUME NEW u \in Users, ReapWrite(u)
      PROVE  ReapInv'
  <2>0. reapSnap[u] \in Workspace
    BY DEF TypeOK
  <2>1. [reapSnap[u] EXCEPT !.scaledDown = TRUE] \in Workspace
    BY <2>0 DEF Workspace
  <2>2. /\ UNCHANGED api \/ Put(u, [reapSnap[u] EXCEPT !.scaledDown = TRUE])
        /\ reapTodo' = reapTodo \ {u}
        /\ reapSnap' = [reapSnap EXCEPT ![u] = NoWorkspace]
        /\ UNCHANGED <<up, cache>>
    BY <1>4 DEF ReapWrite, work, process
  <2>3. reapTodo' \subseteq reapTodo /\ \A w \in reapTodo' : reapSnap'[w] = reapSnap[w]
    BY <2>2 DEF TypeOK
  <2>4. CASE UNCHANGED api
    BY <2>2, <2>3, <2>4
       DEF ReapInv, DownQuiet, CacheView, LastEvent, FreshSnap, Current, api
  <2>5. CASE Put(u, [reapSnap[u] EXCEPT !.scaledDown = TRUE])
    BY <2>1, <2>2, <2>3, <2>5, PutReapInv
  <2> QED
    BY <2>2, <2>4, <2>5
<1>5. CASE ReapList
  <2>1. /\ up /\ UNCHANGED <<ws, events, up, cache>>
        /\ reapTodo' = {u \in Users : IsReapable(cache[u])}
        /\ reapSnap' = [u \in Users |-> IF u \in reapTodo' THEN cache[u] ELSE NoWorkspace]
        /\ reapFresh' = {u \in reapTodo' : Current(u)}
    BY <1>5 DEF ReapList, work, process
  <2>2. FreshSnap'
    BY <2>1 DEF ReapInv, CacheView, FreshSnap
  <2> QED
    BY <2>1, <2>2 DEF ReapInv, DownQuiet, CacheView, LastEvent, Current
<1>6. CASE Crash
  <2>1. /\ up' = FALSE /\ events' = <<>> /\ reapTodo' = {}
    BY <1>6 DEF Crash
  <2> QED
    BY <2>1 DEF ReapInv, DownQuiet, CacheView, LastEvent, FreshSnap
<1>7. CASE Start
  <2>1. /\ ~up /\ up' = TRUE /\ cache' = ws /\ UNCHANGED <<api, reaper>>
    BY <1>7 DEF Start
  <2> QED
    BY <2>1 DEF ReapInv, DownQuiet, CacheView, LastEvent, FreshSnap, Current, api, reaper
<1>8. CASE Resync \/ SweepList \/ EditApp \/ MigrationEnds
  BY <1>8, IdleReapInv DEF Resync, SweepList, EditApp, MigrationEnds, work, process
<1>9. ASSUME NEW u \in Users, Cluster(u)
      PROVE  ReapInv'
  <2>1. UNCHANGED <<api, cache, up, reaper>>
    BY <1>9 DEF Cluster, PodCreated, PodStops, PodGone, PodStuck, PodReady, PodLost,
                DeploymentStatus, DuplicateClaim, RemoveDuplicate, SetPod, work, process
  <2> QED
    BY <2>1, IdleReapInv
<1>10. CASE UNCHANGED vars
  BY <1>10, IdleReapInv DEF vars, work, process
<1> QED
  BY <1>1, <1>2, <1>3, <1>4, <1>5, <1>6, <1>7, <1>8, <1>9, <1>10,
     DeliverReapInv, TickReapInv DEF Next

\* A write that does not scale its Workspace down scales none down.
LEMMA PutScaledDown ==
  ASSUME TypeOK, NEW u \in Users, NEW obj \in Workspace, Put(u, obj),
         obj.scaledDown => ws[u].scaledDown
  PROVE  \A w \in Users : ws'[w].scaledDown => ws[w].scaledDown
BY DEF Put, TypeOK, api

\* ReapOnlyReapable, for every lag of the informer, every set of users and any
\* number of errors, crashes and requests: the resourceVersion that ScaleDown's
\* Update carries is all that is needed for a reap never to land on a Workspace
\* that is in use, being woken or already scaled down.
THEOREM ReapSafe == Spec => ReapOnlyReapable
<1> DEFINE Reaped == \A u \in Users :
                       ws'[u].scaledDown /\ ~ws[u].scaledDown => IsReapable(ws[u])
<1>1. Init => ReapInv
  BY DEF Init, ReapInv, DownQuiet, CacheView, LastEvent, FreshSnap, Current
<1>2. TypeOK /\ ReapInv /\ [Next]_vars => ReapInv'
  BY NextReapInv
<1>3. TypeOK /\ ReapInv /\ [Next]_vars => [Reaped]_vars
  <2> SUFFICES ASSUME TypeOK, ReapInv, Next PROVE Reaped
    OBVIOUS
  <2>1. ASSUME \A w \in Users : ws'[w].scaledDown => ws[w].scaledDown
        PROVE  Reaped
    BY <2>1
  <2>2. ASSUME NEW u \in Users, Reconcile(u)
        PROVE  Reaped
    <3>1. PICK obj \in Workspace, d \in Deployments, v \in {"absent", "one", "many"},
               again \in BOOLEAN :
            /\ Finish(u, obj, d, v, again)
            /\ obj.scaledDown => ws[u].scaledDown \/ (Current(u) /\ cache[u].scaledDown)
      BY <2>2, ReconcileIsPass DEF PassEnds
    <3>2. up
      BY <2>2 DEF Reconcile, ReconcileFinalizer, ReconcileNew, ReconcilePending,
                  ReconcileStarting, ReconcileReady, ReconcileIdle, ReconcileFailed,
                  Reconciling
    <3>3. Current(u) => cache[u] = ws[u]
      BY <3>2 DEF ReapInv, CacheView
    <3>4. obj.scaledDown => ws[u].scaledDown
      BY <3>1, <3>3
    <3>5. Put(u, obj)
      BY <3>1 DEF Finish
    <3> QED
      BY <2>1, <3>4, <3>5, PutScaledDown
  <2>3. ASSUME NEW u \in Users, ReapWrite(u)
        PROVE  Reaped
    <3>1. CASE UNCHANGED api
      BY <2>1, <3>1 DEF api
    <3>2. CASE SameVersion(u) /\ Put(u, [reapSnap[u] EXCEPT !.scaledDown = TRUE])
      <4>1. u \in reapTodo \cap reapFresh
        BY <2>3, <3>2 DEF ReapWrite, SameVersion
      <4>2. IsReapable(ws[u])
        BY <4>1 DEF ReapInv, FreshSnap
      <4>3. \A w \in Users \ {u} : ws'[w] = ws[w]
        BY <3>2 DEF Put, TypeOK, api
      <4> QED
        BY <4>2, <4>3
    <3> QED
      BY <2>3, <3>1, <3>2 DEF ReapWrite
  <2>4. ASSUME NEW u \in Users, SweepOne(u)
        PROVE  Reaped
    <3> DEFINE w   == sweepSnap[u]
               new == IF dep[u].exists THEN Extended(w, sweepGap) ELSE StartFailed(w)
               obj == MergePatch(ws[u], w, new)
    <3>1. w \in Workspace /\ ws[u] \in Workspace /\ sweepGap \in Nat
      BY TimingAssumption DEF TypeOK
    <3>2. new \in Workspace /\ new.scaledDown = w.scaledDown
      BY <3>1, RowsTyped, StartFailedTyped, RowsScaledDown
    <3>3. obj \in Workspace /\ (obj.scaledDown => ws[u].scaledDown)
      BY <3>1, <3>2, MergePatchTyped, MergePatchScaledDown
    <3>4. Put(u, obj) \/ UNCHANGED api
      BY <2>4 DEF SweepOne
    <3> HIDE DEF w, new, obj
    <3> QED
      BY <2>1, <3>3, <3>4, PutScaledDown DEF api
  <2>5. ASSUME NEW u \in Users, Router(u)
        PROVE  Reaped
    <3>1. UNCHANGED api \/ \E obj \in Workspace :
                             Put(u, obj) /\ (obj.scaledDown => ws[u].scaledDown)
      <4>1. ws[u] \in Workspace
        BY DEF TypeOK
      <4>2. CASE ArriveNew(u)
        <5>1. PICK s \in 0..MaxStamp : Put(u, NewWorkspace(s))
          BY <4>2 DEF ArriveNew
        <5>2. NewWorkspace(s) \in Workspace /\ ~NewWorkspace(s).scaledDown
          BY NewWorkspaceTyped, BoundsAssumption
        <5> QED
          BY <5>1, <5>2
      <4>3. CASE EnsureEnqueuedAt(u)
        <5>1. PICK s \in 0..MaxStamp : Put(u, [ws[u] EXCEPT !.enq = s])
          BY <4>3 DEF EnsureEnqueuedAt
        <5>2. [ws[u] EXCEPT !.enq = s] \in Workspace
          BY <4>1, BoundsAssumption DEF Workspace
        <5> QED
          BY <4>1, <5>1, <5>2 DEF Workspace
      <4>4. CASE RequestWake(u) \/ Touch(u) \/ OpenConnection(u) \/ CloseConnection(u)
        <5>1. /\ [ws[u] EXCEPT !.wake = TRUE] \in Workspace
              /\ [ws[u] EXCEPT !.last = 0] \in Workspace
              /\ [ws[u] EXCEPT !.conns = 1] \in Workspace
              /\ [ws[u] EXCEPT !.conns = 0] \in Workspace
          BY <4>1 DEF Workspace
        <5>2. /\ [ws[u] EXCEPT !.wake = TRUE].scaledDown = ws[u].scaledDown
              /\ [ws[u] EXCEPT !.last = 0].scaledDown = ws[u].scaledDown
              /\ [ws[u] EXCEPT !.conns = 1].scaledDown = ws[u].scaledDown
              /\ [ws[u] EXCEPT !.conns = 0].scaledDown = ws[u].scaledDown
          BY <4>1 DEF Workspace
        <5> QED
          BY <4>4, <5>1, <5>2 DEF RequestWake, Touch, OpenConnection, CloseConnection
      <4>5. CASE Arrive(u) \/ PollServable(u) \/ HoldExpires(u) \/ RequestEnds(u)
        BY <4>5 DEF Arrive, PollServable, HoldExpires, RequestEnds
      <4> QED
        BY <2>5, <4>2, <4>3, <4>4, <4>5 DEF Router
    <3> QED
      BY <2>1, <3>1, PutScaledDown DEF api
  <2>6. CASE Tick
    <3>1. \A w \in Workspace : Aged(w).scaledDown = w.scaledDown
      BY DEF Aged, Workspace
    <3>2. \A u \in Users : ws[u] \in Workspace /\ ws'[u] = Aged(ws[u])
      BY <2>6 DEF Tick, TypeOK
    <3> QED
      BY <2>1, <3>1, <3>2
  <2>7. ASSUME NEW u \in Users, Cluster(u)
        PROVE  Reaped
    <3>1. ws' = ws
      BY <2>7 DEF Cluster, PodCreated, PodStops, PodGone, PodStuck, PodReady, PodLost,
                  DeploymentStatus, DuplicateClaim, RemoveDuplicate, SetPod, api
    <3> QED
      BY <2>1, <3>1
  <2>8. CASE Deliver \/ Resync \/ ReapList \/ Crash \/ Start \/ SweepList
             \/ EditApp \/ MigrationEnds
    BY <2>1, <2>8 DEF Deliver, Resync, ReapList, Crash, Start, SweepList, EditApp,
                      MigrationEnds, api
  <2> QED
    BY <2>2, <2>3, <2>4, <2>5, <2>6, <2>7, <2>8 DEF Next
<1> QED
  BY <1>1, <1>2, <1>3, TypeCorrect, PTL DEF Spec, ReapOnlyReapable

=============================================================================
