-------------------------- MODULE WorkspaceLifecycle --------------------------
(***************************************************************************)
(* The life of the Workspaces of one PerUserApp: the API server that holds *)
(* them, the informer through which the controller reads them, the         *)
(* WorkspaceReconciler, its Admitter, the Reaper and the orphan sweep that *)
(* write them, the router's requests that create and wake them, and the    *)
(* Deployment and pod each of them drives.                                 *)
(*                                                                         *)
(* Every writer but the Reaper uses a merge patch computed against the     *)
(* copy it read, so a write made from a stale copy changes exactly the     *)
(* fields its author edited.  The Reaper writes the whole status on the    *)
(* resourceVersion it read.                                                *)
(*                                                                         *)
(* A pass of Reconcile is one step: the controller runs one worker, and    *)
(* what it reads between its first read and its status patch is its own    *)
(* cache.  The places where a pass can fail half-way are outcomes of the   *)
(* step; one that fails before it wrote anything leaves its key queued.    *)
(* Workspaces are never deleted here (the Reclaimer is another component), *)
(* one request per user is in flight, and the controller's reads of        *)
(* Deployments, pods and claims are not delayed.                           *)
(***************************************************************************)
EXTENDS WorkspaceStatus, Sequences, FiniteSets

CONSTANTS
  Users,
  Troubles,              \* ways a pod gets stuck: pulling, attach, crash
  Upgrades,              \* whether requests open upgraded connections
  MaxConcurrentStarts,   \* spec.limits.maxConcurrentStarts
  MaxStamp,              \* bound: latest second a Workspace is created in
  MaxRequests,           \* bound: requests that arrive; 0 for no bound
  MaxLag,                \* bound: watch events the informer may be behind by
  MaxFaults,             \* bound: failing API calls and lost pods
  MaxCrashes,            \* bound: controller crashes
  MaxEdits,              \* bound: edits of the PerUserApp's pod template
  MaxDuplicates          \* bound: second claims made by hand for one user

ASSUME BoundsAssumption ==
  /\ IsFiniteSet(Users)
  /\ Troubles \subseteq {"pulling", "attach", "crash"}
  /\ Upgrades \in BOOLEAN
  /\ MaxConcurrentStarts \in Nat
  /\ MaxStamp \in Nat
  /\ MaxRequests \in Nat
  /\ MaxLag \in Nat \ {0}
  /\ MaxFaults \in Nat
  /\ MaxCrashes \in Nat
  /\ MaxEdits \in Nat
  /\ MaxDuplicates \in Nat

VARIABLES
  ws,          \* the API server's Workspaces
  dep,         \* each user's Deployment
  pod,         \* each user's pod, as kubelet and the ReplicaSet drive it
  volume,      \* how many claims carry the user's labels
  appVer,      \* version of the PerUserApp's pod template
  migrating,   \* the app carries MigrationComplete in a non-True state
  up,          \* the controller process runs and is the leader
  gap,         \* ticks since it stopped
  cache,       \* the informer's Workspaces
  events,      \* watch events sent and not yet delivered, oldest first
  queue,       \* keys with a pass to come: queued, delayed or rate-limited
  reapTodo,    \* Workspaces the current reap pass still has to scale down
  reapSnap,    \* ... as its List returned them
  reapFresh,   \* ... and those whose resourceVersion is still current
  sweepDue,    \* OnLeaseAcquired has not listed yet
  sweepGap,    \* the leaderless interval it was called with
  sweepTodo,   \* Starting Workspaces it still has to visit
  sweepSnap,   \* ... as its List returned them
  req,         \* where each user's request is in the router
  requests,    \* requests that arrived, while they are bounded
  faults, crashes, duplicates

api     == <<ws, events, reapFresh>>
infra   == <<dep, pod, volume, appVer, migrating, duplicates>>
reaper  == <<reapTodo, reapSnap>>
sweeper == <<sweepDue, sweepGap, sweepTodo, sweepSnap>>
work    == <<cache, queue>>
process == <<up, gap, crashes>>
client  == <<req, requests>>

vars == <<api, infra, reaper, sweeper, work, process, client, faults>>

Deployments ==
  [exists: BOOLEAN, replicas: {0, 1}, ver: Nat, ready: BOOLEAN]

NoDeployment == [exists |-> FALSE, replicas |-> 0, ver |-> 0, ready |-> FALSE]

\* "pulling" has a container waiting.reason, "attach" has no container status
\* and an untrue condition, "crash" waits in CrashLoopBackOff.
Pods ==
  [st: {"none", "starting", "pulling", "attach", "crash", "ready", "terminating"},
   ver: Nat]

NoPod == [st |-> "none", ver |-> 0]

ReqStates == {"idle", "enq", "wake", "hold", "touch", "proxy", "connected"}

\* One type invariant for the whole system.
TypeOK ==
  /\ ws \in [Users -> Workspace]
  /\ cache \in [Users -> Workspace]
  /\ events \in Seq([user: Users, obj: Workspace])
  /\ reapSnap \in [Users -> Workspace]
  /\ sweepSnap \in [Users -> Workspace]
  /\ dep \in [Users -> Deployments]
  /\ pod \in [Users -> Pods]
  /\ volume \in [Users -> {"absent", "one", "many"}]
  /\ req \in [Users -> ReqStates]
  /\ requests \in 0..MaxRequests
  /\ queue \in SUBSET Users
  /\ reapTodo \in SUBSET Users
  /\ reapFresh \in SUBSET Users
  /\ sweepTodo \in SUBSET Users
  /\ up \in BOOLEAN
  /\ migrating \in BOOLEAN
  /\ sweepDue \in BOOLEAN
  /\ gap \in 0..MaxGap
  /\ sweepGap \in 0..MaxGap
  /\ appVer \in 0..MaxEdits
  /\ faults \in 0..MaxFaults
  /\ crashes \in 0..MaxCrashes
  /\ duplicates \in 0..MaxDuplicates

Init ==
  /\ ws = [u \in Users |-> NoWorkspace]
  /\ cache = ws
  /\ events = <<>>
  /\ reapSnap = ws
  /\ sweepSnap = ws
  /\ dep = [u \in Users |-> NoDeployment]
  /\ pod = [u \in Users |-> NoPod]
  /\ volume = [u \in Users |-> "absent"]
  /\ req = [u \in Users |-> "idle"]
  /\ queue = {}
  /\ reapTodo = {} /\ reapFresh = {} /\ sweepTodo = {}
  /\ up = TRUE
  /\ migrating \in BOOLEAN
  /\ sweepDue = FALSE
  /\ gap = 0 /\ sweepGap = 0 /\ appVer = 0
  /\ requests = 0 /\ faults = 0 /\ crashes = 0 /\ duplicates = 0

-----------------------------------------------------------------------------
(* The API server and the controller's informer.                           *)

\* Bound: while the controller is MaxLag events behind, nobody writes.
Room == Len(events) < MaxLag \/ ~up

\* The API server stores obj as u's Workspace.  A write that changes nothing
\* keeps the resourceVersion and sends no event; a controller that is not
\* running has no watch open.
Put(u, obj) ==
  IF obj = ws[u]
    THEN UNCHANGED api
    ELSE /\ ws' = [ws EXCEPT ![u] = obj]
         /\ events' = IF up THEN Append(events, [user |-> u, obj |-> obj])
                            ELSE events
         /\ reapFresh' = reapFresh \ {u}

\* The informer's copy of u carries the current resourceVersion.
Current(u) == \A i \in DOMAIN events : events[i].user # u

Fault == faults < MaxFaults /\ faults' = faults + 1
NoFault == UNCHANGED faults

\* The informer applies the oldest event and the watch's handler queues the
\* Workspace's key.
Deliver ==
  /\ up
  /\ events # <<>>
  /\ cache' = [cache EXCEPT ![Head(events).user] = Head(events).obj]
  /\ queue' = queue \cup {Head(events).user}
  /\ events' = Tail(events)
  /\ UNCHANGED <<ws, reapFresh, infra, reaper, sweeper, process, client, faults>>

\* The informer's periodic resync queues every key it holds.
Resync ==
  /\ up
  /\ queue' = queue \cup {u \in Users : cache[u].phase # "absent"}
  /\ UNCHANGED <<api, infra, reaper, sweeper, cache, process, client, faults>>

-----------------------------------------------------------------------------
(* The Admitter.                                                           *)

Occupied_Swapped == {w \in Users : cache[w].phase = "Starting" /\ cache[w].backoff # Nil}

Occupied == {w \in Users : cache[w].phase = "Starting" /\ cache[w].backoff = Nil}

Candidates == {w \in Users : cache[w].phase = "Pending"}

Slots == MaxConcurrentStarts - Cardinality(Occupied)

Ahead_Newest(u) == {w \in Candidates : Key(cache[w]) > Key(cache[u])}

Ahead(u) == {w \in Candidates : Key(cache[w]) < Key(cache[u])}

Tied(u) == {w \in Candidates \ {u} : Key(cache[w]) = Key(cache[u])}

\* TryAdmit.  The sort is stable over a List whose order is the cache's map
\* order, so either of two equal keys may come first.
Gated(u) == migrating \/ BackingOff(cache[u])

MayAdmit(u) == ~Gated(u) /\ Cardinality(Ahead(u)) < Slots

MayRefuse(u) == Gated(u) \/ Cardinality(Ahead(u) \cup Tied(u)) >= Slots

-----------------------------------------------------------------------------
(* The WorkspaceReconciler.                                                *)

\* The Deployment that Create leaves, and the one ensureDeployment leaves.
RenderedDeployment(w) ==
  [exists |-> TRUE, replicas |-> IF w.scaledDown THEN 0 ELSE 1,
   ver |-> appVer, ready |-> FALSE]

EnsuredDeployment_Delta(d, want) ==
  IF d.exists THEN [d EXCEPT !.replicas = @ + want, !.ver = appVer] ELSE d

EnsuredDeployment_NoScale(d, want) ==
  IF d.exists THEN [d EXCEPT !.ver = appVer] ELSE d

EnsuredDeployment_OnlyDown(d, want) ==
  IF d.exists THEN [d EXCEPT !.replicas = Sooner(@, want), !.ver = appVer] ELSE d

EnsuredDeployment(d, want) ==
  IF d.exists THEN [d EXCEPT !.replicas = want, !.ver = appVer] ELSE d

\* reconcilePVC: two claims are refused, a missing one is created.
Ambiguous_Ignored(u) == FALSE

Ambiguous(u) == volume[u] = "many"

EnsuredClaim_NoCreate(u) == volume[u]

EnsuredClaim(u) == IF volume[u] = "absent" THEN "one" ELSE volume[u]

\* The List of the user's pods is empty.
PodsGone_Terminating(u) == pod[u].st \in {"none", "terminating"}

PodsGone(u) == pod[u].st = "none"

\* patchStatusIfChanged: the copy st, edited from the cached Workspace, as a
\* merge patch on what the server holds.
Patched(u, st) == MergePatch(ws[u], cache[u], st)

Reconciling(u, phase) ==
  /\ up
  /\ u \in queue
  /\ Room
  /\ cache[u].phase = phase
  /\ cache[u].fin

\* The end of a pass: the server holds obj, the Deployment is d and the claims
\* are v; again says that the key comes back by timer or rate limiter (how soon
\* is not told apart).  A changed Deployment's watch queues its owner.
Finish(u, obj, d, v, again) ==
  /\ Put(u, obj)
  /\ dep' = [dep EXCEPT ![u] = d]
  /\ volume' = [volume EXCEPT ![u] = v]
  /\ queue' = IF again \/ d # dep[u] THEN queue ELSE queue \ {u}
  /\ UNCHANGED <<pod, appVer, migrating, duplicates, reaper, sweeper, cache,
                 process, client>>

\* The pass ends with status st, or with its status patch lost to an error.
Conclude(u, st, d, v, again) ==
  \/ NoFault /\ Finish(u, Patched(u, st), d, v, again)
  \/ Fault /\ Finish(u, ws[u], d, v, TRUE)

\* The pass fails half-way; what it wrote into st so far is still patched.
Interrupted(u, st, d, v) ==
  Fault /\ Finish(u, Patched(u, st), d, v, TRUE)

\* The key names nothing in the cache yet, or the finalizer is added: an
\* Update, refused when the cached copy is not the current one.
ReconcileFinalizer(u) ==
  /\ up
  /\ u \in queue
  /\ Room
  /\ cache[u].phase = "none"
  /\ ~cache[u].fin
  /\ \/ /\ Current(u)
        /\ NoFault
        /\ Finish(u, [cache[u] EXCEPT !.fin = TRUE], dep[u], volume[u], FALSE)
     \/ /\ ~Current(u)
        /\ NoFault
        /\ Finish(u, ws[u], dep[u], volume[u], TRUE)

\* phase "" -> Pending.
ReconcileNew(u) ==
  /\ Reconciling(u, "none")
  /\ Conclude(u, [cache[u] EXCEPT !.phase = "Pending"], dep[u], volume[u], FALSE)

ReconcilePending(u) ==
  /\ Reconciling(u, "Pending")
  /\ LET st == Admitted(cache[u])
         ok == VolumeAccepted(st)
         d  == IF dep[u].exists THEN EnsuredDeployment(dep[u], 1)
                                ELSE RenderedDeployment(st)
     IN  \/ /\ MayRefuse(u)
            /\ NoFault
            /\ Finish(u, ws[u], dep[u], volume[u], TRUE)
         \/ /\ MayAdmit(u)
            /\ Ambiguous(u)
            /\ Conclude(u, RefusedPending(cache[u]), dep[u], volume[u], FALSE)
         \/ /\ MayAdmit(u)
            /\ ~Ambiguous(u)
            /\ \/ Conclude(u, ok, d, EnsuredClaim(u), FALSE)
               \/ Interrupted(u, st, dep[u], volume[u])            \* the claim
               \/ Interrupted(u, ok, dep[u], EnsuredClaim(u))      \* the Deployment
               \/ Interrupted(u, ok, d, EnsuredClaim(u))           \* Service, policies
               \/ /\ Fault            \* dies, or loses its status, after the claim
                  /\ Finish(u, ws[u], dep[u], EnsuredClaim(u), TRUE)

\* Ready, Idle and Starting first settle storage and NetworkPolicies; st is
\* the copy the row then goes on with.
StorageRefused(u) ==
  /\ Ambiguous(u)
  /\ Conclude(u, VolumeRefused(cache[u]), dep[u], volume[u], FALSE)

StorageThenError(u) ==
  /\ ~Ambiguous(u)
  /\ Interrupted(u, VolumeAccepted(cache[u]), dep[u], EnsuredClaim(u))

\* failStarting: RecordStartFailure's own patch, then the status patch, which
\* carries the resourceVersion the first one returned.  The first may fail and
\* is then forgotten; the second may fail and is then retried.
FailStarting(u, st) ==
  LET failed == [st EXCEPT !.phase = "Failed"]
      armed  == StartFailed(failed)
      first  == MergePatch(ws[u], failed, armed)
  IN  \/ /\ NoFault
         /\ Finish(u, MergePatch(first, cache[u], armed), dep[u], EnsuredClaim(u), FALSE)
      \/ /\ Fault
         /\ Finish(u, Patched(u, failed), dep[u], EnsuredClaim(u), FALSE)
      \/ /\ Fault
         /\ Finish(u, first, dep[u], EnsuredClaim(u), TRUE)

\* The pod's waiting.reason, copied into status.
Observed(st, p) ==
  CASE p.st = "pulling" -> [st EXCEPT !.waiting = "other"]
    [] p.st = "attach"  -> [st EXCEPT !.waiting = "RWOPConflict"]
    [] OTHER            -> st

ReconcileStarting(u) ==
  /\ Reconciling(u, "Starting")
  /\ LET st   == VolumeAccepted(cache[u])
         seen == Observed(st, pod[u])
         IsReady  == dep[u].exists /\ dep[u].ready
         IsOrphan == ~dep[u].exists /\ st.backoff # Nil
     IN  \/ StorageRefused(u)
         \/ StorageThenError(u)
         \/ /\ ~Ambiguous(u)
            /\ IsReady
            /\ Conclude(u, BecomeReady(st), dep[u], EnsuredClaim(u), FALSE)
         \/ /\ ~Ambiguous(u)
            /\ IsOrphan
            /\ Conclude(u, [st EXCEPT !.phase = "Failed"], dep[u], EnsuredClaim(u), FALSE)
         \/ /\ ~Ambiguous(u)
            /\ ~IsReady /\ ~IsOrphan
            /\ pod[u].st = "crash" \/ DeadlinePassed(seen)
            /\ FailStarting(u, seen)
         \/ /\ ~Ambiguous(u)
            /\ ~IsReady /\ ~IsOrphan
            /\ pod[u].st # "crash" /\ ~DeadlinePassed(seen)
            /\ Conclude(u, seen, dep[u], EnsuredClaim(u), TRUE)

ReconcileReady(u) ==
  /\ Reconciling(u, "Ready")
  /\ LET st == VolumeAccepted(cache[u])
         d  == EnsuredDeployment(dep[u], 0)
     IN  \/ StorageRefused(u)
         \/ StorageThenError(u)
         \/ /\ ~Ambiguous(u)
            /\ st.wake
            /\ Conclude(u, WakeUp(st), dep[u], EnsuredClaim(u), FALSE)
         \/ /\ ~Ambiguous(u)
            /\ ~st.wake /\ st.scaledDown
            /\ PodsGone(u)
            /\ Conclude(u, [st EXCEPT !.phase = "Idle"], d, EnsuredClaim(u), FALSE)
         \/ /\ ~Ambiguous(u)
            /\ ~st.wake /\ st.scaledDown
            /\ ~PodsGone(u)
            /\ Conclude(u, st, d, EnsuredClaim(u), TRUE)
         \/ /\ ~Ambiguous(u)
            /\ ~st.wake /\ st.scaledDown
            /\ Interrupted(u, st, d, EnsuredClaim(u))        \* the List of pods
         \/ /\ ~Ambiguous(u)
            /\ ~st.wake /\ ~st.scaledDown
            /\ Conclude(u, st, dep[u], EnsuredClaim(u), FALSE)

ReconcileIdle(u) ==
  /\ Reconciling(u, "Idle")
  /\ LET st == VolumeAccepted(cache[u])
     IN  \/ StorageRefused(u)
         \/ StorageThenError(u)
         \/ /\ ~Ambiguous(u)
            /\ Conclude(u, IF st.wake THEN WakeUp(st) ELSE st, dep[u], EnsuredClaim(u), FALSE)

ReconcileFailed(u) ==
  /\ Reconciling(u, "Failed")
  /\ Conclude(u, IF BackoffOver(cache[u]) THEN Retried(cache[u]) ELSE cache[u],
              dep[u], volume[u], FALSE)

Reconcile(u) ==
  \/ ReconcileFinalizer(u)
  \/ ReconcileNew(u)
  \/ ReconcilePending(u)
  \/ ReconcileStarting(u)
  \/ ReconcileReady(u)
  \/ ReconcileIdle(u)
  \/ ReconcileFailed(u)

-----------------------------------------------------------------------------
(* The Reaper.                                                             *)

\* reapApp's List, read from the informer, and the predicate on each item.
ReapList ==
  /\ up
  /\ reapTodo = {}
  /\ reapTodo' = {u \in Users : IsReapable(cache[u])}
  /\ reapTodo' # {}
  /\ reapSnap' = [u \in Users |-> IF u \in reapTodo' THEN cache[u] ELSE NoWorkspace]
  /\ reapFresh' = {u \in reapTodo' : Current(u)}
  /\ UNCHANGED <<ws, events, infra, sweeper, work, process, client, faults>>

\* The API server's test of the resourceVersion that ScaleDown's Update carries.
SameVersion_Unchecked(u) == TRUE

SameVersion(u) == u \in reapFresh

\* ScaleDown: a full status update on the resourceVersion that was read.  A
\* conflict, or any other error, leaves the Workspace to the next pass.
ReapWrite(u) ==
  /\ up
  /\ u \in reapTodo
  /\ Room
  /\ reapTodo' = reapTodo \ {u}
  /\ reapSnap' = [reapSnap EXCEPT ![u] = NoWorkspace]
  /\ \/ /\ SameVersion(u)
        /\ NoFault
        /\ Put(u, [reapSnap[u] EXCEPT !.scaledDown = TRUE])
     \/ /\ ~SameVersion(u)
        /\ NoFault
        /\ UNCHANGED api
     \/ /\ SameVersion(u)
        /\ Fault
        /\ UNCHANGED api
  /\ UNCHANGED <<infra, sweeper, work, process, client>>

-----------------------------------------------------------------------------
(* Leadership: crash, restart and the orphan sweep.                        *)

\* The controller dies: its queue, timers, cache and passes die with it.
Crash ==
  /\ up
  /\ crashes < MaxCrashes
  /\ crashes' = crashes + 1
  /\ up' = FALSE
  /\ gap' = 0
  /\ events' = <<>>
  /\ cache' = [u \in Users |-> NoWorkspace]
  /\ queue' = {}
  /\ reapTodo' = {} /\ reapFresh' = {}
  /\ reapSnap' = [u \in Users |-> NoWorkspace]
  /\ sweepDue' = FALSE
  /\ sweepTodo' = {}
  /\ sweepSnap' = [u \in Users |-> NoWorkspace]
  /\ UNCHANGED <<ws, sweepGap, infra, client, faults>>

\* computeLeaderless: now less the renewal that snapshotLease read when the
\* process started.  A pod that stood by has read an old one, so its interval
\* is the gap or longer; the pod that held the lease before gets 0.
Leaderless == {0} \cup gap..MaxGap

\* A controller acquires the lease: its informers list, its reconcilers start,
\* and OnLeaseAcquired runs beside them.
Start ==
  /\ ~up
  /\ up' = TRUE
  /\ cache' = ws
  /\ queue' = {u \in Users : ws[u].phase # "absent"}
  /\ sweepDue' = TRUE
  /\ sweepGap' \in Leaderless
  /\ gap' = 0
  /\ UNCHANGED <<api, infra, reaper, sweepTodo, sweepSnap, crashes, client,
                 faults>>

SweepList ==
  /\ up
  /\ sweepDue
  /\ sweepDue' = FALSE
  /\ sweepTodo' = {u \in Users : cache[u].phase = "Starting"}
  /\ sweepSnap' = [u \in Users |-> IF u \in sweepTodo' THEN cache[u] ELSE NoWorkspace]
  /\ UNCHANGED <<api, infra, reaper, sweepGap, work, process, client, faults>>

\* One Workspace of the sweep: an orphan is recorded as a failed start, any
\* other has its deadline extended.  An error ends the sweep.
SweepOne(u) ==
  /\ up
  /\ u \in sweepTodo
  /\ Room
  /\ sweepSnap' = [sweepSnap EXCEPT ![u] = NoWorkspace]
  /\ LET w == sweepSnap[u]
     IN  \/ /\ NoFault
            /\ sweepTodo' = sweepTodo \ {u}
            /\ Put(u, MergePatch(ws[u], w, IF dep[u].exists THEN Extended(w, sweepGap)
                                                            ELSE StartFailed(w)))
         \/ /\ Fault
            /\ sweepTodo' = {}
            /\ UNCHANGED api
  /\ UNCHANGED <<sweepDue, sweepGap, infra, reaper, work, process, client>>

-----------------------------------------------------------------------------
(* Deployment controller, kubelet and the people who run the app.          *)

SetPod(u, p) ==
  /\ pod' = [pod EXCEPT ![u] = p]
  /\ UNCHANGED <<api, dep, volume, appVer, migrating, duplicates, reaper, sweeper,
                 work, process, client, faults>>

\* Strategy Recreate: a pod starts once the old one is gone.
PodCreated(u) ==
  /\ dep[u].exists /\ dep[u].replicas = 1
  /\ pod[u].st = "none"
  /\ SetPod(u, [st |-> "starting", ver |-> dep[u].ver])

PodStops(u) ==
  /\ pod[u].st \notin {"none", "terminating"}
  /\ dep[u].replicas = 0 \/ dep[u].ver # pod[u].ver
  /\ SetPod(u, [pod[u] EXCEPT !.st = "terminating"])

PodGone(u) ==
  /\ pod[u].st = "terminating"
  /\ SetPod(u, NoPod)

PodStuck(u) ==
  /\ pod[u].st = "starting"
  /\ \E s \in Troubles : SetPod(u, [pod[u] EXCEPT !.st = s])

PodReady(u) ==
  /\ pod[u].st \in {"starting", "pulling", "attach", "crash"}
  /\ SetPod(u, [pod[u] EXCEPT !.st = "ready"])

\* A node event takes a ready pod away.
PodLost(u) ==
  /\ pod[u].st = "ready"
  /\ Fault
  /\ pod' = [pod EXCEPT ![u] = NoPod]
  /\ UNCHANGED <<api, dep, volume, appVer, migrating, duplicates, reaper, sweeper,
                 work, process, client>>

\* status.readyReplicas catches up with the pod, and the Deployment's watch
\* queues its owner.
DeploymentStatus(u) ==
  /\ dep[u].exists
  /\ dep[u].ready # (pod[u].st = "ready")
  /\ dep' = [dep EXCEPT ![u].ready = (pod[u].st = "ready")]
  /\ queue' = IF up THEN queue \cup {u} ELSE queue
  /\ UNCHANGED <<api, pod, volume, appVer, migrating, duplicates, reaper, sweeper,
                 cache, process, client, faults>>

\* The PerUserApp is not among the objects whose events queue a Workspace.
EditApp ==
  /\ appVer < MaxEdits
  /\ appVer' = appVer + 1
  /\ UNCHANGED <<api, dep, pod, volume, migrating, duplicates, reaper, sweeper, work,
                 process, client, faults>>

MigrationEnds ==
  /\ migrating
  /\ migrating' = FALSE
  /\ UNCHANGED <<api, dep, pod, volume, appVer, duplicates, reaper, sweeper, work,
                 process, client, faults>>

\* Somebody adds a second claim with the user's labels, or takes it away.
DuplicateClaim(u) ==
  /\ volume[u] = "one"
  /\ duplicates < MaxDuplicates
  /\ duplicates' = duplicates + 1
  /\ volume' = [volume EXCEPT ![u] = "many"]
  /\ UNCHANGED <<api, dep, pod, appVer, migrating, reaper, sweeper, work, process,
                 client, faults>>

RemoveDuplicate(u) ==
  /\ volume[u] = "many"
  /\ volume' = [volume EXCEPT ![u] = "one"]
  /\ UNCHANGED <<api, dep, pod, appVer, migrating, duplicates, reaper, sweeper, work,
                 process, client, faults>>

-----------------------------------------------------------------------------
(* The router: one request of one user.                                    *)

Endpoints(u) == pod[u].st = "ready"

\* isServable: phase Ready, and a ready endpoint.
Servable(u, w) == w.phase = "Ready" /\ Endpoints(u)

\* classify, of what a Workspace that is not being deleted can be refused for.
Rejected(w) == BackingOff(w) \/ w.waiting = "RWOPConflict"

\* Where a request goes next, given the Workspace it has in hand.
Route(u, w) ==
  IF Rejected(w) THEN "idle"
  ELSE IF Servable(u, w) THEN "touch"
  ELSE IF w.wake THEN "hold" ELSE "wake"

Step(u, r) ==
  /\ req' = [req EXCEPT ![u] = r]
  /\ UNCHANGED <<requests, infra, reaper, sweeper, work, process>>

\* A new request, at its first step.
Enter(u, r) ==
  /\ req[u] = "idle"
  /\ r # "idle"
  /\ MaxRequests = 0 \/ requests < MaxRequests
  /\ requests' = IF MaxRequests = 0 THEN 0 ELSE requests + 1
  /\ req' = [req EXCEPT ![u] = r]
  /\ NoFault
  /\ UNCHANGED <<infra, reaper, sweeper, work, process>>

\* Seconds a new timestamp may carry: none is earlier than one handed out.
NewStamp(s) ==
  \A w \in Users : ws[w].phase # "absent" => ws[w].created <= s /\ Key(ws[w]) <= s

\* ensureWorkspace's Create.
ArriveNew(u) ==
  /\ Room
  /\ ws[u].phase = "absent"
  /\ \E s \in 0..MaxStamp : NewStamp(s) /\ Put(u, NewWorkspace(s))
  /\ Enter(u, "enq")

\* ensureWorkspace's Get of an existing Workspace, then classify, isServable;
\* a request that is refused at once leaves nothing behind.
Arrive(u) ==
  /\ ws[u].phase # "absent"
  /\ Enter(u, IF ws[u].enq = Nil THEN "enq" ELSE Route(u, ws[u]))
  /\ UNCHANGED api

\* ensureEnqueuedAt's patch; the response is the copy classify then reads.
EnsureEnqueuedAt(u) ==
  /\ req[u] = "enq"
  /\ Room
  /\ \E s \in 0..MaxStamp :
       /\ NewStamp(s)
       /\ LET w == [ws[u] EXCEPT !.enq = s]
          IN  Put(u, w) /\ Step(u, Route(u, w))
  /\ NoFault

\* coldStartHold's patch of wakeRequestedAt.
RequestWake(u) ==
  /\ req[u] = "wake"
  /\ Room
  /\ Put(u, [ws[u] EXCEPT !.wake = TRUE])
  /\ NoFault
  /\ Step(u, "hold")

\* The poll that ends the hold, one way or the other.
PollServable(u) ==
  /\ req[u] = "hold"
  /\ Servable(u, ws[u])
  /\ NoFault
  /\ UNCHANGED api
  /\ Step(u, "touch")

HoldExpires(u) ==
  /\ req[u] = "hold"
  /\ ~Servable(u, ws[u])
  /\ NoFault
  /\ UNCHANGED api
  /\ Step(u, "idle")

\* touchActivity, whose error ServeHTTP ignores.
Touch(u) ==
  /\ req[u] = "touch"
  /\ Room
  /\ \/ NoFault /\ Put(u, [ws[u] EXCEPT !.last = 0])
     \/ Fault /\ UNCHANGED api
  /\ Step(u, "proxy")

\* proxy: an upgraded connection is counted in status.connections for as long
\* as it lives; a plain request is over when its response is.
OpenConnection(u) ==
  /\ Upgrades
  /\ req[u] = "proxy"
  /\ Room
  /\ NoFault
  /\ Put(u, [ws[u] EXCEPT !.conns = 1])
  /\ Step(u, "connected")

CloseConnection(u) ==
  /\ req[u] = "connected"
  /\ Room
  /\ NoFault
  /\ Put(u, [ws[u] EXCEPT !.conns = 0])
  /\ Step(u, "idle")

\* A plain request answered, or a call that failed with 502.
RequestEnds(u) ==
  /\ \/ req[u] = "proxy" /\ NoFault
     \/ req[u] \in {"enq", "wake", "hold"} /\ Fault
  /\ UNCHANGED api
  /\ Step(u, "idle")

-----------------------------------------------------------------------------

\* Time passes for every copy of every Workspace.  Bound: an outage lasts at
\* most MaxGap ticks.
Tick ==
  /\ up \/ gap < MaxGap
  /\ gap' = IF up THEN gap ELSE gap + 1
  /\ ws' = [u \in Users |-> Aged(ws[u])]
  /\ cache' = [u \in Users |-> Aged(cache[u])]
  /\ events' = [i \in DOMAIN events |-> [events[i] EXCEPT !.obj = Aged(@)]]
  /\ reapSnap' = [u \in Users |-> Aged(reapSnap[u])]
  /\ sweepSnap' = [u \in Users |-> Aged(sweepSnap[u])]
  /\ UNCHANGED <<reapFresh, infra, reapTodo, sweepDue, sweepGap, sweepTodo, queue, up, crashes, client, faults>>

Router(u) ==
  \/ ArriveNew(u) \/ Arrive(u) \/ EnsureEnqueuedAt(u) \/ RequestWake(u)
  \/ PollServable(u) \/ HoldExpires(u) \/ Touch(u)
  \/ OpenConnection(u) \/ CloseConnection(u) \/ RequestEnds(u)

Cluster(u) ==
  \/ PodCreated(u) \/ PodStops(u) \/ PodGone(u) \/ PodStuck(u) \/ PodReady(u)
  \/ PodLost(u) \/ DeploymentStatus(u) \/ DuplicateClaim(u) \/ RemoveDuplicate(u)

Next ==
  \/ Deliver \/ Resync \/ ReapList \/ Crash \/ Start \/ SweepList
  \/ EditApp \/ MigrationEnds \/ Tick
  \/ \E u \in Users :
       \/ Reconcile(u)
       \/ ReapWrite(u) \/ SweepOne(u) \/ Router(u) \/ Cluster(u)

Spec == Init /\ [][Next]_vars

-----------------------------------------------------------------------------
(* Fairness: what the processes do on their own.  Room is a bound of the   *)
(* model, not of the code, so the steps it can disable get strong          *)
(* fairness.  Users owe nothing, a pod need not become ready, and no error *)
(* need happen.                                                            *)

Fairness ==
  /\ WF_vars(Deliver)
  /\ WF_vars(Tick)
  /\ WF_vars(Start)
  /\ WF_vars(SweepList)
  /\ \A u \in Users :
       /\ SF_vars(Reconcile(u))
       /\ WF_vars(PodCreated(u))
       /\ WF_vars(PodStops(u))
       /\ WF_vars(PodGone(u))
       /\ WF_vars(DeploymentStatus(u))

FairSpec == Spec /\ Fairness

-----------------------------------------------------------------------------
(* Properties.                                                             *)

\* Whatever the reaper's List had read and however old it was, status.scaledDown
\* only ever becomes true on a Workspace that is, in the API server at that
\* instant, Ready, idle for longer than idleTimeout and without a connection:
\* the conditional write of Reaper.ScaleDown.
ReapOnlyReapable ==
  [][\A u \in Users : ws'[u].scaledDown /\ ~ws[u].scaledDown => IsReapable(ws[u])]_vars

\* u's Deployment asks for its pod.
Wanted(u) == dep[u].exists /\ dep[u].replicas = 1

\* However late the informer is and whatever fails half-way, the reconciler, the
\* reaper, the router and the cluster together implement WorkspaceContract: a
\* Workspace whose latest write was read moves along the rows of Reconcile's
\* switch and a wake undoes its scale-down, and a pass on an older copy still says
\* Ready only of what serves, Idle only of what is scaled down and gone, asks for
\* a pod only from a Pending copy, and decides no scale-down.
Contract ==
  INSTANCE WorkspaceContract WITH
    phase    <- [u \in Users |-> IF ws[u].phase = "none" THEN "Pending" ELSE ws[u].phase],
    draining <- [u \in Users |-> ws[u].scaledDown],
    wanted   <- [u \in Users |-> Wanted(u)],
    serving  <- [u \in Users |-> dep[u].exists /\ dep[u].ready],
    running  <- [u \in Users |-> pod[u].st # "none"],
    late     <- {u \in Users : ~Current(u)}

ImplementsContract == Contract!Spec

\* Idle is only said of a Workspace whose Deployment runs nothing, and that stays
\* so: the claim is free for whoever acts on the phase (the Reclaimer deletes it).
\* One step can undo it, a pass on a copy that missed a write which scales the
\* Deployment up and then loses its status patch (workspace_controller.go:325).
Quiet(u) == ws[u].phase = "Idle" => ~Wanted(u) /\ pod[u].st = "none"

IdleMeansNothingRuns ==
  [][\A u \in Users :
       Quiet(u) => Quiet(u)' \/ (~Current(u) /\ faults' > faults)]_vars

\* No Deployment exists before its user's claim does: no pod can start on a
\* volume nobody decided on, whichever call of a pass failed.
ClaimBeforeDeployment ==
  \A u \in Users : dep[u].exists => volume[u] # "absent"

\* A Workspace that holds a slot is really starting: its Deployment exists and
\* asks for its pod, across wakes, scale-downs, claims that turn ambiguous,
\* template edits and whatever the informer missed.  Two passes can leave it
\* otherwise: one of the Pending row that fails before the Deployment, and one of
\* a copy that shows the scale-down and not the wake which undid it
\* (workspace_controller.go:325, 493).
Backed(u) == ws[u].phase = "Starting" => Wanted(u)

StartingHasDeployment ==
  [][\A u \in Users :
       Backed(u) => \/ Backed(u)'
                    \/ cache[u].phase = "Pending" /\ faults' > faults
                    \/ cache[u].phase = "Ready" /\ cache[u].scaledDown /\ ~Current(u)]_vars

\* While two claims carry a user's labels the reconciler neither raises the
\* Deployment's replicas nor moves its template: no pod is put on a volume
\* that was not chosen.
NoStartOnAmbiguousVolume ==
  [][\A u \in Users :
        volume[u] = "many" => /\ dep'[u].replicas <= dep[u].replicas
                              /\ dep'[u].ver = dep[u].ver]_vars

\* The starts that hold a slot, as TryAdmit counts them, pass
\* spec.limits.maxConcurrentStarts by no more than the events the informer was
\* behind by when it counted, of which a pass that writes leaves room for one;
\* and if it keeps up, unless a call failed no start is hidden from that count
\* by a backoffUntil left over from an earlier one.
Starting == {u \in Users : ws[u].phase = "Starting"}

Starts == {u \in Starting : ws[u].backoff = Nil}

StartsBounded ==
  /\ Cardinality(Starts) < MaxConcurrentStarts + MaxLag
  /\ MaxLag = 1 /\ faults = 0 => Cardinality(Starting) <= MaxConcurrentStarts

\* FIFO: a Workspace is not admitted past one that is Pending too and was
\* enqueued in an earlier second, unless there was a slot for both; where the
\* informer has the latest of the two but not of others, unless there was one by
\* its count, which misses no more starts than events on their way.
NoOvertaking ==
  [][\A u, v \in Users :
        /\ ws[u].phase = "Pending" /\ ws'[u].phase = "Starting"
        /\ ws[v].phase = "Pending"
        /\ Key(ws[v]) < Key(ws[u])
        /\ Current(u) /\ Current(v)
        => Cardinality(Starts) + 1 < MaxConcurrentStarts + Len(events)]_vars

\* A start ends: Ready, Failed or, for want of a Deployment, recorded as an
\* orphan.  No pod event is needed for it, only the deadline.
StartingEnds ==
  \A u \in Users : ws[u].phase = "Starting" ~> ws[u].phase # "Starting"

\* A scale-down the reaper asked for is carried out, or undone by a wake.
ScaleDownEnds ==
  \A u \in Users :
    ws[u].phase = "Ready" /\ ws[u].scaledDown
      ~> ws[u].phase = "Idle" \/ ~ws[u].scaledDown

\* A wake of an Idle Workspace is taken up, whichever call of the passes fails:
\* reconcileIdle clears the wake and queues the Workspace in one patch.
WakeTakenUp ==
  \A u \in Users : ws[u].phase = "Idle" /\ ws[u].wake ~> ws[u].phase = "Pending"

\* A failed start with an armed backoff is retried, given that the informer's
\* resync comes round: reconcileFailed itself asks for no requeue.
BackoffEnds ==
  WF_vars(Resync) =>
    \A u \in Users :
      ws[u].phase = "Failed" /\ ws[u].backoff # Nil ~> ws[u].phase # "Failed"
=============================================================================
