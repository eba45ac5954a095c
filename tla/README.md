# A TLA+ model of the per-user container operator

The operator gives every user of a `PerUserApp` a private `Workspace`: a
Deployment with one pod, a Service and a claim on a volume. A router finds or
creates the Workspace of the user behind a request, wakes it if it sleeps, holds
the request until the pod is ready, and proxies to it. A controller drives each
Workspace through its phases, admits a bounded number of starts at a time, stops
pods nobody uses and, where an administrator asked for it, deletes the Workspaces
and volumes that have been idle longest.

This directory models the parts of that system that keep state and act on it
concurrently, checks them with TLC on small instances, shows that the detailed
lifecycle implements an abstract contract, and proves with TLAPS, for instances of any
size, every safety property of the passing runs and that refinement.

## The system

| Component (source) | State it keeps | Operations | Modelled in |
| --- | --- | --- | --- |
| Workspace object (`api/v1alpha1/workspace_types.go`) | `status`: phase, scaledDown, wakeRequestedAt, enqueuedAt, consecutiveFailures, backoffUntil, startDeadline, lastActivity, connections, largestObservedSize | merge patches by everybody, one conditional update by the Reaper | `WorkspaceStatus`, `Storage`; its meaning in `WorkspaceContract` |
| WorkspaceReconciler (`internal/controller/workspace_controller.go`) | none of its own; reads the informer's cache | one row per phase; creates claim, Deployment, Service, NetworkPolicies | `WorkspaceLifecycle` |
| Admitter (`admission.go`) | none; counts from a List | TryAdmit, RecordStartFailure, OnLeaseAcquired | `WorkspaceLifecycle`, `Backoff` |
| Reaper (`reaper.go`) | `lastPass` | Reap: List, predicate, ScaleDown | `WorkspaceLifecycle`, predicate also in `Connections` |
| Leader failover (`cmd/controller.go`) | the Lease before and after | snapshotLease, computeLeaderless, then the sweep | `WorkspaceLifecycle` |
| Router request path (`internal/router/server.go`) | one goroutine per request | caller auth, identity, ensureWorkspace, classify, coldStartHold, proxy | `RouterFleet` up to `enqueuedAt` and the header policy, `WorkspaceLifecycle` from there on |
| ConnectionTracker (`connections.go`) | `counts`, under a mutex | Open, Close, HeartbeatAll, publish; touchActivity | `Connections` |
| Resolver (`resolve.go`) | the address cache, under a mutex | Resolve, Invalidate, two delete watches that reconnect | `Resolver` |
| Reclaimer (`reclaimer.go`) | `lastPass` | orphan sweep, LRU choice, release, stamp, two deletes | `Reclaimer` |
| Workspace deletion (`workspace_controller.go:254`) | the finalizer | reconcileDelete | `Reclaimer` |
| Storage sizes (`workspace_controller.go:620`) | largestObservedSize | create, raise, never shrink | `Storage` |
| PerUserAppReconciler (`peruserapp_controller.go`) | two conditions of the app | validation, the router's six objects | `AppReconcile` |
| Validation and rendering (`render.go`), router flags (`cmd/main.go`) | none | ValidateApp, RenderRouter..., parseRouterFlags | `AppSpec` |
| Identity (`internal/identity`), header policy (`proxy.go`) | none | Extract, UserKey, applyHeaderPolicy | `RouterFleet` |
| RBAC and the namespace probe, metrics, CRDs | none that is read back | wiring and declarations | not modelled, see the end |

How they interact. All components talk through the API server. The controller
reads Workspaces from an informer that may lag; the router reads the API server
directly. Almost every write is a merge patch, computed against the copy its
author read: it changes exactly the fields the author edited and meets no conflict.
Only the Reaper and the two finalizer updates carry a resourceVersion. The router
and the controller never call each other: `wakeRequestedAt`, `scaledDown`,
`lastActivity` and `connections` are their whole protocol.

What is hard about it. Writes made from stale copies; a wake that crosses a reap;
a pass that fails, or dies, between any two of its calls; the admission count, taken
from a cache; a failover whose sweep runs beside reconcilers that already act; the
connection count, published by several goroutines of several replicas after the
mutex was released; the address cache between a Get and a store; four deletions
that must look like one; a limit tested by several processes on a List each; router
processes that read their configuration once; an app pruned and made anew under a
controller that sees it late; a size baseline that lives in a status others patch. `PROJECT.json` lists these hazards at their lines.

What makes each component correct: the reaper never marks a Workspace in use; no
more starts than allowed, in order; a start ends, a wake is taken up, a scale-down
completes; nothing runs when a Workspace says Idle; no pod starts on a volume nobody
chose; an open connection is visible to the reaper; a cached address is stale only for
a known reason; the Reclaimer takes no more than the overage, finishes what it
began, and deletes nothing else; the limit on Workspaces is overshot by no more than the
requests in flight; a Workspace is made only for the user an authenticated caller named;
the router runs only with what validation accepts, and comes to what the spec says;
a volume is never asked to shrink.

## The modules

**`WorkspaceStatus`** holds the Workspace record, the merge patch and the pure functions
of one Workspace: `IsReapable`, `BackoffOver`, `DeadlinePassed`, the status each row
writes (`Admitted`, `BecomeReady`, `WakeUp`, ...). Stored instants are kept relative
to now (ticks until `backoffUntil` and `startDeadline`, ticks since `lastActivity`)
and only as far past a threshold as some test in the code can tell; `Aged` moves
them. `enqueuedAt` keeps the granularity of a serialised `metav1.Time`, a second.

**`WorkspaceLifecycle`** is the core. `ws` is the API server; `events`, `cache` and `queue` are
the informer and the work queue; `dep`, `pod`, `volume` the cluster's objects. One
action per row of `Reconcile`. A pass is one step, because the controller runs one
worker and reads its cache only, and its outcome is a disjunction over the calls that
may fail in it: what was written before the failure stays, what the code then still
patches is patched (`Interrupted`), and the key comes back. `ReapList` and `ReapWrite` are the
Reaper's List and its write, with every interleaving between; `reapFresh` says whose
resourceVersion is still the listed one. `Crash`, `Start`, `SweepList` and `SweepOne` are failover and
the orphan sweep that runs in a goroutine beside the reconcilers. `Arrive`, `EnsureEnqueuedAt`,
`RequestWake`, `PollServable`, `HoldExpires`, `Touch`, `OpenConnection`, ... are the steps of a request. The cluster
(`PodCreated`, `PodStops`, `PodReady`, `PodStuck`, `PodLost`, ...) is external, modelled from how the operator uses it.

**`WorkspaceContract`** is what the lifecycle promises to those who see only status, Deployments and pods. Its operator knows a Workspace
through a cache, and `late` is the set of those whose last write it may not have seen. Of a Workspace that is not late the phases follow the
table of `Reconcile`, and a wake undoes the scale-down in the write that queues the Workspace again. Of one that is late a row may be taken that was due before,
but Ready is said only of what serves and Idle only of what has no pod and is asked for none, a pod is asked for only by a start, and a scale-down is decided of
the Workspace as it is, late or not. `WorkspaceLifecycle` implements it (`ImplementsContract`), however late its informer, with the mapping: `phase` is
`status.phase` (Pending for the phase `""`, absent before the router created it), `draining` is `scaledDown`, `wanted` says that the Deployment exists with one replica,
`serving` that it reports one ready, `running` that a pod exists, `late` whose events are undelivered. Every row, on whatever copy, the Reaper's write, the sweep, the crashes
and the cluster are steps of it or stutter.

**`Backoff`** is `backoffDuration` on words of a few bits, with Go's wrap-around and division, and the assumption `BackoffRule`: for every
failure count, base and cap it is the doubled base, capped. TLC evaluates it on every run of `MCWorkspaceLifecycle`, whose
backoffs it supplies.

**`RouterFleet`** models the request path of several replicas for many users up to `enqueuedAt`, one action per call to the API server:
the gate (`checkCallerAuth`, `Extract`, `sharedRequest`), Get, List, Create, the second Get, the patch. A replica's limit and
Secret are those its process was started with; `Edit` changes what is deployed, `RollOut` replaces a process, whose requests go
on with the old limit. Header values are sequences, so duplicates are duplicates; a value that is no identity is known by its
shape. `had` and `top` are history. What happens between `served` and `proxied` is the lifecycle's.

**`AppSpec`** holds the pure functions around a `PerUserApp`: every rule of `ValidateApp`, the arguments and the ingress rendered for the
router, and what `parseRouterFlags` accepts. `PeerRule`, an assumption TLC evaluates over all egress peers, compares the validator's four
cases with what a peer means: refused are exactly those that reach every pod of the workspace's own namespace.

**`AppReconcile`** models the PerUserApp controller: the app, the router's objects, the StorageClass and the fleet on the API server, cached
copies of each that are delivered late and one by one, and the queue. A pass is one step whose outcomes are the prefixes of the objects
it ensured, the status patch, and their failures; a Create of what is there and an Update of what changed fail as the server makes
them. Another program writes `MigrationComplete`. `unseen` is history: nothing has looked at the StorageClass as it is now.

**`Storage`** models one user's claim: request, capacity and class, the baseline `largestObservedSize` and the two conditions, the app's size,
and late copies of all three. The app is edited (only growing, as the CEL rule has it), or pruned and recreated smaller; Workspace and claim are deleted.

**`Connections`** models one user's Workspace and any number of router replicas and
sessions: `publish` and `touchActivity` each as a Get and a patch, the counter under its mutex,
heartbeats, failing calls and dying replicas, against the reaper's predicate.

**`Resolver`** models one replica's address cache, the Services whose ClusterIPs return to a
pool, and the two delete watches with their backoff. `missed` and `raced` are history
variables that name why an entry may be stale.

**`Reclaimer`** models every call of a pass as a step: two Lists, the sweep's deletes, Get,
release, stamp, Delete, Delete. Beside it the reconciler moves Workspaces along the
rows `WorkspaceContract` states (with a claim before every start, as
`ClaimBeforeDeployment` says there), users visit, administrators delete Workspaces and seed claims, volumes
bind late. `used` is history: a start used the claim since the Reclaimer last touched it.

**`WorkspaceLifecycleProofs`**, **`LifecycleContractProofs`**, **`RouterFleetProofs`**, **`ConnectionsProofs`**, **`ResolverProofs`**, **`ReclaimerProofs`**,
**`AppReconcileProofs`** and **`StorageProofs`** hold the theorems, each about the module it extends. `MC...` modules give TLC the constants a configuration file
cannot express. An operator `Op_Variant` is a wrong form of `Op`, kept to show that some property
tells the two apart; nothing else uses it.

## The runs

| Run | What it shows |
| --- | --- |
| `Lifecycle` | One user, connections, an informer up to two events behind (`MaxLag = 2`: any pass may act on a copy that misses a write), and one failing call, template edit or second claim: types; `ClaimBeforeDeployment`; `IdleMeansNothingRuns` and `StartingHasDeployment`, each but for the passes it names; `ImplementsContract`, the refinement of `WorkspaceContract`; `ReapOnlyReapable`; `NoStartOnAmbiguousVolume`. |
| `Admission` | Two users, one slot, stamps in equal or different seconds: `StartsBounded`, on the starts that hold a slot and, unless a call failed, on all that are Starting, and `NoOvertaking`, where every pass has read the latest write. |
| `Progress` | `StartingEnds`, `ScaleDownEnds`, `WakeTakenUp` and, if resyncs come round, `BackoffEnds`, with volumes that do not attach and one failing call. |
| `Failover` | `StartingEnds` when the controller dies at any point, stays away for up to a tick and returns, its leaderless interval exact, zero or from an old snapshot of the Lease, with its sweep racing its reconcilers, crash-looping pods and one failing call. |
| `OpenSessions` | `OpenSessionNotReapable`: two replicas, two sessions, a death; no order of publishes, heartbeats and touches makes a published open connection look idle. |
| `CountsDrain` | `NeverUndercounts` whatever fails; `CountsDrain` if nothing fails: the sum returns to zero after the last connection. |
| `AddressCache` | `StaleHasACause`: a stale entry has one of three causes; `WatchComesBack` with the backoff in bounds (`TypeOK`). |
| `Reclaim` | `NeverBelowTarget`, `StampFollowsRelease`, `SeededClaimSurvives`, `OrphanSwept`, `OverageReclaimed`: two users, target one, a failing call or a death at any step, a deletion by hand. |
| `RouterFleet` | Two replicas, two requests, three users and the shared identity, edits of limit and Secret, a deletion: `OvershootBounded`, `ExistingNotRefused`, `ServedIsEnqueued`, `OnlyForItsUser`, `ForwardedIsClean`. |
| `AppConverges` | An app created twice, valid and invalid specs, a swapped StorageClass, a failing call or a restart: `RenderedIsUsable`, `Converges` (without a resync). |
| `StorageSizes` | Sizes 1 to 3, two classes, three changes, one failing call: `NothingLowered`, `StorageSettles`. |
| `SweptClaim` | violated: `SweepOnlyFinishes` |

The violation is a disagreement between a comment and the code. The stamp on a claim is never taken off. A pass dies after
stamping, the user comes back and works, somebody deletes the Workspace (which a claim is meant to survive), and the next
sweep (`reclaimer.go:398`) takes the claim; line 379 says the sweep "only ever finishes work this operator itself began".

### Bounds and why they are enough

Every bound is a named constant that only guards an action. Timeouts are one or two
ticks: the code only compares instants, so before, at and after a threshold are
all there is. `MaxLag` is the number of watch events outstanding before writers wait. At 1 a pass of the
reconciler reads what the server holds, and only the Reaper's and the sweep's lists, and what the router read, are late; at 2 a pass may miss the
latest write. `Lifecycle` has 2, and its safety properties are proved for every `MaxLag`. `Admission` has 1: what a late informer adds to the count is in
`StartsBounded` itself and proved. `Progress` and `Failover` have 1, because their liveness is out of TLC's reach beyond it.
The constraint `OneKind` of `Lifecycle` allows one of a failing call, a template edit and a second claim in a behaviour, the edit in a life with one request: an edit
changes the Deployment, a second claim only whether a pass goes on. Its two requests (`MaxRequests`) are a creation and a return, whose wake meets the scale-down.
The exception of `IdleMeansNothingRuns` and the failed admission of `StartingHasDeployment` are reached in that run: without them the properties are violated. The other exception of
`StartingHasDeployment`, a scale-down on an outdated Ready copy, needs a longer history than its bounds hold and is only there for the theorem.
One user is enough where Workspaces do not interact; admission, where they do, has
two users for one slot. One fault lets every call of every pass fail once, and every repair
be watched. `MaxFailures = 1` and a constant backoff forget how long a backoff is, not that there is one.
`Connections` needs two sessions for publishes to cross and two replicas for a sum; `Reclaim` needs two
users for an overage that leaves somebody. Its `MaxVisits = 4` covers two creations, the activity that
makes a candidate, and one return or deletion. `RouterFleet` has limits 1 and 2, so that
an edit lowers or raises them, three users so that a limit of 2 can be passed, caller and upstream credential in the same header, and an empty Secret beside
the right one. `AppConverges` needs two incarnations of the app for the collector to matter and renders the two objects whose
body the spec decides; the other four are rendered alike. `StorageSizes` has three sizes so that spec, request and
capacity can all differ, and three changes, which a recreation, a deletion and a growth use up. `Backoff` counts past the width of its words. `Admission`, `RouterFleet` and `OpenSessions` use symmetry; the runs with liveness do not.

`OpenSessionNotReapable` rests on three facts about time that the code does not enforce: a publish ends within a
tick, heartbeats are not late, and `idleTimeout` is at least the heartbeat interval plus twice the delay of a
touch. With `IdleTimeout = 2` in that run it is violated. The CEL rules (`peruserapp_types.go:153`) relate `reapInterval` to
`idleTimeout` only.

### Fairness

Weak fairness for what runs on its own: the watch delivers (`Deliver`), time passes (`Tick`), a dead controller
is replaced (`Start`), its sweep lists, Deployments make and stop pods, calls return, tickers tick.
`Reconcile(u)` has strong fairness, because `Room`, a bound of the model and not of the code, can disable it
again and again; the work queue itself only needs weak. Users owe nothing, no pod has to
become ready, no error has to happen. The informer's resync is assumed for `BackoffEnds`, in its
antecedent, because `reconcileFailed` asks for no requeue and depends on it, and for `StorageSettles`, because nothing else tells the Workspace
controller of a changed app or claim; `Converges` does without it. In `AppReconcile` and `Storage` deliveries, the collector and the worker are fair, a failing call never is. In `Reclaimer` the passes, the finalizer and
the garbage collection of a deleted claim are fair.

## The theorems

Every theorem holds for any users, replicas, sessions, names, specs, timeouts and bounds that satisfy the named assumptions of its module.
These say no more than: `Nil` is none of the values it stands beside; bounds and times are naturals; what is counted (users, requests,
sessions) is finite; a limit is at least 1, as the CRD has it; there is a backoff for each failure count; a shared path is absolute (the rule at
`peruserapp_types.go:261`) and an identity has a header (line 24; both `SpecsAssumption`); an identity is not written like a refusal (`MessagesAssumption`). TLC evaluates them in every run.
Two results need more, and say so as a hypothesis: the tight bound on `idleTimeout`, and what callers send under which header. No theorem about the lifecycle assumes an
informer that keeps up; the second part of `StartsBounded` is stated for one.

### The lifecycle (`WorkspaceLifecycleProofs`, `LifecycleContractProofs`)

- `TypeCorrect`: `Spec => []TypeOK`. Every row of the reconciler ends in `Finish` with a Workspace built from Workspaces; `PassTyped` says
  so once (`ReconcileIsPass` reduces each row to it), and one lemma per group of actions does the rest.
- `ClaimFirst`: `Spec => []ClaimBeforeDeployment`. Inductive with the types: only a pass makes a Deployment, and
  every way through a pass that makes one made the claim before.
- `ReapSafe`: `Spec => ReapOnlyReapable`, the safety of the conditional write. It needs `ReapInv`, four facts that hold together:
  `DownQuiet` (no events on their way to a controller that is not running), `LastEvent` (the last event of a Workspace carries what the
  server holds), `CacheView` (a cached copy with no event on its way is the server's), and `FreshSnap` (a listed item
  whose resourceVersion is current is the stored object, and still reapable). `CacheView` makes `FreshSnap` true at the List,
  `LastEvent` makes `CacheView` true at a delivery, and `AgedReapable` says that no tick undoes the predicate. That no other
  writer sets `scaledDown` follows from `MergePatchScaledDown` and `RowsScaledDown`: a merge patch whose author does not
  set it cannot.

- `AmbiguousStaysDown`: `Spec => NoStartOnAmbiguousVolume`, for every lag. Needs only the types: every row asks for the claim before it touches the Deployment.
- `StartsStayBounded`: `Spec => []StartsBounded`, for every lag. `OnlyAdmissionStarts` goes through the rows with an arbitrarily old copy: a merge patch
  of a copy that asks for no new start takes no slot, so only `TryAdmit` does. It counts `Occupied` in the cache; by `CacheView` the starts it misses are among the
  users with an event on its way (`StartsSeen`), and those are no more than the events (`UndeliveredCount`). Hence fewer than
  `MaxConcurrentStarts + MaxLag`, whatever fails, crashes or is swept. That no start hides behind a leftover `backoffUntil` is the part that needs `MaxLag = 1`.
- `FirstComeFirstServed`: `Spec => NoOvertaking`, for every lag, from the same two lemmas.
- `IdleIsIdle`, `StartingStarts`, `Refinement`: `IdleMeansNothingRuns`, `StartingHasDeployment` and `ImplementsContract`, for every lag, fault and crash. `Row` lists, per phase of
  the copy a pass acts on, what the pass may do to phase, scale-down and Deployment when that copy is any earlier Workspace: a merge patch sends only what the row edited, so
  of a field it left alone the server's value stays (`ReconcileRow`). `Gentle` lists what everybody else may do. Both exceptions are rows: the Pending row scales up before it patches, so a lost patch leaves the
  Deployment up under whatever the server says, and the Ready row of a scaled-down copy scales down without knowing of the wake. The refinement maps each row to one action of the contract;
  for a Workspace that is not late it needs `CacheView` of `ReapInv`: a pass without an event on its way reads what the server holds. `StartingStarts` also rests on `Foundations`: what is or was
  served or scaled down, on the server, in the cache or in an event on its way, has its Deployment.
- The second part of `StartsBounded`, that no start hides behind a leftover `backoffUntil`, is the only one that needs `MaxLag = 1`. Its invariant `LifeInv` has, beside the single event on its
  way, one conjunct per user, `Settled`: until a call fails, what is Starting has its Deployment, also for the cache and the sweep, and nothing outside Failed carries a `backoffUntil`. Neither is inductive alone: the sweep
  spares a start because its list only names Workspaces with a Deployment.

### The router (`RouterFleetProofs`)

`FleetInduction` is the conjunction of the types, `GateInv` (a request past the gate carries what its caller sent, which asserted its user), `LimitInv` (no process or
request has a limit above `top`), `HadInv` and `FleetInv`: the Workspaces are finitely many, and `OvershootBounded`, which counts them together with the requests about to
create one and so is inductive: a Create moves a request from the second group to the first. From it: `FleetTypes`, `OvershootIsBounded`, `ExistingServed`,
`ServedEnqueued` (`ServedIsEnqueued`), `MadeForItsUser` (`OnlyForItsUser`; `AdmitsAsserts` is the lemma about `Extract` and the shared identity).
`ForwardedClean` (`ForwardedIsClean`) assumes `SessionHeaders`: callers put their session under headers the policy strips or overwrites, every message asks for an upgrade, no configured header is `Upgrade`, and
the upstream credential is not also a caller's. The policy removes headers, not values, so nothing can be said without the first of these.

### The other components

- `ConnectionsProofs`: `ConnectionTypes`; `CountCoversOpen` (`NeverUndercounts`), from `CountOK`: a counter covers the sessions between `Open` and `Close`, published or not;
  `OpenIsNotReaped` (`OpenSessionNotReapable`) if `2 * MaxTouchDelay + Heartbeat <= IdleTimeout`. Its invariant says for every open, published session
  how old `lastActivity` can be once its request has touched it (`TouchOK`), and that its replica's entry is fresh and that no late zero can overwrite it while `lastActivity` is old (`HeldOK`). One tick less and TLC finds a violation.
- `ResolverProofs`: `ResolverTypes`, the bounds of the watch's backoff among them; `StaleOnlyForACause` (`StaleHasACause`). A Resolve between its Get and its store is the
  same risk as an entry, so the strengthening `FillHasACause` says of every such call what `StaleHasACause` says of the cache.
- `ReclaimerProofs`: `ReclaimerTypes`; `ReleasedBeforeStamp` (`StampFollowsRelease`), with `CopyOK`: until the stamp, a volume read with its claim still belongs to it, and before the stamp it has been released;
  `SeededSurvives`, with `SweepOK`: what the sweep is about to delete was listed with a stamp; `TargetKept` (`NeverBelowTarget`), with `SpareOK`: unless somebody deletes by hand, whoever
  was listed is still there, and the Workspaces that a pass leaves alone reach the target.
- `AppReconcileProofs`: `AppTypes` (every object is a rendering of an accepted spec); `RouterIsUsable` (`RenderedIsUsable`): what `ValidateApp` accepts, `parseRouterFlags` accepts.
- `StorageProofs`: `StorageTypes`; `PassLowersNothing` (`NothingLowered`), which is inductive with the types.

### Only model-checked

All liveness, which is out of the prover's reach: `StartingEnds`, `ScaleDownEnds`, `WakeTakenUp`, `BackoffEnds`, `CountsDrain`, `WatchComesBack`, `OrphanSwept`, `OverageReclaimed`, `Converges`, `StorageSettles`.
`WakeTakenUp` is not checked across a crash of the controller, which would need two requests in `Failover` and is too large for TLC there; the sweep and the restart do not touch `wakeRequestedAt`.
`PeerRule` and `BackoffRule` are evaluated by TLC over all arguments of a small domain. `SweepOnlyFinishes` is violated.

## Further divergences met while modelling

Each was seen as a counterexample in these modules and is not among the runs.

- `coldStartHold` (`server.go:337`) sets `wakeRequestedAt` for every request that is not servable, a first start included; it
  outlives the start, and `reconcileReady` sends the Ready Workspace back to Pending through admission. The type says it is set for a
  scaled-down workspace (`workspace_types.go:37`).
- When the patch of `RecordStartFailure` fails, `failStarting` (`workspace_controller.go:445`) still moves to Failed, without a
  `backoffUntil`; no row leads out of it, though line 549 calls `backoffUntil` its "only way forward".
- `Resolve` (`resolve.go:97`) stores what it read before an `Invalidate` came by, and serves it until the name is deleted again; line 40
  says a Resolve never serves a stale address.
- A pass that missed a write takes a row that is not due any more (`workspace_controller.go:247`): a second pass of the Starting row moves a
  Failed Workspace to Ready, its `backoffUntil` left over. The table of phases therefore holds only of Workspaces that are not `late` in `WorkspaceContract`.
- A wake row that read a copy without the reaper's write patches no `scaledDown`, and the Workspace starts
  still marked scaled down (`reaper.go:275`; "simply wins the race outright", line 274).
- From there an Idle Workspace may run: a stale Ready copy with that leftover `scaledDown` writes Idle over Pending
  (`workspace_controller.go:493`), and a pass on the older Pending copy scales the Deployment up and loses its patch. `IdleIsIdle` says that this is the only way.
- Likewise `TryAdmit` (`admission.go:80`) admits one start too many; line 32 says the bound
  holds. `StartsStayBounded` says by how much it can be passed.
- A Pending Workspace admitted with an elapsed `backoffUntil` keeps it and is counted as having released its slot
  (`admission.go:90`).
- `reconcileFailed` asks for no requeue and `wakeRequestedAt` survives a failure, so a retry after the backoff may write
  nothing and wake nobody (`workspace_controller.go:459`; "a user's retry is the fast path", line 450).
- A Workspace bounced by a leftover wake is re-admitted while its user is connected, and `ensureDeployment(1)` then rolls
  an edited template under the session (`workspace_controller.go:616`; "costs no disruption", line 576).
- Between the reaper's write and the end of the pod a request is proxied to that pod and sets no wake (`server.go:322`).
- After a failover a pass may fail a start before the sweep has extended its deadline (`cmd/controller.go:316`; `admission.go:205`).
- A failed publish in `Open` leaves the counter one too high for the life of the replica, since `proxy` defers `Close` only on
  success (`server.go:394`): the Workspace is never reaped. `CountsDrain` therefore assumes no fault.
- Two goroutines of a replica may publish out of order, and the sum reads zero until the next heartbeat (`connections.go:92`; line 53).
- `touchActivity` compares in a Get and writes in a patch: an older time can be written last (`connections.go:154`; line 137).
- `enqueuedAt` is described with sub-second order (`workspace_types.go:41`), but a `metav1.Time` is serialised in seconds;
  `NoOvertaking` is stated for seconds.
- Two first requests of one user both write `enqueuedAt`; the type says it is "never rewritten" (`workspace_types.go:44`).
- Requests in flight may together pass `maxWorkspaces`, each having counted before the others created; `server.go:230` says a request that
  would create one too many "is refused before any Create call". `OvershootBounded` says by how much.
- The PerUserApp controller patches the whole list of conditions from its cached copy (`peruserapp_controller.go:313`): a `MigrationComplete` written since is lost
  or set back, and `TryAdmit` (`admission.go:71`), to which an absent condition means no migration, admits or holds accordingly. Lines 52-55 say
  it survives "every reconcile of this controller untouched", which is so on a current copy only.
- While a spec is invalid `WorkspaceLimitReached` is not recomputed, and the router's objects stay as they were. Only those depend on
  `ConfigValid`: the Workspace controller renders from the same spec without looking at it.
- Nothing watches StorageClasses: a class that was put right is noticed at the next event or resync. A read of the class that fails counts as an
  invalid spec (`peruserapp_controller.go:36`) and the pass returns no error; two such passes with the same message leave `ConfigValid` False with nothing to bring the next.
- `largestObservedSize` is raised when the claim is created or its request raised, before any volume is Bound at that size; the type says the largest size
  "observed Bound" (`workspace_types.go:53`). A pass from a copy older than a deletion of the Workspace may write a smaller baseline over a larger one
  for a while; `StorageSettles` shows that it comes back once the claim is seen.
- A raised size, and a claim that became Bound, wait for the next pass: the Workspace controller watches neither. While a shrink is refused
  every row returns early, so wakes, scale-downs and start deadlines of that Workspace wait as well; the same holds, without any requeue, while two
  claims carry a user's labels (`workspace_controller.go:315`).
- The Lease is read when the process starts (`cmd/controller.go:254`), not when it is about to be elected: a pod that stood by extends every
  `startDeadline` by the time it stood by.
- The Reclaimer deletes Workspace and claim by name, on the strength of its List: a user who came back in between
  loses both, whatever the phase (`reclaimer.go:310`; `peruserapp_types.go:164` says a Workspace is reclaimed only when it "is already scaled
  down"). A claim that binds after it was read keeps the policy Retain. A pass of the reconciler that has not heard of the
  deletion may create a new, unstamped claim that no sweep finishes.
- For a candidate without a claim, `reclaimWorkspace` ends with a Delete of the zero object, which is refused for want of a
  name, so that pass counts as failed (`reclaimer.go:313`).

## What is not modelled

In the lifecycle: more than one error per pass; lag of the Deployment, pod and claim caches; more than one request per
user in flight; deletion (see `Reclaimer`); the gate `lastPass`; who sets MigrationComplete (external); failure counts
past `MaxFailures`; a leaderless interval below the true one other than zero; the Lease; sizes of claims (`Storage`), the refusal of a shrink among
the rows; the Workspace limit and the gate (`RouterFleet`). In `Reclaimer`: a List older than the pass before; claims under a name other than the child
name; edits of `spec.reclaim` between passes.

In `RouterFleet`: a limit of zero, which the CRD excludes; the scheme in front of a credential; collisions of the truncated hash in `UserKey`.
In `AppReconcile`: a Secret that is missing or empty when the router's container reads it; changes of the router's objects by hand; the list of status messages beyond what tells two failures apart.
In `Storage`: which phase a pass is in, and two claims at once (the lifecycle's); access modes, which are compared like the class.

Components left out: the workspace's own rendering beyond its version and replicas (volumes, seeder, policies), RBAC and the namespace
probe, metrics, the controller's flags, CRDs and generated code: no behaviour that any other part reads back.

## Plan

1. Done: lifecycle, connections, resolver, reclaimer, router fleet, app controller, storage, backoff; the contract and its refinement; the
   proofs of every safety property of the passing runs.
2. Done: what of Idle, of starts and of the contract survives a late informer, for every `MaxLag`. Next: an abstract specification of the connection count that
   `Connections` implements; the leftover `backoffUntil` under a late informer.
3. Several requests per user, and lag of the Deployment cache, in the lifecycle.
