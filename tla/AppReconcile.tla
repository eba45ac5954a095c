----------------------------- MODULE AppReconcile -----------------------------
(***************************************************************************)
(* The PerUserApp controller (internal/controller/peruserapp_controller.go *)
(* SetupWithManager and Reconcile): validation, the router's objects, and  *)
(* the conditions ConfigValid and WorkspaceLimitReached, next to a writer  *)
(* of the condition MigrationComplete in another program.                  *)
(*                                                                         *)
(* Everything is read from the manager's cache, which follows the API      *)
(* server with a delay of its own for every kind.  A pass is one step: all *)
(* it reads may be as old as the cache, so what happens during a pass is   *)
(* like what happened before it and was not delivered yet.                 *)
(***************************************************************************)
EXTENDS AppSpec, Sequences, SequencesExt

CONSTANTS
  Specs,             \* specs an administrator writes
  Objects,           \* the router's objects in the order they are ensured
  RouterImage,       \* RELATED_IMAGE_ROUTER is set
  MaxFleet,          \* bound: Workspaces of the app
  MaxUids,           \* bound: times the app is created
  MaxChanges,        \* bound: edits, StorageClass swaps, fleet changes
  MaxFaults,         \* bound: failing calls and restarts
  Nil                \* no object

ASSUME AppReconcileAssumption ==
  /\ {MaxFleet, MaxUids, MaxChanges, MaxFaults} \subseteq Nat
  /\ RouterImage \in BOOLEAN
  /\ {"Deployment", "NetworkPolicy"} \subseteq ToSet(Objects)

\* By rules of the CRD the API server refuses a shared path that is not absolute
\* and an identity without a header: ValidateApp does not look at them.
ASSUME SpecsAssumption ==
  \A s \in Specs : s.sharedPaths \subseteq {"absolute"} /\ s.identity

Kinds == ToSet(Objects)

VARIABLES
  app,         \* the PerUserApp: its uid (0 when there is none), spec, conditions
  view,        \* its cached copy
  retain,      \* the StorageClass exists and has reclaimPolicy Retain
  fleet,       \* the number of the app's Workspaces
  seen,        \* their number in the cache
  obj,         \* the router's objects
  cached,      \* their cached copies
  queued,      \* the app is in the work queue
  uids, changes, faults,
  unseen       \* the StorageClass was replaced, or could not be read again, since
               \* a pass last looked at it

vars == <<app, view, retain, fleet, seen, obj, cached, queued, uids, changes, faults,
          unseen>>

NoConditions == [config |-> "none", limit |-> "none", migration |-> "none"]

NoApp == [uid |-> 0, spec |-> Nil, conds |-> NoConditions]

\* "Unread" is False with the message of a failed read: conditions are compared
\* with their messages.
Conditions == [config: {"none", "True", "False", "Unread"},
               limit: {"none", "True", "False"}, migration: {"none", "True", "False"}]

Apps == [uid: 1..MaxUids, spec: Specs, conds: Conditions] \cup {NoApp}

\* The body of an object of a kind: the arguments of the router's container, the
\* peers of its ingress rule, and what no spec decides.
Body(k, s) ==
  CASE k = "Deployment" -> RouterArgs(s)
    [] k = "NetworkPolicy" -> RouterIngress(s)
    [] OTHER -> "fixed"

Renderings(k) == {[uid |-> u, body |-> Body(k, s)] : u \in 1..MaxUids, s \in Specs}

TypeOK ==
  /\ app \in Apps
  /\ view \in Apps
  /\ retain \in BOOLEAN
  /\ fleet \in 0..MaxFleet
  /\ seen \in 0..MaxFleet
  /\ DOMAIN obj = Kinds /\ DOMAIN cached = Kinds
  /\ \A k \in Kinds : {obj[k], cached[k]} \subseteq Renderings(k) \cup {Nil}
  /\ queued \in BOOLEAN
  /\ uids \in 0..MaxUids
  /\ changes \in 0..MaxChanges
  /\ faults \in 0..MaxFaults
  /\ unseen \in BOOLEAN

Init ==
  /\ app = NoApp /\ view = NoApp
  /\ retain = TRUE
  /\ fleet = 0 /\ seen = 0
  /\ obj = [k \in Kinds |-> Nil]
  /\ cached = [k \in Kinds |-> Nil]
  /\ queued = FALSE
  /\ uids = 0 /\ changes = 0 /\ faults = 0
  /\ unseen = FALSE

-----------------------------------------------------------------------------
(* Administrators, the router, the migration and the garbage collector.    *)

CreateApp(s) ==
  /\ app = NoApp
  /\ uids < MaxUids
  /\ uids' = uids + 1
  /\ app' = [uid |-> uids + 1, spec |-> s, conds |-> NoConditions]
  /\ UNCHANGED <<view, retain, fleet, seen, obj, cached, queued, changes, faults, unseen>>

\* A deletion, or the first half of a prune-and-recreate.  The Workspaces stay.
DeleteApp ==
  /\ app # NoApp
  /\ app' = NoApp
  /\ UNCHANGED <<view, retain, fleet, seen, obj, cached, queued, uids, changes, faults,
                 unseen>>

EditSpec(s) ==
  /\ app # NoApp
  /\ s # app.spec
  /\ changes < MaxChanges
  /\ app' = [app EXCEPT !.spec = s]
  /\ changes' = changes + 1
  /\ UNCHANGED <<view, retain, fleet, seen, obj, cached, queued, uids, faults, unseen>>

\* reclaimPolicy is immutable: the class is deleted and made anew.
SwapClass ==
  /\ changes < MaxChanges
  /\ retain' = ~retain
  /\ unseen' = TRUE
  /\ changes' = changes + 1
  /\ UNCHANGED <<app, view, fleet, seen, obj, cached, queued, uids, faults>>

\* The router creates a Workspace, or one is deleted.
FleetChanges ==
  /\ changes < MaxChanges
  /\ fleet' \in {fleet - 1, fleet + 1} \cap 0..MaxFleet
  /\ changes' = changes + 1
  /\ UNCHANGED <<app, view, retain, seen, obj, cached, queued, uids, faults, unseen>>

\* The migration announces itself and ends, each time writing its condition only.
Migrate ==
  /\ app # NoApp
  /\ \/ app.conds.migration = "none" /\ app' = [app EXCEPT !.conds.migration = "False"]
     \/ app.conds.migration = "False" /\ app' = [app EXCEPT !.conds.migration = "True"]
  /\ changes < MaxChanges
  /\ changes' = changes + 1
  /\ UNCHANGED <<view, retain, fleet, seen, obj, cached, queued, uids, faults, unseen>>

\* An object whose owner is not there any more.
Collect(k) ==
  /\ obj[k] # Nil
  /\ obj[k].uid # app.uid
  /\ obj' = [obj EXCEPT ![k] = Nil]
  /\ UNCHANGED <<app, view, retain, fleet, seen, cached, queued, uids, changes, faults,
                 unseen>>

-----------------------------------------------------------------------------
(* The cache, and what its events put into the queue.                      *)

DeliverApp ==
  /\ view # app
  /\ view' = app
  /\ queued' = TRUE
  /\ UNCHANGED <<app, retain, fleet, seen, obj, cached, uids, changes, faults, unseen>>

\* An event of an owned object leads to its owner.
DeliverObject(k) ==
  /\ cached[k] # obj[k]
  /\ cached' = [cached EXCEPT ![k] = obj[k]]
  /\ queued' = TRUE
  /\ UNCHANGED <<app, view, retain, fleet, seen, obj, uids, changes, faults, unseen>>

mapWorkspaceToApp_Unwatched == queued' = queued

\* A Workspace's event leads to the app its spec.appRef names.
mapWorkspaceToApp == queued' = TRUE

DeliverFleet ==
  /\ seen # fleet
  /\ seen' = fleet
  /\ mapWorkspaceToApp
  /\ UNCHANGED <<app, view, retain, fleet, obj, cached, uids, changes, faults, unseen>>

\* The periodic resync of the cache queues every app.
Resync ==
  /\ view # NoApp
  /\ ~queued
  /\ queued' = TRUE
  /\ UNCHANGED <<app, view, retain, fleet, seen, obj, cached, uids, changes, faults,
                 unseen>>

\* A new process lists everything and queues every app.
Restart ==
  /\ faults < MaxFaults
  /\ faults' = faults + 1
  /\ view' = app /\ seen' = fleet /\ cached' = obj
  /\ queued' = (app # NoApp)
  /\ UNCHANGED <<app, retain, fleet, obj, uids, changes, unseen>>

-----------------------------------------------------------------------------
(* Reconcile.                                                              *)

\* ValidateApp, then the StorageClass, then the router image.
Valid(s) == ValidateApp(s) /\ retain /\ (RouterImage \/ s.image)

Rendered_NoOwner(k) == [uid |-> 0, body |-> Body(k, view.spec)]

\* The object of a kind as rendered from the copy, owned by the copy's uid.
Rendered(k) == [uid |-> view.uid, body |-> Body(k, view.spec)]

\* CreateOrUpdate on the cached object creates, updates under its
\* resourceVersion, or leaves it; a Create of what is there and an Update of
\* what is gone or has changed since fail.
CreateOrUpdateFails(k) == cached[k] # Rendered(k) /\ cached[k] # obj[k]

\* How many objects a pass ensures before a call fails: all of them, or those
\* before the first that fails by itself or, when `fault`, for any reason.
Ensured(fault) ==
  {n \in 0..Len(Objects) :
     /\ \A i \in 1..n : ~CreateOrUpdateFails(Objects[i])
     /\ n < Len(Objects) => fault \/ CreateOrUpdateFails(Objects[n + 1])}

EnsureObjects(n) ==
  obj' = [k \in Kinds |->
            IF cached[k] # Rendered(k) /\ \E i \in 1..n : Objects[i] = k
            THEN Rendered(k) ELSE obj[k]]

\* Merged by type into the copy's list: the others stay as the copy has them.
setAppCondition(conds, config, limit) ==
  [conds EXCEPT !.config = config, !.limit = limit]

\* The merge patch carries the whole list, and nothing when neither condition
\* changed against the copy.  It names no uid and no resourceVersion.
patchAppStatusIfChanged(config, limit, fault) ==
  LET new == setAppCondition(view.conds, config, limit) IN
  IF new = view.conds
  THEN UNCHANGED app /\ queued' = FALSE
  ELSE IF app = NoApp \/ fault
  THEN UNCHANGED app /\ queued' = TRUE
  ELSE app' = [app EXCEPT !.conds = new] /\ queued' = FALSE

\* A pass over an invalid spec says so and touches nothing else, the other
\* condition included.
ReconcileInvalid(fault) ==
  /\ ~Valid(view.spec)
  /\ patchAppStatusIfChanged("False", view.conds.limit, fault)
  /\ unseen' = FALSE
  /\ UNCHANGED obj

\* A StorageClass that cannot be read makes the spec invalid as well, and the
\* pass is not tried again: only the event of its own patch brings the next.
ReconcileUnread ==
  /\ ValidateApp(view.spec)
  /\ patchAppStatusIfChanged("Unread", view.conds.limit, FALSE)
  /\ unseen' = (unseen \/ view.conds.config = "Unread")
  /\ UNCHANGED obj

\* The objects come first; when one fails the pass ends without a patch and is
\* tried again.
ReconcileValid(fault) ==
  /\ Valid(view.spec)
  /\ \E n \in Ensured(fault) :
       /\ EnsureObjects(n)
       /\ IF n = Len(Objects)
          THEN patchAppStatusIfChanged("True",
                 IF seen >= view.spec.limit THEN "True" ELSE "False", fault)
          ELSE UNCHANGED app /\ queued' = TRUE
  /\ unseen' = FALSE

Reconcile(fault) ==
  /\ queued
  /\ fault => faults < MaxFaults
  /\ faults' = IF fault THEN faults + 1 ELSE faults
  /\ IF view = NoApp
     THEN queued' = FALSE /\ unseen' = FALSE /\ UNCHANGED <<app, obj>>
     ELSE ReconcileInvalid(fault) \/ ReconcileValid(fault) \/ (fault /\ ReconcileUnread)
  /\ UNCHANGED <<view, retain, fleet, seen, cached, uids, changes>>

Next ==
  \/ \E s \in Specs : CreateApp(s) \/ EditSpec(s)
  \/ DeleteApp \/ SwapClass \/ FleetChanges \/ Migrate
  \/ \E k \in Kinds : Collect(k) \/ DeliverObject(k)
  \/ DeliverApp \/ DeliverFleet \/ Resync \/ Restart
  \/ \E fault \in BOOLEAN : Reconcile(fault)

Spec == Init /\ [][Next]_vars

\* The collector and the watches run for good, and the queue has a worker.  The
\* resync, hours apart, is not relied on.
FairSpec ==
  /\ Spec
  /\ WF_vars(DeliverApp) /\ WF_vars(DeliverFleet)
  /\ \A k \in Kinds : WF_vars(DeliverObject(k)) /\ WF_vars(Collect(k))
  /\ WF_vars(Reconcile(FALSE))

-----------------------------------------------------------------------------
(* Properties.                                                             *)

\* The router never runs with what validation refuses: whatever was edited,
\* replaced or failed meanwhile, its container's flags are ones it accepts, and
\* its port is closed to all but the peers the spec names
\* (peruserapp_controller.go:173-179, main.go:106-121, 150-153).
RenderedIsUsable ==
  /\ obj["Deployment"] # Nil => parseRouterFlags(obj["Deployment"].body)
  /\ obj["NetworkPolicy"] # Nil => obj["NetworkPolicy"].body # {}

\* Everything the controller answers for agrees with the app's spec and fleet.
Settled ==
  IF app = NoApp THEN \A k \in Kinds : obj[k] = Nil
  ELSE IF ~Valid(app.spec) THEN app.conds.config \in {"False", "Unread"}
  ELSE /\ app.conds.config = "True"
       /\ app.conds.limit = IF fleet >= app.spec.limit THEN "True" ELSE "False"
       /\ \A k \in Kinds : obj[k] # Nil /\ obj[k].uid = app.uid
       /\ obj["Deployment"].body = RouterArgs(app.spec)
       /\ obj["NetworkPolicy"].body = RouterIngress(app.spec)

\* Once nothing changes any more the router and the conditions are what the
\* spec and the fleet call for, through failing calls, restarts, and an app that
\* is pruned and made anew while the collector takes its objects, and without
\* waiting for a resync.  Only a StorageClass that was replaced in between, or
\* whose read failed in two passes alike, may go unnoticed: nothing watches it
\* (peruserapp_controller.go:98-116, 146-210).
Converges == <>[](Settled \/ unseen)
=============================================================================
