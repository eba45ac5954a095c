-------------------------------- MODULE Storage --------------------------------
(***************************************************************************)
(* The size of one user's volume (reconcilePVC, reconcileExistingPVC and   *)
(* raiseLargestObserved of internal/controller/workspace_controller.go):   *)
(* the claim is created once and only raised, and a smaller spec, which    *)
(* the API server refuses in place and a prune-and-recreate gets past, is  *)
(* refused against the largest size written to the Workspace's status.     *)
(*                                                                         *)
(* The app, the Workspace and the claim are read from the manager's cache, *)
(* each copy with a delay of its own.  Only the Workspace's events queue a *)
(* pass; a changed app or claim waits for the next one, at the latest the  *)
(* resync.  A pass is one step, as in module AppReconcile; that it happens *)
(* in the phases Pending (once admitted), Starting, Ready and Idle is      *)
(* WorkspaceLifecycle's.                                                   *)
(***************************************************************************)
EXTENDS Integers

CONSTANTS
  MaxSize,           \* bound: sizes are 1..MaxSize
  Classes,           \* StorageClass names
  MaxChanges,        \* bound: edits and recreations of the app, deletions
  MaxFaults,         \* bound: failing calls
  Nil                \* no Workspace, no claim

ASSUME StorageAssumption ==
  /\ {MaxSize, MaxChanges, MaxFaults} \subseteq Nat
  /\ MaxSize > 0

Sizes == 1..MaxSize

VARIABLES
  app,         \* the PerUserApp's size and class
  ws,          \* the Workspace's largestObservedSize (0: unset) and conditions
  claim,       \* the claim's request, capacity (0: not bound) and class
  seen,        \* the cached copies of the three
  queued,      \* the Workspace is in the work queue
  changes, faults

vars == <<app, ws, claim, seen, queued, changes, faults>>

Apps == [size: Sizes, class: Classes]
Workspaces == [largest: 0..MaxSize, shrink: BOOLEAN, drift: BOOLEAN]
Claims == [req: Sizes, cap: 0..MaxSize, class: Classes]

ASSUME NilAssumption == Nil \notin Claims \cup Workspaces

TypeOK ==
  /\ app \in Apps
  /\ ws \in Workspaces \cup {Nil}
  /\ claim \in Claims \cup {Nil}
  /\ seen \in [app: Apps, ws: Workspaces \cup {Nil}, claim: Claims \cup {Nil}]
  /\ queued \in BOOLEAN
  /\ changes \in 0..MaxChanges
  /\ faults \in 0..MaxFaults

Init ==
  /\ app \in Apps
  /\ ws = Nil
  /\ claim = Nil
  /\ seen = [app |-> app, ws |-> Nil, claim |-> Nil]
  /\ queued = FALSE
  /\ changes = 0 /\ faults = 0

-----------------------------------------------------------------------------
(* Administrators, the router, the Reclaimer and the volume controllers.   *)

Change ==
  /\ changes < MaxChanges
  /\ changes' = changes + 1

\* In place the size may only grow; the class may change.
EditApp(a) ==
  /\ Change
  /\ a # app
  /\ a.size >= app.size
  /\ app' = a
  /\ UNCHANGED <<ws, claim, seen, queued, faults>>

\* A prune-and-recreate compares with nothing.
RecreateApp(a) ==
  /\ Change
  /\ a.size < app.size
  /\ app' = a
  /\ UNCHANGED <<ws, claim, seen, queued, faults>>

CreateWorkspace ==
  /\ ws = Nil
  /\ ws' = [largest |-> 0, shrink |-> FALSE, drift |-> FALSE]
  /\ UNCHANGED <<app, claim, seen, queued, changes, faults>>

\* The claim survives the Workspace, the status does not.
DeleteWorkspace ==
  /\ Change
  /\ ws # Nil
  /\ ws' = Nil
  /\ UNCHANGED <<app, claim, seen, queued, faults>>

DeleteClaim ==
  /\ Change
  /\ claim # Nil
  /\ claim' = Nil
  /\ UNCHANGED <<app, ws, seen, queued, faults>>

Bound(c) == c.cap > 0

\* The claim is bound, or its volume has grown to what it asks for.
Provision ==
  /\ claim # Nil
  /\ claim.cap < claim.req
  /\ claim' = [claim EXCEPT !.cap = claim.req]
  /\ UNCHANGED <<app, ws, seen, queued, changes, faults>>

-----------------------------------------------------------------------------
(* The cache and the queue.                                                *)

DeliverApp ==
  /\ seen.app # app
  /\ seen' = [seen EXCEPT !.app = app]
  /\ UNCHANGED <<app, ws, claim, queued, changes, faults>>

DeliverClaim ==
  /\ seen.claim # claim
  /\ seen' = [seen EXCEPT !.claim = claim]
  /\ UNCHANGED <<app, ws, claim, queued, changes, faults>>

DeliverWorkspace ==
  /\ seen.ws # ws
  /\ seen' = [seen EXCEPT !.ws = ws]
  /\ queued' = TRUE
  /\ UNCHANGED <<app, ws, claim, changes, faults>>

Resync ==
  /\ seen.ws # Nil
  /\ ~queued
  /\ queued' = TRUE
  /\ UNCHANGED <<app, ws, claim, seen, changes, faults>>

-----------------------------------------------------------------------------
(* The storage part of a pass, on the copies.  It yields the status it     *)
(* leaves for the patch, the claim, and whether its calls succeeded.       *)

raiseLargestObserved_Overwrites(st, size) == [st EXCEPT !.largest = size]

raiseLargestObserved(st, size) ==
  IF size > st.largest THEN [st EXCEPT !.largest = size] ELSE st

\* The baseline is at least what a bound claim has.
Observe(st, c) == IF Bound(c) THEN raiseLargestObserved(st, c.cap) ELSE st

Done(st, c) == [st |-> st, claim |-> c, ok |-> TRUE]
Failed(st) == [st |-> st, claim |-> claim, ok |-> FALSE]

CreateClaim_NoRequest(st) ==
  Done([raiseLargestObserved(st, seen.app.size) EXCEPT !.drift = FALSE],
       IF claim = Nil THEN [req |-> 0, cap |-> 0, class |-> seen.app.class] ELSE claim)

\* A claim that is there already counts as created.
CreateClaim(st) ==
  Done([raiseLargestObserved(st, seen.app.size) EXCEPT !.drift = FALSE],
       IF claim = Nil
       THEN [req |-> seen.app.size, cap |-> 0, class |-> seen.app.class] ELSE claim)

\* The patch goes to the claim as it is now and answers with it.  It fails when
\* the claim is gone, has a larger capacity, or was made anew and is not bound
\* yet; whether a larger request is lowered depends on the server.
RaiseClaim(st) ==
  LET size == seen.app.size
      raised == [claim EXCEPT !.req = size]
      done == Done(Observe([raiseLargestObserved(st, size) EXCEPT !.drift = FALSE], raised),
                   raised)
  IN IF claim = Nil \/ size < claim.cap \/ (~Bound(claim) /\ size # claim.req)
     THEN {Failed(st)}
     ELSE IF size < claim.req THEN {Failed(st), done}
     ELSE {done}

\* Nothing to raise, or not yet: the immutable fields are compared, and a claim
\* larger than the spec is reported.
CompareClaim(st) ==
  LET c == seen.claim
      drift == CASE seen.app.size = c.req -> seen.app.class # c.class
                 [] seen.app.size < c.req -> TRUE
                 [] OTHER -> st.drift
  IN Done(Observe([st EXCEPT !.drift = drift], c), claim)

reconcileExistingPVC_NeverRaises(st) == {CompareClaim(st)}

\* Only a bound claim's request can be changed.
reconcileExistingPVC(st) ==
  IF seen.app.size > seen.claim.req /\ Bound(seen.claim)
  THEN RaiseClaim(st) ELSE {CompareClaim(st)}

\* What a pass does about the claim when the spec is not refused.  The call may
\* fail, the List before it too.
EnsureClaim(st, fault) ==
  IF fault = "call" THEN {Failed(st)}
  ELSE IF seen.claim = Nil THEN {CreateClaim(st)}
  ELSE reconcileExistingPVC(st)

reconcilePVC_KeepsRefusal(st, fault) ==
  IF seen.app.size < st.largest
  THEN {Done([st EXCEPT !.shrink = TRUE], claim)}
  ELSE EnsureClaim(st, fault)

\* The refusal compares with the largest size ever observed, not with the claim.
reconcilePVC(st, fault) ==
  IF seen.app.size < st.largest
  THEN {Done([st EXCEPT !.shrink = TRUE], claim)}
  ELSE EnsureClaim([st EXCEPT !.shrink = FALSE], fault)

\* A merge patch of the status against the copy: the size and the conditions,
\* as one list, are sent when they changed, and land on what is there now.
Patched(new) ==
  LET conds(st) == <<st.shrink, st.drift>>
      from == IF conds(new) # conds(seen.ws) THEN new ELSE ws
  IN [largest |-> IF new.largest # seen.ws.largest THEN new.largest ELSE ws.largest,
      shrink |-> from.shrink, drift |-> from.drift]

\* The status is patched whether or not the calls succeeded; a failure of
\* either queues the Workspace again.  `fault` is what fails by chance.
Pass(fault) ==
  /\ queued
  /\ fault # "none" => faults < MaxFaults
  /\ faults' = IF fault = "none" THEN faults ELSE faults + 1
  /\ IF seen.ws = Nil
     THEN queued' = FALSE /\ UNCHANGED <<ws, claim>>
     ELSE \E out \in reconcilePVC(seen.ws, fault) :
            LET lost == out.st # seen.ws /\ (ws = Nil \/ fault = "patch") IN
            /\ claim' = out.claim
            /\ ws' = IF out.st = seen.ws \/ lost THEN ws ELSE Patched(out.st)
            /\ queued' = (lost \/ ~out.ok)
  /\ UNCHANGED <<app, seen, changes>>

Next ==
  \/ \E a \in Apps : EditApp(a) \/ RecreateApp(a)
  \/ CreateWorkspace \/ DeleteWorkspace \/ DeleteClaim \/ Provision
  \/ DeliverApp \/ DeliverClaim \/ DeliverWorkspace \/ Resync
  \/ \E fault \in {"none", "call", "patch"} : Pass(fault)

Spec == Init /\ [][Next]_vars

\* The watches run for good, the queue has a worker, and the cache resyncs.
\* Nobody has to use the app, and no volume has to be provisioned.
FairSpec ==
  /\ Spec
  /\ WF_vars(DeliverApp) /\ WF_vars(DeliverClaim) /\ WF_vars(DeliverWorkspace)
  /\ WF_vars(Resync)
  /\ WF_vars(Pass("none"))

-----------------------------------------------------------------------------
(* Properties.                                                             *)

\* A pass whose copies are up to date lowers neither the claim's request nor the
\* baseline, whatever was recreated, deleted or lost before it
\* (workspace_controller.go:620-628, 729-737).
NothingLowered ==
  [][seen = [app |-> app, ws |-> ws, claim |-> claim] /\ seen' = seen
       => /\ claim # Nil /\ claim' # Nil => claim'.req >= claim.req
          /\ ws # Nil /\ ws' # Nil => ws'.largest >= ws.largest]_vars

\* What the passes leave in the end.  The baseline covers the volume, so a
\* smaller spec is refused, also after a patch was lost, written over from an
\* old copy, or gone with the Workspace; a spec that is not refused has its
\* claim, grown if it is bound; and the conditions say where the two differ.
Settled ==
  ws # Nil =>
    /\ ws.shrink <=> app.size < ws.largest
    /\ claim # Nil /\ Bound(claim) /\ ~ws.shrink => ws.largest >= claim.cap
    /\ ~ws.shrink =>
         /\ claim # Nil
         /\ Bound(claim) => claim.req >= app.size
         /\ claim.req > app.size => ws.drift
         /\ claim.req = app.size => (ws.drift <=> claim.class # app.class)

\* Once nothing changes any more storage settles, with no event of the app or
\* the claim to rely on (workspace_controller.go:112-127, 620-737).
StorageSettles == <>[]Settled
=============================================================================
