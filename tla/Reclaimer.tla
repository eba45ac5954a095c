------------------------------- MODULE Reclaimer -------------------------------
(***************************************************************************)
(* The Reclaimer (internal/controller/reclaimer.go): the sweep of orphaned *)
(* claims, the choice of the least recently used Workspaces over the       *)
(* target and the calls that delete each of them with its claim, beside    *)
(* the reconciler, the router and the administrators who go on working on  *)
(* the same objects.                                                       *)
(*                                                                         *)
(* A Workspace moves along the rows that module WorkspaceLifecycle checks; *)
(* here one pass of the reconciler is its phase and its claim, the passes  *)
(* that give a new Workspace its finalizer and its first phase are part of *)
(* its creation, and a wake is part of the request that asks for it.  A    *)
(* deletion the reconciler has not heard of does not stop a pass: rows may *)
(* still run on a Workspace that is being deleted, until the pass that     *)
(* takes its finalizer.                                                    *)
(*                                                                         *)
(* A pass of the Reclaimer begins at most every reclaimerTickInterval (a   *)
(* minute), so its Lists are taken to show at least what the pass before   *)
(* it did; whether spec.reclaim.interval has elapsed is left open.  A call *)
(* that fails has no effect.  The claim of a user has one name.            *)
(***************************************************************************)
EXTENDS Integers, FiniteSets

CONSTANTS
  Users,
  Nil,                 \* no claim, an unset lastActivity, nobody
  Target,              \* spec.reclaim.targetWorkspaces
  MinIdleAge,          \* spec.reclaim.minIdleAge, in ticks
  DeleteVolumeData,    \* spec.reclaim.deleteVolumeData
  MaxAge,              \* bound: ages are told apart up to here
  MaxVisits,           \* bound: requests and deletions by hand together
  MaxDeletes,          \* bound: deletions by hand
  MaxFaults            \* bound: failing calls of the Reclaimer, and its deaths

ASSUME ReclaimerAssumption ==
  /\ IsFiniteSet(Users)
  /\ Nil \notin Int \cup Users
  /\ Target \in Nat \ {0}
  /\ MinIdleAge \in Nat
  /\ DeleteVolumeData \in BOOLEAN
  /\ MaxAge \in Nat /\ MaxAge >= MinIdleAge
  /\ MaxVisits \in Nat /\ MaxDeletes \in Nat /\ MaxFaults \in Nat

VARIABLES
  ws,        \* the API server's Workspaces
  claim,     \* each user's claim, with its volume
  pc,        \* the Reclaimer's next call
  list,      \* what this pass's List said of each Workspace
  todo,      \* users this pass still has to deal with
  cur,       \* the user it is dealing with
  copy,      \* that user's claim as it read it
  swept,     \* the orphan sweep has met no error
  visits, deletes, faults

pass == <<pc, list, todo, cur, copy, swept>>
vars == <<ws, claim, pass, visits, deletes, faults>>

Phases == {"Pending", "Starting", "Ready", "Idle", "Failed"}

\* "deleting" carries a deletionTimestamp.
Workspace ==
  [st: {"absent", "live", "deleting"}, phase: Phases,
   age: 0..MaxAge \cup {Nil},       \* ticks since lastActivity
   conns: BOOLEAN]                  \* the fresh connection count is not zero

NoWorkspace ==
  [st |-> "absent", phase |-> "Pending", age |-> Nil, conns |-> FALSE]

\* stamp is the annotation reclaiming, with whether the volume was bound when
\* the Reclaimer read the claim; vol is the bound volume's reclaim policy; used
\* is history: a start used the claim since the Reclaimer last dealt with it.
Claim ==
  [stamp: {"no", "unbound", "bound"}, vol: {"unbound", "Retain", "Delete"},
   del: BOOLEAN, used: BOOLEAN]

ASSUME NilAssumption == Nil \notin Claim

NewClaim == [stamp |-> "no", vol |-> "unbound", del |-> FALSE, used |-> FALSE]

\* A listed Workspace, with its age if it is a candidate.
Listed == [st: {"absent", "live", "deleting"}, age: 0..MaxAge \cup {Nil}]

NotListed == [st |-> "absent", age |-> Nil]

Steps ==
  {"idle", "claims", "sweep", "next", "release", "stamp", "delws", "delclaim"}

\* The types of the module.
TypeOK ==
  /\ ws \in [Users -> Workspace]
  /\ claim \in [Users -> Claim \cup {Nil}]
  /\ pc \in Steps
  /\ list \in [Users -> Listed]
  /\ todo \in SUBSET Users
  /\ cur \in Users \cup {Nil}
  /\ copy \in Claim \cup {Nil}
  /\ swept \in BOOLEAN
  /\ visits \in 0..MaxVisits
  /\ deletes \in 0..MaxDeletes
  /\ faults \in 0..MaxFaults

Init ==
  /\ ws = [u \in Users |-> NoWorkspace]
  /\ claim = [u \in Users |-> Nil]
  /\ pc = "idle"
  /\ list = [u \in Users |-> NotListed]
  /\ todo = {} /\ cur = Nil /\ copy = Nil /\ swept = TRUE
  /\ visits = 0 /\ deletes = 0 /\ faults = 0

-----------------------------------------------------------------------------
(* Everybody else.                                                         *)

\* ensureWorkspace creates what is missing, a request for an Idle Workspace
\* wakes it, and one for a running Workspace is activity and may stay connected.
Visit(u) ==
  /\ visits + deletes < MaxVisits
  /\ visits' = visits + 1
  /\ \/ /\ ws[u].st = "absent"
        /\ ws' = [ws EXCEPT ![u] = [NoWorkspace EXCEPT !.st = "live"]]
     \/ /\ ws[u].st # "absent" /\ ws[u].phase = "Idle"
        /\ ws' = [ws EXCEPT ![u].phase = "Pending"]
     \/ /\ ws[u].st # "absent" /\ ws[u].phase = "Ready"
        /\ \E c \in {TRUE, ws[u].conns} :
             ws' = [ws EXCEPT ![u].age = 0, ![u].conns = c]
  /\ UNCHANGED <<claim, pass, deletes, faults>>

HangUp(u) ==
  /\ ws[u].conns
  /\ ws' = [ws EXCEPT ![u].conns = FALSE]
  /\ UNCHANGED <<claim, pass, visits, deletes, faults>>

Rows_Reset(w) == IF w.phase = "Failed" THEN {""} ELSE {"Failed"}

\* Where one pass of the reconciler may leave a Workspace.
Rows(w) ==
  CASE w.phase = "Pending"  -> {"Starting"}
    [] w.phase = "Starting" -> {"Ready", "Failed"}
    [] w.phase = "Failed"   -> {"Pending"}
    [] w.phase = "Idle"     -> {"Idle"}
    [] w.phase = "Ready"    -> {"Ready", "Pending"} \cup
                               (IF w.conns \/ w.age \in {Nil, 0} THEN {} ELSE {"Idle"})

\* reconcilePVC creates a missing claim in every row but Failed's.
Ensured(u) == IF claim[u] = Nil THEN NewClaim ELSE claim[u]

Reconcile(u) ==
  /\ ws[u].st # "absent"
  /\ \E p \in Rows(ws[u]) :
       /\ ws' = [ws EXCEPT ![u].phase = p]
       /\ claim' = IF ws[u].phase = "Failed" THEN claim
                   ELSE [claim EXCEPT ![u] =
                          [Ensured(u) EXCEPT
                             !.used = @ \/ (p = "Starting" /\ ws[u].st = "live")]]
  /\ UNCHANGED <<pass, visits, deletes, faults>>

\* What Delete leaves of a Workspace: its finalizer holds it.
Deleted(w) == IF w.st = "absent" THEN w ELSE [w EXCEPT !.st = "deleting"]

\* reconcileDelete takes the finalizer; the claim stays.
ReconcileDelete(u) ==
  /\ ws[u].st = "deleting"
  /\ ws' = [ws EXCEPT ![u] = NoWorkspace]
  /\ UNCHANGED <<claim, pass, visits, deletes, faults>>

DeleteByHand(u) ==
  /\ ws[u].st = "live"
  /\ deletes < MaxDeletes /\ visits + deletes < MaxVisits
  /\ deletes' = deletes + 1
  /\ ws' = [ws EXCEPT ![u] = Deleted(@)]
  /\ UNCHANGED <<claim, pass, visits, faults>>

\* A claim is made ahead of its Workspace, with the data of a migration.
Seed(u) ==
  /\ ws[u].st = "absent" /\ claim[u] = Nil
  /\ claim' = [claim EXCEPT ![u] = [NewClaim EXCEPT !.vol = "Retain"]]
  /\ UNCHANGED <<ws, pass, visits, deletes, faults>>

Bind(u) ==
  /\ claim[u] # Nil /\ claim[u].vol = "unbound" /\ ~claim[u].del
  /\ claim' = [claim EXCEPT ![u].vol = "Retain"]
  /\ UNCHANGED <<ws, pass, visits, deletes, faults>>

\* pvc-protection keeps a deleted claim while a pod may use it.  The volume a
\* pass read with it is not the one of a claim made in its place.
ClaimGone(u) ==
  /\ claim[u] # Nil /\ claim[u].del
  /\ ws[u].phase \notin {"Starting", "Ready", "Failed"}
  /\ claim' = [claim EXCEPT ![u] = Nil]
  /\ copy' = IF u = cur /\ copy # Nil THEN [copy EXCEPT !.vol = "unbound"] ELSE copy
  /\ UNCHANGED <<ws, pc, list, todo, cur, swept, visits, deletes, faults>>

Tick ==
  /\ ws' = [u \in Users |->
              [ws[u] EXCEPT !.age = IF @ \in {Nil, MaxAge} THEN @ ELSE @ + 1]]
  /\ UNCHANGED <<claim, pass, visits, deletes, faults>>

-----------------------------------------------------------------------------
(* One pass of the Reclaimer over one app.                                 *)

Fault == faults < MaxFaults /\ faults' = faults + 1
NoFault == UNCHANGED faults

IsReclaimable(w) ==
  /\ w.st = "live"
  /\ w.phase \in {"Idle", "Failed"}
  /\ IF w.age = Nil THEN FALSE ELSE w.age >= MinIdleAge
  /\ ~w.conns

\* The pass is over, and forgets what it listed.
Ended ==
  /\ pc' = "idle" /\ todo' = {} /\ cur' = Nil /\ copy' = Nil /\ swept' = TRUE
  /\ list' = [u \in Users |-> NotListed]

\* The Workspaces, and which of them are candidates as the pass begins.
ListWorkspaces ==
  /\ pc = "idle"
  /\ pc' = "claims"
  /\ list' = [u \in Users |->
                [st |-> ws[u].st, age |-> IF IsReclaimable(ws[u]) THEN ws[u].age ELSE Nil]]
  /\ UNCHANGED <<ws, claim, todo, cur, copy, swept, visits, deletes, faults>>

Orphan_Inverted(u) ==
  /\ claim[u] # Nil /\ ~claim[u].del /\ claim[u].stamp # "no"
  /\ list[u].st # "absent"

Orphan_Unstamped(u) ==
  /\ claim[u] # Nil /\ ~claim[u].del
  /\ list[u].st = "absent"

\* A stamped claim whose Workspace the List did not return.
Orphan(u) ==
  /\ claim[u] # Nil /\ ~claim[u].del /\ claim[u].stamp # "no"
  /\ list[u].st = "absent"

ListClaims ==
  /\ pc = "claims"
  /\ \/ /\ NoFault
        /\ pc' = "sweep"
        /\ todo' = {u \in Users : Orphan(u)}
        /\ UNCHANGED <<list, cur, copy, swept>>
     \/ Fault /\ Ended
  /\ UNCHANGED <<ws, claim, visits, deletes>>

\* Delete names a claim and nothing else of it.
Removed(u) ==
  [claim EXCEPT ![u] = IF claim[u] = Nil THEN Nil ELSE [claim[u] EXCEPT !.del = TRUE]]

Sweep(u) ==
  /\ pc = "sweep"
  /\ u \in todo
  /\ todo' = todo \ {u}
  /\ \/ NoFault /\ claim' = Removed(u) /\ UNCHANGED swept
     \/ Fault /\ swept' = FALSE /\ UNCHANGED claim
  /\ UNCHANGED <<ws, pc, list, cur, copy, visits, deletes>>

Live_WithDeleting == {u \in Users : list[u].st # "absent"}

Live == {u \in Users : list[u].st = "live"}

Over_Lax == Cardinality(Live) - Target - 1

Over == Cardinality(Live) - Target

Candidates == {u \in Users : list[u].age # Nil}

\* S may be the first k of the candidates sorted by lastActivity.
LeastRecent(S, k) ==
  /\ S \subseteq Candidates
  /\ Cardinality(S) = IF Cardinality(Candidates) > k THEN k ELSE Cardinality(Candidates)
  /\ \A u \in S, v \in Candidates \ S : list[u].age >= list[v].age

\* After the sweep: an error in it ends the pass, and so does an app that is not
\* over its target; otherwise the candidates to reclaim are chosen.
Pick ==
  /\ pc = "sweep"
  /\ todo = {}
  /\ \/ /\ ~swept \/ Over <= 0
        /\ Ended
     \/ /\ swept /\ Over > 0
        /\ pc' = "next"
        /\ \E S \in SUBSET Users :
             /\ LeastRecent(S, Over)
             /\ todo' = S
             /\ list' = [u \in Users |-> IF u \in S THEN list[u] ELSE NotListed]
        /\ UNCHANGED <<cur, copy, swept>>
  /\ UNCHANGED <<ws, claim, visits, deletes, faults>>

EndPass ==
  /\ pc = "next"
  /\ todo = {}
  /\ Ended
  /\ UNCHANGED <<ws, claim, visits, deletes, faults>>

\* reclaimWorkspace for the oldest that is left: reading its claim.
GetClaim(u) ==
  /\ pc = "next"
  /\ u \in todo
  /\ \A v \in todo : list[u].age >= list[v].age
  /\ todo' = todo \ {u}
  /\ list' = [list EXCEPT ![u] = NotListed]
  /\ \/ /\ NoFault
        /\ cur' = u
        /\ copy' = claim[u]
        /\ pc' = IF claim[u] = Nil THEN "delws" ELSE "release"
     \/ Fault /\ UNCHANGED <<cur, copy, pc>>
  /\ UNCHANGED <<ws, claim, swept, visits, deletes>>

\* On to the next Workspace, also after an error with this one.
Onward == pc' = "next" /\ cur' = Nil /\ copy' = Nil

GiveUp == Onward /\ UNCHANGED <<ws, claim>>

Released_NotYet(c) == c

\* releaseVolume: the bound volume's policy becomes Delete.
Released(c) ==
  IF DeleteVolumeData /\ copy.vol # "unbound" THEN [c EXCEPT !.vol = "Delete"] ELSE c

ReleaseVolume ==
  /\ pc = "release"
  /\ \/ /\ NoFault
        /\ pc' = "stamp"
        /\ claim' = IF claim[cur] = Nil THEN claim
                    ELSE [claim EXCEPT ![cur] = Released(@)]
        /\ UNCHANGED <<ws, cur, copy>>
     \/ Fault /\ GiveUp
  /\ UNCHANGED <<list, todo, swept, visits, deletes>>

\* markReclaiming, unless the copy carries the stamp.
Stamped(c) ==
  IF copy.stamp # "no" THEN c
  ELSE [c EXCEPT !.stamp = IF copy.vol = "unbound" THEN "unbound" ELSE "bound",
                 !.used = FALSE]

\* The patch of a claim that is gone is refused.
MarkReclaiming ==
  /\ pc = "stamp"
  /\ \/ /\ claim[cur] # Nil
        /\ NoFault
        /\ pc' = "delws"
        /\ claim' = [claim EXCEPT ![cur] = Stamped(@)]
        /\ UNCHANGED <<ws, cur, copy>>
     \/ /\ claim[cur] = Nil
        /\ NoFault
        /\ IF copy.stamp = "no" THEN GiveUp
           ELSE pc' = "delws" /\ UNCHANGED <<ws, claim, cur, copy>>
     \/ Fault /\ GiveUp
  /\ UNCHANGED <<list, todo, swept, visits, deletes>>

DeleteWorkspace ==
  /\ pc = "delws"
  /\ \/ /\ NoFault
        /\ pc' = "delclaim"
        /\ ws' = [ws EXCEPT ![cur] = Deleted(@)]
        /\ claim' = IF claim[cur] = Nil THEN claim ELSE [claim EXCEPT ![cur].used = FALSE]
        /\ UNCHANGED <<cur, copy>>
     \/ Fault /\ GiveUp
  /\ UNCHANGED <<list, todo, swept, visits, deletes>>

\* When no claim was read there is no name to delete by and the call is refused.
DeleteClaim ==
  /\ pc = "delclaim"
  /\ \/ /\ NoFault
        /\ claim' = IF copy = Nil THEN claim ELSE Removed(cur)
        /\ Onward
        /\ UNCHANGED ws
     \/ Fault /\ GiveUp
  /\ UNCHANGED <<list, todo, swept, visits, deletes>>

\* The process dies; the next leader starts with an empty lastPass.
Crash ==
  /\ pc # "idle"
  /\ Fault
  /\ Ended
  /\ UNCHANGED <<ws, claim, visits, deletes>>

Reclaim ==
  \/ ListWorkspaces \/ ListClaims \/ Pick \/ EndPass
  \/ ReleaseVolume \/ MarkReclaiming \/ DeleteWorkspace \/ DeleteClaim
  \/ \E u \in Users : Sweep(u) \/ GetClaim(u)

Next ==
  \/ Reclaim \/ Crash \/ Tick
  \/ \E u \in Users :
       \/ Visit(u) \/ HangUp(u) \/ Reconcile(u) \/ ReconcileDelete(u)
       \/ DeleteByHand(u) \/ Seed(u) \/ Bind(u) \/ ClaimGone(u)

Spec == Init /\ [][Next]_vars

\* The ticker keeps starting passes and calls return; the reconciler takes
\* finalizers and an unused claim that was deleted goes.
Fairness ==
  /\ WF_vars(Reclaim)
  /\ \A u \in Users : WF_vars(ReconcileDelete(u)) /\ WF_vars(ClaimGone(u))

FairSpec == Spec /\ Fairness

-----------------------------------------------------------------------------
(* Properties.                                                             *)

Present == {u \in Users : ws[u].st = "live"}

\* Passes that follow each other while finalizers are pending, or after a crash
\* in the middle of one, never reclaim the same overage twice: unless somebody
\* deletes by hand, a deletion leaves targetWorkspaces Workspaces.
NeverBelowTarget ==
  [][deletes' = 0 /\ Cardinality(Present') < Cardinality(Present)
       => Cardinality(Present') >= Target]_vars

\* With deleteVolumeData, a stamped claim whose volume was bound when it was read
\* already has the policy Delete, whatever failed since: deleting the claim
\* later, by whichever pass, frees the disk (releaseVolume before the stamp).
StampFollowsRelease ==
  DeleteVolumeData =>
    \A u \in Users : claim[u] # Nil /\ claim[u].stamp = "bound" => claim[u].vol = "Delete"

\* The orphan sweep never deletes a claim that was seeded ahead of its Workspace
\* and that nobody used yet, whenever the Workspace is created or deleted.
SeededClaimSurvives ==
  [][\A u \in Users :
        /\ pc = "sweep"
        /\ claim[u] # Nil /\ claim[u].stamp = "no" /\ ~claim[u].used /\ ~claim[u].del
        => claim'[u] # Nil /\ ~claim'[u].del]_vars

\* What an interrupted pass left is finished: a stamped claim without Workspace
\* goes, unless its user comes back first.
OrphanSwept ==
  \A u \in Users :
    claim[u] # Nil /\ claim[u].stamp # "no" /\ ws[u].st = "absent"
      ~> claim[u] = Nil \/ ws[u].st # "absent"

\* An app over its target with something to reclaim does not stay so, failing
\* calls and crashes notwithstanding.
OverageReclaimed ==
  (Cardinality(Present) > Target /\ \E u \in Users : IsReclaimable(ws[u]))
    ~> (Cardinality(Present) <= Target \/ ~\E u \in Users : IsReclaimable(ws[u]))

-----------------------------------------------------------------------------
(* What the repository's comments say, and the code does not do.           *)

\* reclaimer.go, of the orphan sweep: "Requiring the annotation means the sweep
\* only ever finishes work this operator itself began".  Then it never deletes
\* the claim of a user who went back to work after the stamp and whose Workspace
\* somebody else deleted since.
SweepOnlyFinishes ==
  [][\A u \in Users :
        /\ pc = "sweep"
        /\ claim[u] # Nil /\ claim[u].used /\ ~claim[u].del
        /\ ws[u].st = "absent"
        => claim'[u] # Nil /\ ~claim'[u].del]_vars
=============================================================================
