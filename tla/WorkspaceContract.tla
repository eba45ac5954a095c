--------------------------- MODULE WorkspaceContract ---------------------------
(***************************************************************************)
(* What the operator promises of the Workspaces of one PerUserApp to those *)
(* who see status, Deployments and pods: the router, the reaper, the       *)
(* Reclaimer and whoever looks at the objects.  Module WorkspaceLifecycle  *)
(* implements it.                                                          *)
(*                                                                         *)
(* The operator reads its Workspaces through a cache.  late is the set of  *)
(* those whose last write it may not have seen yet; it belongs to the      *)
(* environment and changes at any time.  Of a Workspace that is not late   *)
(* the phases follow one table.  Of one that is, a row may be taken that   *)
(* was due before, but still only where what it reads elsewhere allows it: *)
(* Ready is said only of what serves and Idle only of what does not run,   *)
(* a pod is asked for only by a start, and a scale-down is decided of the  *)
(* Workspace as it is, late or not.                                        *)
(***************************************************************************)
CONSTANT Users

VARIABLES
  phase,
  draining,   \* its scale-down was decided and not undone
  wanted,     \* its Deployment asks for a pod
  serving,    \* its Deployment reports one ready
  running,    \* it has a pod, which may hold its volume
  late

object == <<phase, draining>>
pods   == <<serving, running>>

vars == <<object, wanted, pods, late>>

Init ==
  /\ phase = [u \in Users |-> "absent"]
  /\ draining = [u \in Users |-> FALSE]
  /\ wanted = [u \in Users |-> FALSE]
  /\ serving = [u \in Users |-> FALSE]
  /\ running = [u \in Users |-> FALSE]
  /\ late = {}

\* The operator took u to be in a phase.
Took(u, from) == phase[u] = from \/ u \in late

Says(u, to) == phase' = [phase EXCEPT ![u] = to]

Asks(u, b) == wanted' = [wanted EXCEPT ![u] = b]

Create(u) ==
  /\ phase[u] = "absent"
  /\ Says(u, "Pending")
  /\ draining' = [draining EXCEPT ![u] = FALSE]
  /\ UNCHANGED <<wanted, pods>>

\* A start: the Deployment asks for a pod and the phase says so.  One of the
\* two may be missing, when the operator fails in between.
Begin(u) ==
  /\ Took(u, "Pending")
  /\ Says(u, "Starting") \/ UNCHANGED phase
  /\ Asks(u, TRUE) \/ UNCHANGED wanted
  /\ UNCHANGED <<draining, pods>>

Serve(u) ==
  /\ Took(u, "Starting")
  /\ serving[u]
  /\ Says(u, "Ready")
  /\ UNCHANGED <<draining, wanted, pods>>

GiveUp(u) ==
  /\ Took(u, "Starting")
  /\ Says(u, "Failed")
  /\ UNCHANGED <<draining, wanted, pods>>

Retry(u) ==
  /\ Took(u, "Failed")
  /\ Says(u, "Pending")
  /\ UNCHANGED <<draining, wanted, pods>>

\* A scale-down is decided once, of a Workspace that is served.
Reap(u) ==
  /\ phase[u] = "Ready"
  /\ ~draining[u]
  /\ draining' = [draining EXCEPT ![u] = TRUE]
  /\ UNCHANGED <<phase, wanted, pods>>

\* It is carried out, and over when no pod is left.
Drain(u) ==
  /\ Took(u, "Ready")
  /\ draining[u] \/ u \in late
  /\ Asks(u, FALSE)
  /\ (Says(u, "Idle") /\ ~running[u]) \/ UNCHANGED phase
  /\ UNCHANGED <<draining, pods>>

\* A wake queues the Workspace again and undoes the decision in the same write,
\* if the operator knew of it.
Wake(u) ==
  /\ Took(u, "Ready") \/ Took(u, "Idle")
  /\ Says(u, "Pending")
  /\ \/ draining' = [draining EXCEPT ![u] = FALSE]
     \/ u \in late /\ UNCHANGED draining
  /\ UNCHANGED <<wanted, pods>>

\* The cluster brings a pod where one is wanted, and takes any away.
PodComes(u) ==
  /\ wanted[u]
  /\ ~running[u]
  /\ running' = [running EXCEPT ![u] = TRUE]
  /\ UNCHANGED <<object, wanted, serving>>

PodGoes(u) ==
  /\ running[u]
  /\ running' = [running EXCEPT ![u] = FALSE]
  /\ UNCHANGED <<object, wanted, serving>>

PodReports(u) ==
  /\ serving' = [serving EXCEPT ![u] = ~serving[u]]
  /\ UNCHANGED <<object, wanted, running>>

Hear == UNCHANGED <<object, wanted, pods>>

Next ==
  /\ late' \in SUBSET Users
  /\ \/ Hear
     \/ \E u \in Users :
          \/ Create(u) \/ Begin(u) \/ Serve(u) \/ GiveUp(u) \/ Retry(u)
          \/ Reap(u) \/ Drain(u) \/ Wake(u)
          \/ PodComes(u) \/ PodGoes(u) \/ PodReports(u)

Spec == Init /\ [][Next]_vars
=============================================================================
