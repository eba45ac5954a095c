---------------------------- MODULE WorkspaceStatus ----------------------------
(***************************************************************************)
(* The Workspace object (api/v1alpha1/workspace_types.go) as the lifecycle *)
(* sees it, and the pure functions of one Workspace that the operator's    *)
(* components apply to it: the merge patch, the reaper's predicate, the    *)
(* backoff and deadline tests, the status each reconcile row writes.       *)
(*                                                                         *)
(* Time is relative: a stored instant is the number of ticks from now      *)
(* until it (backoff, deadline) or since it (last).  A tick ages every     *)
(* copy of a Workspace alike, and a value is kept only as far past its     *)
(* threshold as some test in the code can still tell.                      *)
(*                                                                         *)
(* An operator Op_Variant is a wrong form of Op that some property has to  *)
(* tell from it; nothing else uses it.                                     *)
(*                                                                         *)
(* Left out: names, labels, podRef/serviceRef/pvcRef (written, never read  *)
(* by the operator) and largestObservedSize (the storage component).       *)
(***************************************************************************)
EXTENDS Integers

CONSTANTS
  Nil,               \* an unset pointer field
  StartupTimeout,    \* spec.lifecycle.startupTimeout, in ticks
  IdleTimeout,       \* spec.lifecycle.idleTimeout, in ticks
  MaxFailures,       \* consecutiveFailures saturates here
  BackoffFor,        \* backoffDuration: failures -> ticks
  MaxGap             \* the longest leaderless interval, in ticks

ASSUME NilAssumption == Nil \notin Int

ASSUME TimingAssumption ==
  /\ StartupTimeout \in Nat
  /\ IdleTimeout \in Nat
  /\ MaxGap \in Nat
  /\ MaxFailures \in Nat \ {0}
  /\ BackoffFor \in [1..MaxFailures -> Nat]

\* "absent" is an object the API server does not hold, "none" the phase "".
Phases == {"absent", "none", "Pending", "Starting", "Ready", "Idle", "Failed"}

Reasons == {"none", "other", "RWOPConflict"}

Workspace ==
  [fin: BOOLEAN,                  \* carries workspaceFinalizer
   phase: Phases,
   scaledDown: BOOLEAN,
   wake: BOOLEAN,                 \* wakeRequestedAt # nil
   created: Nat,                  \* creationTimestamp, in seconds
   enq: Nat \cup {Nil},           \* enqueuedAt, serialised in seconds
   fails: 0..MaxFailures,         \* consecutiveFailures
   backoff: Int \cup {Nil},       \* ticks until backoffUntil
   deadline: Int \cup {Nil},      \* ticks until startDeadline
   waiting: Reasons,              \* waitingReason
   ambiguous: BOOLEAN,            \* condition AmbiguousVolume
   last: Nat \cup {Nil},          \* ticks since lastActivity
   conns: Nat]                    \* fresh connection count

NoWorkspace ==
  [fin |-> FALSE, phase |-> "absent", scaledDown |-> FALSE, wake |-> FALSE,
   created |-> 0, enq |-> Nil, fails |-> 0, backoff |-> Nil, deadline |-> Nil,
   waiting |-> "none", ambiguous |-> FALSE, last |-> Nil, conns |-> 0]

\* The object a router's Create leaves: spec and metadata only, because the
\* status subresource drops whatever status the body carried.
NewWorkspace(s) == [NoWorkspace EXCEPT !.phase = "none", !.created = s]

-----------------------------------------------------------------------------
(* Merge patches: client.MergeFrom(base) sends the fields in which the     *)
(* edited copy differs from the base it was read as, and nothing else.     *)

Merged(cur, base, new) == IF new # base THEN new ELSE cur

MergePatch(cur, base, new) ==
  [fin        |-> Merged(cur.fin, base.fin, new.fin),
   phase      |-> Merged(cur.phase, base.phase, new.phase),
   scaledDown |-> Merged(cur.scaledDown, base.scaledDown, new.scaledDown),
   wake       |-> Merged(cur.wake, base.wake, new.wake),
   created    |-> cur.created,
   enq        |-> Merged(cur.enq, base.enq, new.enq),
   fails      |-> Merged(cur.fails, base.fails, new.fails),
   backoff    |-> Merged(cur.backoff, base.backoff, new.backoff),
   deadline   |-> Merged(cur.deadline, base.deadline, new.deadline),
   waiting    |-> Merged(cur.waiting, base.waiting, new.waiting),
   ambiguous  |-> Merged(cur.ambiguous, base.ambiguous, new.ambiguous),
   last       |-> Merged(cur.last, base.last, new.last),
   conns      |-> Merged(cur.conns, base.conns, new.conns)]

-----------------------------------------------------------------------------
(* The clock, as it bears on one Workspace.                                *)

Later(a, b) == IF a > b THEN a ELSE b

Sooner(a, b) == IF a < b THEN a ELSE b

\* One tick passes.  backoffUntil is told apart before, at and after now;
\* startDeadline may still be extended by up to MaxGap after it passed;
\* lastActivity matters up to one tick past idleTimeout.
Aged(w) ==
  [w EXCEPT
     !.backoff  = IF @ = Nil THEN Nil ELSE Later(@ - 1, -1),
     !.deadline = IF @ = Nil THEN Nil ELSE Later(@ - 1, -MaxGap),
     !.last     = IF @ = Nil THEN Nil ELSE Sooner(@ + 1, IdleTimeout + 1)]

\* now.Before(backoffUntil): admission and the router both refuse.
BackingOff(w) == IF w.backoff = Nil THEN FALSE ELSE w.backoff > 0

BackoffOver_Swapped(w) == IF w.backoff = Nil THEN FALSE ELSE w.backoff > 0

\* now.After(backoffUntil): the Failed row lets go.
BackoffOver(w) == IF w.backoff = Nil THEN FALSE ELSE w.backoff < 0

DeadlinePassed_Swapped(w) == IF w.deadline = Nil THEN FALSE ELSE w.deadline > 0

\* !now.Before(startDeadline)
DeadlinePassed(w) == IF w.deadline = Nil THEN FALSE ELSE w.deadline <= 0

\* enqueueKey: enqueuedAt, else creationTimestamp.
Key(w) == IF w.enq # Nil THEN w.enq ELSE w.created

-----------------------------------------------------------------------------
(* The reaper's predicate.                                                 *)

IsReapable(w) ==
  /\ w.phase = "Ready"
  /\ ~w.scaledDown
  /\ IF w.last = Nil THEN FALSE ELSE w.last > IdleTimeout
  /\ w.conns = 0

-----------------------------------------------------------------------------
(* What the rows of the reconciler's switch write into the copy of status  *)
(* they were given.                                                        *)

Admitted_NoDeadline(w) == [w EXCEPT !.phase = "Starting"]

\* reconcilePending, once admitted.
Admitted(w) == [w EXCEPT !.phase = "Starting", !.deadline = StartupTimeout]

\* reconcilePending, when reconcilePVC refuses after admission.
RefusedPending(w) ==
  [w EXCEPT !.phase = "Pending", !.deadline = Nil, !.ambiguous = TRUE]

\* reconcilePVC's two outcomes on the condition it owns.
VolumeRefused(w) == [w EXCEPT !.ambiguous = TRUE]
VolumeAccepted(w) == [w EXCEPT !.ambiguous = FALSE]

\* transitionToReady.  backoffUntil and wakeRequestedAt are left as they are.
BecomeReady(w) ==
  [w EXCEPT !.phase = "Ready", !.deadline = Nil, !.fails = 0, !.waiting = "none"]

\* RecordStartFailure's two fields.
StartFailed(w) ==
  LET n == Sooner(w.fails + 1, MaxFailures)
  IN  [w EXCEPT !.fails = n, !.backoff = BackoffFor[n]]

WakeUp_Straight(w) ==
  [w EXCEPT !.wake = FALSE, !.scaledDown = FALSE, !.phase = "Starting"]

WakeUp_NoPhase(w) == [w EXCEPT !.wake = FALSE, !.scaledDown = FALSE]

\* The wake row of reconcileReady and reconcileIdle.
WakeUp(w) == [w EXCEPT !.wake = FALSE, !.scaledDown = FALSE, !.phase = "Pending"]

Retried_KeepsBackoff(w) == [w EXCEPT !.phase = "Pending"]

\* reconcileFailed, once the backoff is over.
Retried(w) == [w EXCEPT !.phase = "Pending", !.backoff = Nil]

\* OnLeaseAcquired's extension of a deadline by the leaderless interval g.
Extended(w, g) == IF w.deadline = Nil THEN w ELSE [w EXCEPT !.deadline = @ + g]
=============================================================================
