------------------------- MODULE MCWorkspaceLifecycle -------------------------
(* The lifecycle on small instances: the constants TLC cannot be given in a *)
(* configuration file.                                                      *)
EXTENDS WorkspaceLifecycle, Backoff, TLC

\* A tick of backoff to begin with, and never more.
MCBackoffFor == [n \in 1..MaxFailures |-> backoffDuration(n, 1, 1)]

UserSymmetry == Permutations(Users)

\* Bound: a behaviour has one of a failing call, a template edit and a second
\* claim, and a template is edited in a life with one request.
OneKind ==
  /\ faults + appVer + duplicates <= 1
  /\ appVer > 0 => requests < 2
=============================================================================
