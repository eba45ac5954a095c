------------------------------ MODULE Connections ------------------------------
(***************************************************************************)
(* How one user's upgraded connections reach the reaper's predicate: the   *)
(* ConnectionTracker and touchActivity of every router replica             *)
(* (internal/router/connections.go), and the sum over fresh entries        *)
(* (internal/controller/reaper.go).                                        *)
(*                                                                         *)
(* publish and touchActivity are a Get and a merge patch, two steps that   *)
(* anything can come between; the tracker's mutex covers the counter and   *)
(* neither of them.  A replica's pod name is never used again, so one that *)
(* dies stays dead.                                                        *)
(*                                                                         *)
(* A tick is a fraction of connectionHeartbeatInterval.  Two assumptions   *)
(* on time are made by Tick: a publish ends in the tick it began in, and   *)
(* HeartbeatAll is not late.  From the time touchActivity is given to the  *)
(* connection's Open it may take MaxTouchDelay ticks.                      *)
(***************************************************************************)
EXTENDS Integers, FiniteSets

CONSTANTS
  Replicas,          \* pod names of router replicas
  Sessions,          \* requests of the user that upgrade, one id per slot
  Nil,               \* an absent entry, an unset lastActivity
  Heartbeat,         \* connectionHeartbeatInterval, in ticks
  IdleTimeout,       \* spec.lifecycle.idleTimeout, in ticks
  MaxTouchDelay,     \* bound: ticks between touchActivity's time and Open
  MaxFaults,         \* bound: failing API calls
  MaxDeaths          \* bound: replicas that die

ASSUME ConnectionsAssumption ==
  /\ Replicas \cap Sessions = {}
  /\ IsFiniteSet(Sessions)
  /\ Nil \notin Int
  /\ Heartbeat \in Nat \ {0}
  /\ IdleTimeout \in Nat
  /\ MaxTouchDelay \in Nat
  /\ MaxFaults \in Nat
  /\ MaxDeaths \in Nat

VARIABLES
  entries,     \* status.connections, by pod name: count and age in ticks
  last,        \* ticks since status.lastActivity
  alive,       \* replicas that run
  counts,      \* each tracker's counts[key]
  known,       \* trackers whose counts map has the key
  since,       \* ticks since each replica's HeartbeatAll
  phase,       \* where each session's goroutine is
  home,        \* the replica that serves it
  stamp,       \* ticks since the time its touchActivity was given
  pub,         \* the publish each goroutine is in, if any
  faults

vars == <<entries, last, alive, counts, known, since, phase, home, stamp, pub, faults>>

\* "counted" has a deferred Close, "uncounted" does not: its Open failed.
SessionPhases ==
  {"idle", "touch", "touching", "open", "opening", "counted", "uncounted", "closing"}

\* The goroutines that publish: the sessions' and each replica's heartbeat.
Publishers == Sessions \cup Replicas

Publishing == [st: {"get", "patch"}, n: Nat, base: Nat \cup {Nil}]

Entries == [count: Nat, age: 0..2 * Heartbeat]

ASSUME NilAssumption == Nil \notin Publishing \cup Entries

TypeOK ==
  /\ entries \in [Replicas -> Entries \cup {Nil}]
  /\ last \in 0..(IdleTimeout + MaxTouchDelay + 1) \cup {Nil}
  /\ alive \in SUBSET Replicas
  /\ counts \in [Replicas -> Nat]
  /\ known \in SUBSET Replicas
  /\ since \in [Replicas -> 0..Heartbeat]
  /\ phase \in [Sessions -> SessionPhases]
  /\ home \in [Sessions -> Replicas]
  /\ stamp \in [Sessions -> 0..MaxTouchDelay]
  /\ pub \in [Publishers -> Publishing \cup {Nil}]
  /\ faults \in 0..MaxFaults

Init ==
  /\ entries = [r \in Replicas |-> Nil]
  /\ last = Nil
  /\ alive = Replicas
  /\ counts = [r \in Replicas |-> 0]
  /\ known = {}
  /\ since = [r \in Replicas |-> 0]
  /\ phase = [s \in Sessions |-> "idle"]
  /\ home \in [Sessions -> Replicas]
  /\ stamp = [s \in Sessions |-> 0]
  /\ pub = [p \in Publishers |-> Nil]
  /\ faults = 0

Fault == faults < MaxFaults /\ faults' = faults + 1
NoFault == UNCHANGED faults

Go(s, to) == phase' = [phase EXCEPT ![s] = to]

-----------------------------------------------------------------------------
(* The reaper's view.                                                      *)

\* An entry is fresh for two heartbeat intervals.
Fresh_OneInterval(r) == IF entries[r] = Nil THEN FALSE ELSE entries[r].age < Heartbeat

Fresh(r) == IF entries[r] = Nil THEN FALSE ELSE entries[r].age < 2 * Heartbeat

\* freshConnectionCount is zero: a sum of counts, none of them negative.
NoFreshConnection == \A r \in Replicas : Fresh(r) => entries[r].count = 0

\* isReapable, of a Ready Workspace that is not scaled down yet.
Reapable == IF last = Nil THEN FALSE ELSE last > IdleTimeout /\ NoFreshConnection

-----------------------------------------------------------------------------
(* touchActivity.                                                          *)

\* A request reaches ServeHTTP's touchActivity on some replica.
Request(s) ==
  /\ phase[s] = "idle"
  /\ \E r \in alive : home' = [home EXCEPT ![s] = r]
  /\ stamp' = [stamp EXCEPT ![s] = 0]
  /\ Go(s, "touch")
  /\ UNCHANGED <<entries, last, alive, counts, known, since, pub, faults>>

\* Its Get: a lastActivity at or after the given time is left alone.  ServeHTTP
\* goes on whatever touchActivity returns.
TouchGet(s) ==
  /\ phase[s] = "touch"
  /\ \/ NoFault /\ Go(s, IF last = Nil THEN "touching"
                         ELSE IF last > stamp[s] THEN "touching" ELSE "open")
     \/ Fault /\ Go(s, "open")
  /\ UNCHANGED <<entries, last, alive, counts, known, since, home, stamp, pub>>

\* Its patch, on whatever the server holds by now.
TouchPatch(s) ==
  /\ phase[s] = "touching"
  /\ \/ NoFault /\ last' = stamp[s]
     \/ Fault /\ UNCHANGED last
  /\ Go(s, "open")
  /\ UNCHANGED <<entries, alive, counts, known, since, home, stamp, pub>>

-----------------------------------------------------------------------------
(* The tracker.                                                            *)

StartPublish(p, n) == pub' = [pub EXCEPT ![p] = [st |-> "get", n |-> n, base |-> Nil]]

\* Open's critical section.
Opened_Swapped(n) == n - 1

Opened(n) == n + 1

Open(s) ==
  /\ phase[s] = "open"
  /\ counts' = [counts EXCEPT ![home[s]] = Opened(@)]
  /\ known' = known \cup {home[s]}
  /\ StartPublish(s, counts'[home[s]])
  /\ Go(s, "opening")
  /\ UNCHANGED <<entries, last, alive, since, home, stamp, faults>>

\* Close's critical section.
Closed_NoDecrement(n) == n

Closed_Reset(n) == 0

Closed(n) == IF n > 0 THEN n - 1 ELSE n

\* The connection ends.  Only a session whose Open succeeded has a Close.
Close(s) ==
  /\ phase[s] = "counted"
  /\ counts' = [counts EXCEPT ![home[s]] = Closed(@)]
  /\ StartPublish(s, counts'[home[s]])
  /\ Go(s, "closing")
  /\ UNCHANGED <<entries, last, alive, known, since, home, stamp, faults>>

EndUncounted(s) ==
  /\ phase[s] = "uncounted"
  /\ Go(s, "idle")
  /\ UNCHANGED <<entries, last, alive, counts, known, since, home, stamp, pub, faults>>

\* HeartbeatAll, once per interval, publishes the count it read under the lock;
\* a key the replica never opened is not in its map.
HeartbeatAll(r) ==
  /\ r \in alive
  /\ since[r] = Heartbeat
  /\ pub[r] = Nil
  /\ since' = [since EXCEPT ![r] = 0]
  /\ IF r \in known THEN StartPublish(r, counts[r]) ELSE UNCHANGED pub
  /\ UNCHANGED <<entries, last, alive, counts, known, phase, home, stamp, faults>>

\* The entry a goroutine writes: its own replica's, by pod name.
Slot(p) == IF p \in Replicas THEN p ELSE home[p]

\* publish returns: err tells whether with an error.
Return(p, err) ==
  /\ pub' = [pub EXCEPT ![p] = Nil]
  /\ phase' = IF p \in Replicas THEN phase
              ELSE [phase EXCEPT ![p] = IF @ = "closing" THEN "idle"
                                        ELSE IF err THEN "uncounted" ELSE "counted"]

PublishGet(p) ==
  /\ IF pub[p] = Nil THEN FALSE ELSE pub[p].st = "get"
  /\ \/ /\ NoFault
        /\ pub' = [pub EXCEPT ![p].st = "patch",
                              ![p].base = IF entries[Slot(p)] = Nil THEN Nil
                                          ELSE entries[Slot(p)].count]
        /\ UNCHANGED phase
     \/ Fault /\ Return(p, TRUE)
  /\ UNCHANGED <<entries, last, alive, counts, known, since, home, stamp>>

\* The merge patch carries the count only if it differs from the one read.
PublishPatch(p) ==
  /\ IF pub[p] = Nil THEN FALSE ELSE pub[p].st = "patch"
  /\ \/ /\ NoFault
        /\ entries' = [entries EXCEPT ![Slot(p)] =
             [count |-> IF pub[p].n # pub[p].base THEN pub[p].n ELSE @.count, age |-> 0]]
        /\ Return(p, FALSE)
     \/ Fault /\ Return(p, TRUE) /\ UNCHANGED entries
  /\ UNCHANGED <<last, alive, counts, known, since, home, stamp>>

-----------------------------------------------------------------------------

\* A replica dies, and its connections and goroutines with it.
Die(r) ==
  /\ r \in alive
  /\ Cardinality(Replicas \ alive) < MaxDeaths
  /\ alive' = alive \ {r}
  /\ counts' = [counts EXCEPT ![r] = 0]
  /\ known' = known \ {r}
  /\ since' = [since EXCEPT ![r] = 0]
  /\ phase' = [s \in Sessions |-> IF home[s] = r THEN "idle" ELSE phase[s]]
  /\ pub' = [p \in Publishers |-> IF Slot(p) = r THEN Nil ELSE pub[p]]
  /\ UNCHANGED <<entries, last, home, stamp, faults>>

Smaller(a, b) == IF a < b THEN a ELSE b

Touching(s) == phase[s] \in {"touch", "touching", "open"}

\* One tick.  An entry is not told apart once it is stale, nor lastActivity
\* once every touch under way is later.
Tick ==
  /\ \A p \in Publishers : pub[p] = Nil
  /\ \A r \in alive : since[r] < Heartbeat
  /\ \A s \in Sessions : Touching(s) => stamp[s] < MaxTouchDelay
  /\ since' = [r \in Replicas |-> IF r \in alive THEN since[r] + 1 ELSE 0]
  /\ entries' = [r \in Replicas |-> IF entries[r] = Nil THEN Nil
                  ELSE [entries[r] EXCEPT !.age = Smaller(@ + 1, 2 * Heartbeat)]]
  /\ last' = IF last = Nil THEN Nil ELSE Smaller(last + 1, IdleTimeout + MaxTouchDelay + 1)
  /\ stamp' = [s \in Sessions |-> IF Touching(s) THEN stamp[s] + 1 ELSE 0]
  /\ UNCHANGED <<alive, counts, known, phase, home, pub, faults>>

Next ==
  \/ Tick
  \/ \E r \in Replicas : HeartbeatAll(r) \/ Die(r)
  \/ \E p \in Publishers : PublishGet(p) \/ PublishPatch(p)
  \/ \E s \in Sessions :
       Request(s) \/ TouchGet(s) \/ TouchPatch(s) \/ Open(s) \/ Close(s) \/ EndUncounted(s)

Spec == Init /\ [][Next]_vars

\* Time passes, heartbeats come, calls return and requests get as far as their
\* connection; nobody has to connect or to hang up.
Fairness ==
  /\ WF_vars(Tick)
  /\ \A r \in Replicas : WF_vars(HeartbeatAll(r))
  /\ \A p \in Publishers : WF_vars(PublishGet(p)) /\ WF_vars(PublishPatch(p))
  /\ \A s \in Sessions : WF_vars(TouchGet(s)) /\ WF_vars(TouchPatch(s)) /\ WF_vars(Open(s))

FairSpec == Spec /\ Fairness

-----------------------------------------------------------------------------
(* Properties.                                                             *)

\* Unless a call failed (one lost heartbeat is enough), the reaper's predicate is
\* false while a connection that was published is open, however long the user
\* has been silent, whichever replica serves it, whatever other replicas publish
\* or die, and in whichever order the goroutines of one replica get their
\* patches through.
OpenSessionNotReapable ==
  faults = 0 => \A s \in Sessions : phase[s] = "counted" => ~Reapable

\* Whatever calls fail, a replica's counter is never below the number of published
\* connections it serves: Open and Close from any number of goroutines lose no
\* increment, and an error can only make the counter too high.
NeverUndercounts ==
  \A r \in alive :
    counts[r] >= Cardinality({s \in Sessions : home[s] = r /\ phase[s] = "counted"})

\* Once the last connection is gone, by its Close or with its replica, the sum
\* drops to zero unless somebody connects again: when no call fails, no count
\* pins a Workspace.
CountsDrain ==
  [](faults = 0) =>
    ((\A s \in Sessions : phase[s] = "idle")
       ~> (NoFreshConnection \/ \E s \in Sessions : phase[s] # "idle"))
=============================================================================
