------------------------------- MODULE Resolver -------------------------------
(***************************************************************************)
(* A router replica's address cache (internal/router/resolve.go): Resolve  *)
(* with its live Get on a miss, the Service and Workspace delete watches   *)
(* that invalidate it, and their reconnect loop.                           *)
(*                                                                         *)
(* A Service's ClusterIP comes from a pool and goes back to it when the    *)
(* Service is deleted.  The cached address is the ClusterIP; the port is   *)
(* the replica's own constant.  A watch opened without a resourceVersion   *)
(* starts from the objects that exist: a delete that happened while it was *)
(* closed is never sent.                                                   *)
(***************************************************************************)
EXTENDS Integers, Sequences

CONSTANTS
  Names,             \* users' Services, each named as its Workspace
  Addresses,         \* the ClusterIP pool
  Calls,             \* concurrent calls of Resolve
  None,              \* no Service, no cache entry
  MinBackoff,        \* ReconnectMinBackoff, in ticks
  MaxBackoff,        \* ReconnectMaxBackoff, in ticks
  MaxDeletes,        \* bound: Workspace deletions
  MaxDrops           \* bound: watches that close, or fail to open

ASSUME ResolverAssumption ==
  /\ None \notin Addresses
  /\ MinBackoff \in Nat \ {0}
  /\ MaxBackoff \in Nat
  /\ MinBackoff <= MaxBackoff
  /\ MaxDeletes \in Nat
  /\ MaxDrops \in Nat

Kinds == {"Service", "Workspace"}

VARIABLES
  owned,       \* names whose Workspace exists
  svc,         \* each Service's ClusterIP
  cache,       \* the Resolver's cache
  call,        \* where each Resolve is: its name, and the address it read
  watch,       \* each watch: open, the deletes on their way, its backoff
  missed,      \* names whose Service was deleted while nobody was told
  raced,       \* names invalidated while a Resolve held an address to store
  deletes, drops

vars == <<owned, svc, cache, call, watch, missed, raced, deletes, drops>>

\* A watch is open, or sleeps for `wait` ticks before it tries again.
Watches ==
  [open: BOOLEAN, q: Seq(Names), backoff: MinBackoff..MaxBackoff, wait: 0..MaxBackoff]

TypeOK ==
  /\ owned \in SUBSET Names
  /\ svc \in [Names -> Addresses \cup {None}]
  /\ cache \in [Names -> Addresses \cup {None}]
  /\ call \in [Calls -> [pc: {"idle", "get", "fill"}, name: Names,
                         addr: Addresses \cup {None}]]
  /\ watch \in [Kinds -> Watches]
  /\ missed \in SUBSET Names
  /\ raced \in SUBSET Names
  /\ deletes \in 0..MaxDeletes
  /\ drops \in 0..MaxDrops

Init ==
  /\ owned = {}
  /\ svc = [n \in Names |-> None]
  /\ cache = [n \in Names |-> None]
  /\ call \in [Calls -> [pc: {"idle"}, name: Names, addr: {None}]]
  /\ watch = [k \in Kinds |-> [open |-> TRUE, q |-> <<>>, backoff |-> MinBackoff, wait |-> 0]]
  /\ missed = {} /\ raced = {}
  /\ deletes = 0 /\ drops = 0

-----------------------------------------------------------------------------
(* The API server and the controller that makes the Services.              *)

InUse == {svc[n] : n \in Names}

CreateService(n) ==
  /\ svc[n] = None
  /\ \E a \in Addresses \ InUse : svc' = [svc EXCEPT ![n] = a]
  /\ owned' = owned \cup {n}
  /\ UNCHANGED <<cache, call, watch, missed, raced, deletes, drops>>

\* A delete, as an open watch is told of it.
Told(k, n) == IF watch[k].open THEN [watch[k] EXCEPT !.q = Append(@, n)] ELSE watch[k]

\* The Workspace goes first; its Service follows when it is collected.
DeleteWorkspace(n) ==
  /\ n \in owned
  /\ deletes < MaxDeletes
  /\ deletes' = deletes + 1
  /\ owned' = owned \ {n}
  /\ watch' = [watch EXCEPT !["Workspace"] = Told("Workspace", n)]
  /\ UNCHANGED <<svc, cache, call, missed, raced, drops>>

CollectService(n) ==
  /\ n \notin owned
  /\ svc[n] # None
  /\ svc' = [svc EXCEPT ![n] = None]
  /\ watch' = [watch EXCEPT !["Service"] = Told("Service", n)]
  /\ missed' = IF watch["Service"].open THEN missed ELSE missed \cup {n}
  /\ UNCHANGED <<owned, cache, call, raced, deletes, drops>>

-----------------------------------------------------------------------------
(* Resolve.                                                                *)

\* A call whose name is cached returns the cached address at once.
ResolveHit(c) ==
  /\ call[c].pc = "idle"
  /\ \E n \in Names :
       /\ cache[n] # None
       /\ call' = [call EXCEPT ![c].name = n, ![c].addr = cache[n]]
  /\ UNCHANGED <<owned, svc, cache, watch, missed, raced, deletes, drops>>

ResolveMiss(c) ==
  /\ call[c].pc = "idle"
  /\ \E n \in Names :
       /\ cache[n] = None
       /\ call' = [call EXCEPT ![c] = [pc |-> "get", name |-> n, addr |-> None]]
  /\ UNCHANGED <<owned, svc, cache, watch, missed, raced, deletes, drops>>

\* The live Get: an error, NotFound or other, is returned and nothing stored.
ResolveGet(c) ==
  /\ call[c].pc = "get"
  /\ \/ /\ svc[call[c].name] # None
        /\ call' = [call EXCEPT ![c].pc = "fill", ![c].addr = svc[call[c].name]]
     \/ call' = [call EXCEPT ![c].pc = "idle"]
  /\ UNCHANGED <<owned, svc, cache, watch, missed, raced, deletes, drops>>

ResolveFill(c) ==
  /\ call[c].pc = "fill"
  /\ cache' = [cache EXCEPT ![call[c].name] = call[c].addr]
  /\ call' = [call EXCEPT ![c].pc = "idle"]
  /\ UNCHANGED <<owned, svc, watch, missed, raced, deletes, drops>>

-----------------------------------------------------------------------------
(* The watches.                                                            *)

\* Invalidate, as HandleServiceEvent and HandleWorkspaceEvent call it.
Invalidated_Ignored(n) == cache

Invalidated(n) == [cache EXCEPT ![n] = None]

\* A watch's next event.  missed and raced only record what happened.
HandleEvent(k) ==
  /\ watch[k].q # <<>>
  /\ LET n == Head(watch[k].q)
     IN  /\ cache' = Invalidated(n)
         /\ missed' = missed \ {n}
         /\ raced' = IF \E c \in Calls : call[c].pc = "fill" /\ call[c].name = n
                     THEN raced \cup {n} ELSE raced \ {n}
  /\ watch' = [watch EXCEPT ![k].q = Tail(@)]
  /\ UNCHANGED <<owned, svc, call, deletes, drops>>

NextBackoff_Unbounded(d) == 2 * d

NextBackoff(d) == IF 2 * d > MaxBackoff THEN MaxBackoff ELSE 2 * d

Lost(k) == IF k = "Service" THEN {watch[k].q[i] : i \in DOMAIN watch[k].q} ELSE {}

\* The watch's channel closes.  A session that lasted at least MinBackoff sleeps
\* MinBackoff; a shorter one sleeps the current backoff and raises it.
Drop(k) ==
  /\ watch[k].open
  /\ drops < MaxDrops
  /\ drops' = drops + 1
  /\ missed' = missed \cup Lost(k)
  /\ \E healthy \in BOOLEAN :
       watch' = [watch EXCEPT ![k] =
         IF healthy
           THEN [open |-> FALSE, q |-> <<>>, backoff |-> MinBackoff, wait |-> MinBackoff]
           ELSE [open |-> FALSE, q |-> <<>>, backoff |-> NextBackoff(@.backoff),
                 wait |-> @.backoff]]
  /\ UNCHANGED <<owned, svc, cache, call, raced, deletes>>

Sleep(k) ==
  /\ ~watch[k].open
  /\ watch[k].wait > 0
  /\ watch' = [watch EXCEPT ![k].wait = @ - 1]
  /\ UNCHANGED <<owned, svc, cache, call, missed, raced, deletes, drops>>

\* The Watch call after the sleep succeeds, or fails and sleeps again.
Reconnect_Once(k) == FALSE

Reconnect(k) ==
  /\ ~watch[k].open
  /\ watch[k].wait = 0
  /\ watch' = [watch EXCEPT ![k].open = TRUE]
  /\ UNCHANGED <<owned, svc, cache, call, missed, raced, deletes, drops>>

WatchFails(k) ==
  /\ ~watch[k].open
  /\ watch[k].wait = 0
  /\ drops < MaxDrops
  /\ drops' = drops + 1
  /\ watch' = [watch EXCEPT ![k].wait = watch[k].backoff, ![k].backoff = NextBackoff(@)]
  /\ UNCHANGED <<owned, svc, cache, call, missed, raced, deletes>>

-----------------------------------------------------------------------------

Next ==
  \/ \E n \in Names : CreateService(n) \/ DeleteWorkspace(n) \/ CollectService(n)
  \/ \E c \in Calls : ResolveHit(c) \/ ResolveMiss(c) \/ ResolveGet(c) \/ ResolveFill(c)
  \/ \E k \in Kinds : HandleEvent(k) \/ Drop(k) \/ Sleep(k) \/ Reconnect(k) \/ WatchFails(k)

Spec == Init /\ [][Next]_vars

Fairness ==
  \A k \in Kinds : WF_vars(HandleEvent(k)) /\ WF_vars(Sleep(k)) /\ WF_vars(Reconnect(k))

FairSpec == Spec /\ Fairness

-----------------------------------------------------------------------------
(* Properties.                                                             *)

Pending(n) == \E i \in DOMAIN watch["Service"].q : watch["Service"].q[i] = n

Stale(n) == cache[n] # None /\ cache[n] # svc[n]

\* A cached address is its Service's current one, unless the delete that made it
\* stale is still on its way to this process, was never sent because the watch
\* was down, or met a Resolve between its Get and its store: no interleaving of
\* calls, watches and re-created Services leaves a stale entry otherwise.
StaleHasACause == \A n \in Names : Stale(n) => Pending(n) \/ n \in missed \/ n \in raced

\* A watch that closed comes back: the process never stops learning of deletes.
WatchComesBack == \A k \in Kinds : ~watch[k].open ~> watch[k].open
=============================================================================
