---------------------------- MODULE ResolverProofs ----------------------------
(***************************************************************************)
(* Theorems about a replica's address cache, for any number of names,      *)
(* addresses and concurrent calls: types, the backoff's bounds among them, *)
(* and that a stale entry always has one of three causes.                  *)
(***************************************************************************)
EXTENDS Resolver, TLAPS

-----------------------------------------------------------------------------
(* The watches.                                                            *)

\* The backoff doubles up to its maximum and never leaves its range.
LEMMA BackoffInRange ==
  ASSUME NEW d \in MinBackoff..MaxBackoff
  PROVE  NextBackoff(d) \in MinBackoff..MaxBackoff
BY ResolverAssumption DEF NextBackoff

\* A watch told of a delete has it last in its queue, if it is open.
LEMMA ToldQueues ==
  ASSUME TypeOK, NEW k \in Kinds, NEW n \in Names
  PROVE  LET w == Told(k, n) IN
         /\ w \in Watches
         /\ \A i \in DOMAIN watch[k].q : i \in DOMAIN w.q /\ w.q[i] = watch[k].q[i]
         /\ watch[k].open => \E i \in DOMAIN w.q : w.q[i] = n
<1> DEFINE old == watch[k]
           q == Append(old.q, n)
<1>1. old \in Watches
  BY DEF TypeOK
<1>2. old.q \in Seq(Names)
  BY <1>1 DEF Watches
<1>3. /\ q \in Seq(Names)
      /\ \A i \in DOMAIN old.q : i \in DOMAIN q /\ q[i] = old.q[i]
      /\ \E i \in DOMAIN q : q[i] = n
  <2> HIDE DEF old
  <2>1. q \in Seq(Names) /\ Len(q) = Len(old.q) + 1
    BY <1>2
  <2>2. \A i \in DOMAIN old.q : i \in DOMAIN q /\ q[i] = old.q[i]
    BY <1>2, <2>1
  <2>3. Len(q) \in DOMAIN q /\ q[Len(q)] = n
    BY <1>2, <2>1
  <2> QED
    BY <2>1, <2>2, <2>3
<1>4. CASE old.open
  <2>1. Told(k, n) = [old EXCEPT !.q = q]
    BY <1>4 DEF Told
  <2> HIDE DEF old, q
  <2>2. Told(k, n) \in Watches /\ Told(k, n).q = q
    BY <1>1, <1>3, <2>1 DEF Watches
  <2> QED
    BY <1>3, <2>2 DEF old
<1>5. CASE ~old.open
  BY <1>1, <1>5 DEF Told
<1> QED
  BY <1>4, <1>5

-----------------------------------------------------------------------------
(* Types.                                                                  *)

\* Every step keeps the types.
LEMMA StepTyped ==
  ASSUME TypeOK, [Next]_vars
  PROVE  TypeOK'
<1> USE ResolverAssumption DEF TypeOK
<1>1. ASSUME NEW n \in Names, CreateService(n)
      PROVE  TypeOK'
  BY <1>1 DEF CreateService
<1>2. ASSUME NEW n \in Names, DeleteWorkspace(n)
      PROVE  TypeOK'
  <2>1. Told("Workspace", n) \in Watches
    BY ToldQueues DEF Kinds
  <2>2. watch' \in [Kinds -> Watches]
    BY <1>2, <2>1 DEF DeleteWorkspace
  <2> QED
    BY <1>2, <2>2 DEF DeleteWorkspace
<1>3. ASSUME NEW n \in Names, CollectService(n)
      PROVE  TypeOK'
  <2>1. Told("Service", n) \in Watches
    BY ToldQueues DEF Kinds
  <2>2. watch' \in [Kinds -> Watches]
    BY <1>3, <2>1 DEF CollectService
  <2> QED
    BY <1>3, <2>2 DEF CollectService
<1>4. ASSUME NEW c \in Calls, ResolveHit(c) \/ ResolveMiss(c) \/ ResolveGet(c)
      PROVE  TypeOK'
  <2>1. CASE ResolveHit(c)
    <3>1. PICK n \in Names :
            call' = [call EXCEPT ![c] = [call[c] EXCEPT !.name = n, !.addr = cache[n]]]
      BY <2>1 DEF ResolveHit
    <3>2. [call[c] EXCEPT !.name = n, !.addr = cache[n]]
            \in [pc: {"idle", "get", "fill"}, name: Names, addr: Addresses \cup {None}]
      OBVIOUS
    <3>3. call' \in [Calls -> [pc: {"idle", "get", "fill"}, name: Names,
                               addr: Addresses \cup {None}]]
      BY <3>1, <3>2
    <3> QED
      BY <2>1, <3>3 DEF ResolveHit
  <2>2. CASE ResolveMiss(c)
    BY <2>2 DEF ResolveMiss
  <2>3. CASE ResolveGet(c)
    BY <2>3 DEF ResolveGet
  <2> QED
    BY <1>4, <2>1, <2>2, <2>3
<1>5. ASSUME NEW c \in Calls, ResolveFill(c)
      PROVE  TypeOK'
  BY <1>5 DEF ResolveFill
<1>6. ASSUME NEW k \in Kinds, HandleEvent(k)
      PROVE  TypeOK'
  <2> DEFINE w == watch[k]
  <2>1. w \in Watches /\ w.q \in Seq(Names) /\ w.q # <<>>
    BY <1>6 DEF HandleEvent, Watches
  <2>2. Head(w.q) \in Names /\ Tail(w.q) \in Seq(Names)
    BY <2>1
  <2>3. watch' = [watch EXCEPT ![k] = [w EXCEPT !.q = Tail(w.q)]]
    BY <1>6 DEF HandleEvent
  <2>4. [w EXCEPT !.q = Tail(w.q)] \in Watches
    BY <2>1, <2>2 DEF Watches
  <2>5. watch' \in [Kinds -> Watches]
    BY <2>3, <2>4
  <2> QED
    BY <1>6, <2>2, <2>5 DEF HandleEvent, Invalidated
<1>7. ASSUME NEW k \in Kinds, Drop(k)
      PROVE  TypeOK'
  <2> DEFINE w == watch[k]
  <2>1. w \in Watches /\ w.q \in Seq(Names) /\ w.backoff \in MinBackoff..MaxBackoff
    BY DEF Watches
  <2>2. Lost(k) \subseteq Names
    BY <2>1 DEF Lost
  <2>3. NextBackoff(w.backoff) \in MinBackoff..MaxBackoff
    BY <2>1, BackoffInRange
  <2>4. <<>> \in Seq(Names)
    OBVIOUS
  <2>5. /\ [open |-> FALSE, q |-> <<>>, backoff |-> MinBackoff, wait |-> MinBackoff] \in Watches
        /\ [open |-> FALSE, q |-> <<>>, backoff |-> NextBackoff(w.backoff), wait |-> w.backoff]
             \in Watches
    BY <2>1, <2>3, <2>4 DEF Watches
  <2>6. watch' \in [Kinds -> Watches]
    BY <1>7, <2>5 DEF Drop
  <2> QED
    BY <1>7, <2>2, <2>6 DEF Drop
<1>8. ASSUME NEW k \in Kinds, Sleep(k) \/ Reconnect(k)
      PROVE  TypeOK'
  <2> DEFINE w == watch[k]
  <2>1. w \in Watches
    OBVIOUS
  <2>2. CASE Sleep(k)
    <3>1. [w EXCEPT !.wait = w.wait - 1] \in Watches
      <4>1. w.wait \in 0..MaxBackoff /\ w.wait > 0
        BY <2>1, <2>2 DEF Sleep, Watches
      <4>2. w.wait - 1 \in 0..MaxBackoff
        BY <4>1
      <4> QED
        BY <2>1, <4>2 DEF Watches
    <3>2. watch' = [watch EXCEPT ![k] = [w EXCEPT !.wait = w.wait - 1]]
      BY <2>2 DEF Sleep
    <3> QED
      BY <2>2, <3>1, <3>2 DEF Sleep
  <2>3. CASE Reconnect(k)
    <3>1. [w EXCEPT !.open = TRUE] \in Watches
      BY <2>1 DEF Watches
    <3>2. watch' = [watch EXCEPT ![k] = [w EXCEPT !.open = TRUE]]
      BY <2>3 DEF Reconnect
    <3> QED
      BY <2>3, <3>1, <3>2 DEF Reconnect
  <2> QED
    BY <1>8, <2>2, <2>3
<1>9. ASSUME NEW k \in Kinds, WatchFails(k)
      PROVE  TypeOK'
  <2> DEFINE w == watch[k]
             new == [w EXCEPT !.wait = w.backoff, !.backoff = NextBackoff(w.backoff)]
  <2>1. w \in Watches /\ w.backoff \in MinBackoff..MaxBackoff
    BY DEF Watches
  <2>2. NextBackoff(w.backoff) \in MinBackoff..MaxBackoff
    BY <2>1, BackoffInRange
  <2>3. new \in Watches
    <3>1. w.backoff \in 0..MaxBackoff
      BY <2>1
    <3> QED
      BY <2>1, <2>2, <3>1 DEF Watches
  <2>4. watch' = [watch EXCEPT ![k] = new]
    BY <1>9, <2>1 DEF WatchFails
  <2>5. watch' \in [Kinds -> Watches]
    BY <2>3, <2>4
  <2> QED
    BY <1>9, <2>5 DEF WatchFails
<1>10. CASE UNCHANGED vars
  BY <1>10 DEF vars
<1> QED
  BY <1>1, <1>2, <1>3, <1>4, <1>5, <1>6, <1>7, <1>8, <1>9, <1>10 DEF Next

\* The initial state has the types.
LEMMA InitTyped == Init => TypeOK
<1> SUFFICES ASSUME Init PROVE TypeOK
  OBVIOUS
<1>1. <<>> \in Seq(Names)
  OBVIOUS
<1>2. [open |-> TRUE, q |-> <<>>, backoff |-> MinBackoff, wait |-> 0] \in Watches
  BY <1>1, ResolverAssumption DEF Watches
<1>3. watch \in [Kinds -> Watches]
  BY <1>2 DEF Init
<1>4. call \in [Calls -> [pc: {"idle", "get", "fill"}, name: Names,
                          addr: Addresses \cup {None}]]
  BY DEF Init
<1>5. 0 \in 0..MaxDeletes /\ 0 \in 0..MaxDrops
  BY ResolverAssumption
<1> QED
  BY <1>3, <1>4, <1>5 DEF Init, TypeOK

\* The cache, the calls and the watches have the types declared for them; a
\* watch waits at most the maximal backoff, however often it was closed.
THEOREM ResolverTypes == Spec => []TypeOK
<1>1. TypeOK /\ [Next]_vars => TypeOK'
  BY StepTyped
<1> QED
  BY InitTyped, <1>1, PTL DEF Spec

-----------------------------------------------------------------------------
(* Causes.                                                                 *)

\* What can make an address that was read for n a wrong one.
Cause(n) == Pending(n) \/ n \in missed \/ n \in raced

\* An address about to be stored is already under suspicion, before it is in
\* the cache: the store itself reads nothing.
FillOK(c) ==
  /\ call[c].addr # None
  /\ \/ call[c].addr = svc[call[c].name]
     \/ Cause(call[c].name)

FillHasACause == \A c \in Calls : call[c].pc = "fill" => FillOK(c)

Inv == TypeOK /\ StaleHasACause /\ FillHasACause

\* A step that changes neither the cache nor the Services, and after which each
\* call that has an address to store had it before, is harmless if it takes no
\* cause away.
LEMMA CausesStay ==
  ASSUME Inv, TypeOK', UNCHANGED <<svc, cache>>,
         \A c \in Calls : call'[c].pc = "fill" => call'[c] = call[c],
         \A n \in Names : Cause(n) => Cause(n)'
  PROVE  StaleHasACause' /\ FillHasACause'
<1>1. StaleHasACause'
  BY DEF Inv, StaleHasACause, Stale, Cause
<1>2. \A c \in Calls : call[c].name \in Names
  BY DEF Inv, TypeOK
<1>3. FillHasACause'
  BY <1>2 DEF Inv, FillHasACause, FillOK
<1> QED
  BY <1>1, <1>3

\* The names queued in a watch stay queued when another one is told.
LEMMA TellingKeepsPending ==
  ASSUME TypeOK, NEW k \in Kinds, NEW n \in Names,
         watch' = [watch EXCEPT ![k] = Told(k, n)]
  PROVE  /\ \A m \in Names : Pending(m) => Pending(m)'
         /\ k = "Service" /\ watch[k].open => Pending(n)'
<1>1. /\ \A i \in DOMAIN watch[k].q :
           i \in DOMAIN Told(k, n).q /\ Told(k, n).q[i] = watch[k].q[i]
      /\ watch[k].open => \E i \in DOMAIN Told(k, n).q : Told(k, n).q[i] = n
  BY ToldQueues
<1>2. CASE k = "Service"
  <2>1. watch'["Service"] = Told(k, n)
    BY <1>2 DEF TypeOK, Kinds
  <2> QED
    BY <1>1, <1>2, <2>1 DEF Pending
<1>3. CASE k # "Service"
  <2>1. watch'["Service"] = watch["Service"]
    BY <1>3 DEF TypeOK, Kinds
  <2> QED
    BY <1>3, <2>1 DEF Pending
<1> QED
  BY <1>2, <1>3

\* A delete of a Service is a cause from the moment it happens.
LEMMA CollectIsACause ==
  ASSUME Inv, TypeOK', NEW n \in Names, CollectService(n)
  PROVE  StaleHasACause' /\ FillHasACause'
<1>1. watch' = [watch EXCEPT !["Service"] = Told("Service", n)]
  BY DEF CollectService
<1>2. \A m \in Names : Pending(m) => Pending(m)'
  BY <1>1, TellingKeepsPending DEF Inv, Kinds
<1>3. watch["Service"].open => Pending(n)'
  BY <1>1, TellingKeepsPending DEF Inv, Kinds
<1>4. \A m \in Names : Cause(m) => Cause(m)'
  BY <1>2 DEF Cause, CollectService
<1>5. Cause(n)'
  BY <1>3 DEF Cause, CollectService
<1>6. \A m \in Names : m # n => svc'[m] = svc[m]
  BY DEF CollectService, Inv, TypeOK
<1>7. StaleHasACause'
  <2> SUFFICES ASSUME NEW m \in Names, Stale(m)' PROVE Cause(m)'
    BY DEF StaleHasACause, Cause
  <2>1. CASE m = n
    BY <1>5, <2>1
  <2>2. CASE m # n
    <3>1. Stale(m)
      BY <1>6, <2>2 DEF Stale, CollectService
    <3>2. Cause(m)
      BY <3>1 DEF Inv, StaleHasACause, Cause
    <3> QED
      BY <1>4, <3>2
  <2> QED
    BY <2>1, <2>2
<1>8. FillHasACause'
  <2> SUFFICES ASSUME NEW c \in Calls, call'[c].pc = "fill" PROVE FillOK(c)'
    BY DEF FillHasACause
  <2>0. call' = call /\ FillOK(c)
    BY DEF CollectService, Inv, FillHasACause
  <2>1. call[c].name \in Names
    BY DEF Inv, TypeOK
  <2>2. /\ call[c].addr # None
        /\ \/ call[c].addr = svc[call[c].name]
           \/ Cause(call[c].name)
    BY <2>0 DEF FillOK
  <2>3. CASE call[c].name = n
    BY <1>5, <2>0, <2>2, <2>3 DEF FillOK
  <2>4. CASE call[c].name # n
    BY <1>4, <1>6, <2>0, <2>1, <2>2, <2>4 DEF FillOK
  <2> QED
    BY <2>3, <2>4
<1> QED
  BY <1>7, <1>8

\* A Service made again has an address nobody stored for it: what was stored or
\* read before is stale already, and has its cause.
LEMMA CreateKeepsCauses ==
  ASSUME Inv, TypeOK', NEW n \in Names, CreateService(n)
  PROVE  StaleHasACause' /\ FillHasACause'
<1>1. \A m \in Names : m # n => svc'[m] = svc[m]
  BY DEF CreateService, Inv, TypeOK
<1>2. svc[n] = None
  BY DEF CreateService
<1>3. \A m : Cause(m) <=> Cause(m)'
  BY DEF Cause, Pending, CreateService
<1>4. StaleHasACause'
  <2> SUFFICES ASSUME NEW m \in Names, Stale(m)' PROVE Cause(m)'
    BY DEF StaleHasACause, Cause
  <2>1. Stale(m)
    BY <1>1, <1>2 DEF Stale, CreateService
  <2> QED
    BY <1>3, <2>1 DEF Inv, StaleHasACause, Cause
<1>5. FillHasACause'
  <2> SUFFICES ASSUME NEW c \in Calls, call'[c].pc = "fill" PROVE FillOK(c)'
    BY DEF FillHasACause
  <2>0. call' = call /\ FillOK(c)
    BY DEF CreateService, Inv, FillHasACause
  <2>1. call[c].name \in Names
    BY DEF Inv, TypeOK
  <2>2. /\ call[c].addr # None
        /\ \/ call[c].addr = svc[call[c].name]
           \/ Cause(call[c].name)
    BY <2>0 DEF FillOK
  <2> QED
    BY <1>1, <1>2, <1>3, <2>0, <2>1, <2>2 DEF FillOK
<1> QED
  BY <1>4, <1>5

\* A call reads the current address, or stores one with its cause.
LEMMA ResolveKeepsCauses ==
  ASSUME Inv, TypeOK', NEW c \in Calls,
         ResolveHit(c) \/ ResolveMiss(c) \/ ResolveGet(c) \/ ResolveFill(c)
  PROVE  StaleHasACause' /\ FillHasACause'
<1>0. call \in [Calls -> [pc: {"idle", "get", "fill"}, name: Names,
                          addr: Addresses \cup {None}]]
  BY DEF Inv, TypeOK
<1>1. \A m : Cause(m) <=> Cause(m)'
  BY DEF Cause, Pending, ResolveHit, ResolveMiss, ResolveGet, ResolveFill
<1>2. CASE ResolveHit(c)
  <2>1. \A d \in Calls : call'[d].pc = "fill" => call'[d] = call[d]
    BY <1>0, <1>2 DEF ResolveHit
  <2> QED
    BY <1>1, <1>2, <2>1, CausesStay DEF ResolveHit
<1>3. CASE ResolveMiss(c)
  <2>1. \A d \in Calls : call'[d].pc = "fill" => call'[d] = call[d]
    BY <1>0, <1>3 DEF ResolveMiss
  <2> QED
    BY <1>1, <1>3, <2>1, CausesStay DEF ResolveMiss
<1>4. CASE ResolveGet(c) /\ call'[c].pc = "fill"
  <2>1. /\ call'[c].name = call[c].name
        /\ call'[c].addr = svc[call[c].name]
        /\ svc[call[c].name] # None
    BY <1>0, <1>4 DEF ResolveGet
  <2>2. \A d \in Calls : d # c => call'[d] = call[d]
    BY <1>0, <1>4 DEF ResolveGet
  <2>3. FillHasACause'
    <3> SUFFICES ASSUME NEW d \in Calls, call'[d].pc = "fill" PROVE FillOK(d)'
      BY DEF FillHasACause
    <3>1. CASE d = c
      BY <1>4, <2>1, <3>1 DEF ResolveGet, FillOK
    <3>2. CASE d # c
      BY <1>1, <1>4, <2>2, <3>2 DEF ResolveGet, Inv, FillHasACause, FillOK
    <3> QED
      BY <3>1, <3>2
  <2>4. StaleHasACause'
    BY <1>1, <1>4 DEF ResolveGet, Inv, StaleHasACause, Stale, Cause
  <2> QED
    BY <2>3, <2>4
<1>5. CASE ResolveGet(c) /\ call'[c].pc # "fill"
  <2>1. \A d \in Calls : call'[d].pc = "fill" => call'[d] = call[d]
    BY <1>0, <1>5 DEF ResolveGet
  <2> QED
    BY <1>1, <1>5, <2>1, CausesStay DEF ResolveGet
<1>6. CASE ResolveFill(c)
  <2>1. \A d \in Calls : call'[d].pc = "fill" => call'[d] = call[d]
    BY <1>0, <1>6 DEF ResolveFill
  <2>2. FillHasACause'
    <3> SUFFICES ASSUME NEW d \in Calls, call'[d].pc = "fill" PROVE FillOK(d)'
      BY DEF FillHasACause
    <3> QED
      BY <1>1, <1>6, <2>1 DEF ResolveFill, Inv, FillHasACause, FillOK
  <2>3. StaleHasACause'
    <3> SUFFICES ASSUME NEW m \in Names, Stale(m)' PROVE Cause(m)'
      BY DEF StaleHasACause, Cause
    <3>1. CASE m = call[c].name
      <4>1. cache'[m] = call[c].addr
        BY <1>6, <3>1 DEF ResolveFill, Inv, TypeOK
      <4> QED
        BY <1>1, <1>6, <3>1, <4>1 DEF ResolveFill, Inv, FillHasACause, FillOK, Stale
    <3>2. CASE m # call[c].name
      <4>1. cache'[m] = cache[m]
        BY <1>6, <3>2 DEF ResolveFill, Inv, TypeOK
      <4> QED
        BY <1>1, <1>6, <4>1 DEF ResolveFill, Inv, StaleHasACause, Stale, Cause
    <3> QED
      BY <3>1, <3>2
  <2> QED
    BY <2>2, <2>3
<1> QED
  BY <1>2, <1>3, <1>4, <1>5, <1>6

\* An invalidation empties the entry; a call that is about to store there is
\* recorded, and no other name loses a cause.
LEMMA EventKeepsCauses ==
  ASSUME Inv, TypeOK', NEW k \in Kinds, HandleEvent(k)
  PROVE  StaleHasACause' /\ FillHasACause'
<1> DEFINE q == watch[k].q
           n == Head(q)
<1>1. q \in Seq(Names) /\ q # <<>> /\ n \in Names
  BY DEF Inv, TypeOK, Watches, HandleEvent
<1>2. \A m \in Names : m # n /\ Pending(m) => Pending(m)'
  <2> SUFFICES ASSUME NEW m \in Names, m # n, Pending(m) PROVE Pending(m)'
    OBVIOUS
  <2>1. CASE k = "Service"
    <3>1. PICK i \in DOMAIN q : q[i] = m
      BY <2>1 DEF Pending
    <3>2. watch'["Service"].q = Tail(q)
      BY <2>1 DEF HandleEvent, Inv, TypeOK, Watches, Kinds
    <3>3. i \in 1..Len(q) /\ i # 1
      BY <1>1, <3>1
    <3>4. i - 1 \in DOMAIN Tail(q) /\ Tail(q)[i - 1] = m
      <4> HIDE DEF q
      <4>1. Len(Tail(q)) = Len(q) - 1 /\ Tail(q) \in Seq(Names) /\ Len(q) \in Nat
        BY <1>1
      <4>2. i - 1 \in 1..Len(Tail(q))
        BY <3>3, <4>1
      <4> QED
        BY <1>1, <3>1, <3>3, <4>1, <4>2
    <3> QED
      BY <3>2, <3>4 DEF Pending
  <2>2. CASE k # "Service"
    <3>1. watch'["Service"] = watch["Service"]
      BY <2>2 DEF HandleEvent, Inv, TypeOK, Kinds
    <3> QED
      BY <3>1 DEF Pending
  <2> QED
    BY <2>1, <2>2
<1>3. \A m \in Names : m # n /\ Cause(m) => Cause(m)'
  BY <1>2 DEF Cause, HandleEvent
<1>4. cache'[n] = None /\ \A m \in Names : m # n => cache'[m] = cache[m]
  BY <1>1 DEF HandleEvent, Invalidated, Inv, TypeOK
<1>5. StaleHasACause'
  <2> SUFFICES ASSUME NEW m \in Names, Stale(m)' PROVE Cause(m)'
    BY DEF StaleHasACause, Cause
  <2>1. m # n
    BY <1>4 DEF Stale
  <2>2. Stale(m)
    BY <1>4, <2>1 DEF Stale, HandleEvent
  <2> QED
    BY <1>3, <2>1, <2>2 DEF Inv, StaleHasACause, Cause
<1>6. FillHasACause'
  <2> SUFFICES ASSUME NEW c \in Calls, call'[c].pc = "fill" PROVE FillOK(c)'
    BY DEF FillHasACause
  <2>0. call' = call /\ FillOK(c)
    BY DEF HandleEvent, Inv, FillHasACause
  <2>1. call[c].name \in Names
    BY DEF Inv, TypeOK
  <2>2. /\ call[c].addr # None
        /\ \/ call[c].addr = svc[call[c].name]
           \/ Cause(call[c].name)
    BY <2>0 DEF FillOK
  <2>3. CASE call[c].name = n
    <3>1. n \in raced'
      BY <2>0, <2>3 DEF HandleEvent
    <3> QED
      BY <2>0, <2>2, <2>3, <3>1 DEF FillOK, Cause
  <2>4. CASE call[c].name # n
    <3>1. svc' = svc
      BY DEF HandleEvent
    <3> QED
      BY <1>3, <2>0, <2>1, <2>2, <2>4, <3>1 DEF FillOK
  <2> QED
    BY <2>3, <2>4
<1> QED
  BY <1>5, <1>6

\* What a closing watch still had to deliver becomes a missed delete.
LEMMA DropKeepsCauses ==
  ASSUME Inv, TypeOK', NEW k \in Kinds, Drop(k)
  PROVE  StaleHasACause' /\ FillHasACause'
<1>1. \A m \in Names : Pending(m) => Pending(m)' \/ m \in missed'
  <2> SUFFICES ASSUME NEW m \in Names, Pending(m) PROVE Pending(m)' \/ m \in missed'
    OBVIOUS
  <2>1. CASE k = "Service"
    BY <2>1 DEF Pending, Drop, Lost
  <2>2. CASE k # "Service"
    <3>1. watch'["Service"] = watch["Service"]
      BY <2>2 DEF Drop, Inv, TypeOK, Kinds
    <3> QED
      BY <3>1 DEF Pending
  <2> QED
    BY <2>1, <2>2
<1>2. \A m \in Names : Cause(m) => Cause(m)'
  BY <1>1 DEF Cause, Drop
<1> QED
  BY <1>2, CausesStay DEF Drop

\* No step takes the last cause of a stale address away.
LEMMA StepInv ==
  ASSUME Inv, [Next]_vars
  PROVE  Inv'
<1>1. TypeOK'
  BY StepTyped DEF Inv
<1> SUFFICES StaleHasACause' /\ FillHasACause'
  BY <1>1 DEF Inv
<1>2. ASSUME NEW n \in Names, DeleteWorkspace(n)
      PROVE  StaleHasACause' /\ FillHasACause'
  <2>1. \A m \in Names : Pending(m) => Pending(m)'
    BY <1>2, TellingKeepsPending DEF DeleteWorkspace, Inv, Kinds
  <2>2. \A m \in Names : Cause(m) => Cause(m)'
    BY <1>2, <2>1 DEF Cause, DeleteWorkspace
  <2> QED
    BY <1>1, <1>2, <2>2, CausesStay DEF DeleteWorkspace
<1>3. ASSUME NEW k \in Kinds, Sleep(k) \/ Reconnect(k) \/ WatchFails(k)
      PROVE  StaleHasACause' /\ FillHasACause'
  <2>1. watch["Service"].q = watch'["Service"].q
    BY <1>3 DEF Sleep, Reconnect, WatchFails, Inv, TypeOK, Watches, Kinds
  <2>2. \A m \in Names : Cause(m) => Cause(m)'
    BY <1>3, <2>1 DEF Cause, Pending, Sleep, Reconnect, WatchFails
  <2>3. UNCHANGED <<svc, cache, call>>
    BY <1>3 DEF Sleep, Reconnect, WatchFails
  <2> QED
    BY <1>1, <2>2, <2>3, CausesStay
<1>4. CASE UNCHANGED vars
  <2>1. \A m \in Names : Cause(m) => Cause(m)'
    BY <1>4 DEF vars, Cause, Pending
  <2> QED
    BY <1>1, <1>4, <2>1, CausesStay DEF vars
<1> QED
  BY <1>1, <1>2, <1>3, <1>4, CollectIsACause, CreateKeepsCauses, ResolveKeepsCauses,
     EventKeepsCauses, DropKeepsCauses DEF Next

\* With any number of names, addresses and concurrent calls, a cached address is
\* wrong only while its Service's delete is on its way, after it was never sent,
\* or after it met a Resolve between its Get and its store.
THEOREM StaleOnlyForACause == Spec => []StaleHasACause
<1>1. Init => Inv
  <2> SUFFICES ASSUME Init PROVE Inv
    OBVIOUS
  <2>1. StaleHasACause
    BY DEF Init, StaleHasACause, Stale
  <2>2. FillHasACause
    BY DEF Init, FillHasACause
  <2>3. TypeOK
    BY InitTyped
  <2> QED
    BY <2>1, <2>2, <2>3 DEF Inv
<1>2. Inv /\ [Next]_vars => Inv'
  BY StepInv
<1>3. Inv => StaleHasACause
  BY DEF Inv
<1> QED
  BY <1>1, <1>2, <1>3, PTL DEF Spec
=============================================================================
