-------------------------- MODULE RouterFleetProofs --------------------------
(***************************************************************************)
(* Theorems about the router replicas' request path, for any number of     *)
(* users, replicas and concurrent requests and any requests callers send:  *)
(* types, the bound on the overshoot of maxWorkspaces, who is refused, who *)
(* is served, and for whom a Workspace is made.                            *)
(***************************************************************************)
EXTENDS RouterFleet, FiniteSetTheorems, TLAPS

-----------------------------------------------------------------------------
(* The gate.                                                               *)

\* identity.Extract names an identity only when the header has exactly that
\* one value; otherwise it gives a refusal, or something nobody is called.
LEMMA ExtractOnlyValue ==
  ASSUME NEW msg \in Messages, Extract(msg.hdr[IdentityHeader]) \in Identities
  PROVE  msg.hdr[IdentityHeader] = <<Extract(msg.hdr[IdentityHeader])>>
<1> DEFINE values == msg.hdr[IdentityHeader]
<1>1. values \in Seq(Range(values))
  BY MessagesAssumption DEF Headers
<1>2. Refusals \cap Identities = {}
  BY MessagesAssumption
<1>3. values # <<>> /\ ~(Len(values) > 1)
  BY <1>1, <1>2 DEF Extract, Refusals
<1>4. Extract(values) = values[1]
  BY <1>2, <1>3 DEF Extract, Refusals
<1>5. values = <<values[1]>>
  BY <1>1, <1>3
<1> QED
  BY <1>4, <1>5

\* Shared is never taken from a header: it is reserved there.
LEMMA ExtractNotShared ==
  ASSUME NEW msg \in Messages
  PROVE  Extract(msg.hdr[IdentityHeader]) # Shared
<1> DEFINE values == msg.hdr[IdentityHeader]
<1>1. Shared \notin Refusals
  BY MessagesAssumption DEF Identities
<1> QED
  BY <1>1 DEF Extract, Refusals

\* A request that passes the gate was made by the front proxy, as exactly the
\* identity it goes on with.
LEMMA AdmitsAsserts ==
  ASSUME NEW msg \in Messages, NEW secret \in Secrets, Admits(msg, secret)
  PROVE  IdentityOf(msg) \in Identities /\ AssertsOnly(msg, IdentityOf(msg))
<1> DEFINE raw == Extract(msg.hdr[IdentityHeader])
<1>1. /\ secret # Empty /\ msg.hdr[CallerHeader] = <<secret>>
      /\ IdentityOf(msg) \in Identities
  BY DEF Admits, checkCallerAuth
<1>2. \E s \in Secrets \ {Empty} : msg.hdr[CallerHeader] = <<s>>
  BY <1>1
<1>3. CASE raw = "missing" /\ sharedRequest(msg)
  <2>1. IdentityOf(msg) = Shared
    BY <1>3 DEF IdentityOf
  <2>2. msg.hdr[IdentityHeader] = <<>>
    <3> DEFINE values == msg.hdr[IdentityHeader]
    <3>1. SUFFICES ASSUME values # <<>> PROVE FALSE
      OBVIOUS
    <3>2. values \in Seq(Range(values)) /\ "missing" \notin Range(values)
      BY MessagesAssumption DEF Headers
    <3>3. Len(values) >= 1 /\ values[1] \in Range(values)
      BY <3>1, <3>2
    <3> QED
      BY <1>3, <3>1, <3>2, <3>3 DEF Extract
  <2> QED
    BY <1>1, <1>2, <1>3, <2>1, <2>2 DEF AssertsOnly, sharedRequest
<1>4. CASE ~(raw = "missing" /\ sharedRequest(msg))
  <2>1. IdentityOf(msg) = raw
    BY <1>4 DEF IdentityOf
  <2>2. raw # Shared /\ msg.hdr[IdentityHeader] = <<raw>>
    BY <1>1, <2>1, ExtractOnlyValue, ExtractNotShared
  <2> QED
    BY <1>1, <1>2, <2>1, <2>2 DEF AssertsOnly
<1> QED
  BY <1>3, <1>4

-----------------------------------------------------------------------------
(* Types.                                                                  *)

\* The steps of a request that passed the gate, before it is forwarded.
Asking == {"get", "list", "create", "reget", "enqueue", "served"}

\* Such a request carries what its caller sent, and its caller asserted its user.
GateInv ==
  \A q \in Requests : req[q].pc \in Asking =>
    /\ req[q].msg \in Messages
    /\ req[q].user \in Identities
    /\ AssertsOnly(req[q].msg, req[q].user)

\* The empty handler, and one that took a request.
LEMMA HandlersTyped ==
  /\ NoRequest \in Handlers
  /\ [NoRequest EXCEPT !.pc = "rejected"] \in Handlers
  /\ \A msg \in Messages, u \in Identities, n \in Limits, b \in BOOLEAN :
       [pc |-> "get", msg |-> msg, user |-> u, limit |-> n, had |-> b] \in Handlers
BY DEF NoRequest, Handlers

\* Moving a handler on keeps everything else of it.
LEMMA GotoTyped ==
  ASSUME TypeOK, NEW q \in Requests, NEW pc, Goto(q, pc),
         pc \in {"list", "create", "reget", "enqueue", "served", "refused", "failed"}
  PROVE  req' \in [Requests -> Handlers]
BY DEF TypeOK, Goto, Handlers

\* Every step of every handler, and what happens around them, keeps the types.
LEMMA StepTyped == TypeOK /\ GateInv /\ [Next]_vars => TypeOK'
<1> SUFFICES ASSUME TypeOK, GateInv, [Next]_vars
             PROVE  TypeOK'
  OBVIOUS
<1>1. ASSUME NEW q \in Requests, NEW r \in Replicas, NEW msg \in Messages,
             Arrive(q, r, msg)
      PROVE  TypeOK'
  <2>1. cfg[r] \in Configs
    BY DEF TypeOK
  <2>2. CASE Admits(msg, cfg[r].secret)
    <3> DEFINE h == [pc |-> "get", msg |-> msg, user |-> IdentityOf(msg),
                     limit |-> cfg[r].limit, had |-> IdentityOf(msg) \in Present]
    <3>1. h \in Handlers
      <4>1. (IdentityOf(msg) \in Present) \in BOOLEAN
        OBVIOUS
      <4>2. IdentityOf(msg) \in Identities /\ cfg[r].limit \in Limits
        BY <2>1, <2>2 DEF Admits, Configs
      <4> QED
        BY <4>1, <4>2, HandlersTyped, Zenon
    <3>2. req' = [req EXCEPT ![q] = h]
      BY <1>1, <2>2 DEF Arrive
    <3> QED
      BY <1>1, <3>1, <3>2 DEF TypeOK, Arrive
  <2>3. CASE ~Admits(msg, cfg[r].secret)
    BY <1>1, <2>3, HandlersTyped DEF TypeOK, Arrive
  <2> QED
    BY <2>2, <2>3
<1>2. ASSUME NEW q \in Requests, Get(q) \/ List(q) \/ Reget(q) \/ Abort(q)
      PROVE  TypeOK'
  <2>1. req' \in [Requests -> Handlers]
    BY <1>2, GotoTyped DEF Get, List, Reget, Abort, AfterRead
  <2> QED
    BY <1>2, <2>1 DEF TypeOK, Get, List, Reget, Abort
<1>3. ASSUME NEW q \in Requests, Create(q) \/ EnsureEnqueuedAt(q)
      PROVE  TypeOK'
  <2>1. req' \in [Requests -> Handlers]
    BY <1>3, GotoTyped DEF Create, EnsureEnqueuedAt
  <2>2. fleet' \in [Identities -> {"absent", "new", "enqueued"}]
    BY <1>3 DEF TypeOK, Create, EnsureEnqueuedAt, Present
  <2> QED
    BY <1>3, <2>1, <2>2 DEF TypeOK, Create, EnsureEnqueuedAt
<1>4. ASSUME NEW q \in Requests, Proxy(q)
      PROVE  TypeOK'
  <2> DEFINE msg == [req[q].msg EXCEPT !.hdr = applyHeaderPolicy(@)]
             h   == [req[q] EXCEPT !.pc = "proxied", !.msg = msg]
  <2>1. req[q].msg \in Messages /\ req[q] \in Handlers
    BY <1>4 DEF TypeOK, GateInv, Asking, Proxy
  <2>2. msg \in {[m EXCEPT !.hdr = applyHeaderPolicy(@)] : m \in Messages}
    BY <2>1
  <2>3. h \in Handlers
    <3> HIDE DEF msg
    <3> QED
      BY <2>1, <2>2 DEF Handlers
  <2>4. req' = [req EXCEPT ![q] = h]
    BY <1>4, <2>1 DEF TypeOK, Proxy, Handlers
  <2> QED
    BY <1>4, <2>3, <2>4 DEF TypeOK, Proxy
<1>5. ASSUME NEW q \in Requests, End(q)
      PROVE  TypeOK'
  BY <1>5, HandlersTyped DEF TypeOK, End
<1>6. ASSUME NEW u \in Identities, Delete(u)
      PROVE  TypeOK'
  <2>1. \A q \in Requests : [req[q] EXCEPT !.had = @ /\ req[q].user # u] \in Handlers
    BY DEF TypeOK, Handlers
  <2> QED
    BY <1>6, <2>1, RouterFleetAssumption DEF TypeOK, Delete
<1>7. ASSUME NEW c \in Configs, Edit(c)
      PROVE  TypeOK'
  BY <1>7, RouterFleetAssumption DEF TypeOK, Edit
<1>8. ASSUME NEW r \in Replicas, RollOut(r)
      PROVE  TypeOK'
  BY <1>8 DEF TypeOK, RollOut, Configs
<1>9. CASE UNCHANGED vars
  BY <1>9 DEF TypeOK, vars
<1> QED
  BY <1>1, <1>2, <1>3, <1>4, <1>5, <1>6, <1>7, <1>8, <1>9 DEF Next

-----------------------------------------------------------------------------
(* What the inductive invariant adds, and that it is one.                  *)

\* The calls of ensureWorkspace, and giving up.
Calls(q) == Get(q) \/ List(q) \/ Create(q) \/ Reget(q) \/ EnsureEnqueuedAt(q) \/ Abort(q)

\* Each moves one handler on from a step after the gate, and nothing else of it.
LEMMA CallsMoveOn ==
  ASSUME TypeOK, NEW q \in Requests, Calls(q)
  PROVE  /\ req[q].pc \in Asking
         /\ \A p \in Requests \ {q} : req'[p] = req[p]
         /\ req'[q].msg = req[q].msg /\ req'[q].user = req[q].user
         /\ req'[q].limit = req[q].limit /\ req'[q].had = req[q].had
         /\ UNCHANGED <<deployed, cfg, top, edits, deletes>>
<1>1. \E pc : Goto(q, pc)
  BY DEF Calls, Get, List, Create, Reget, EnsureEnqueuedAt, Abort, AfterRead
<1>2. req[q].pc \in Asking /\ UNCHANGED <<deployed, cfg, top, edits, deletes>>
  BY DEF Calls, Get, List, Create, Reget, EnsureEnqueuedAt, Abort, Asking
<1> QED
  BY <1>1, <1>2 DEF TypeOK, Goto, Handlers

\* The gate holds for every request that is past it, whatever the Secrets are by
\* then.
LEMMA StepGate == TypeOK /\ GateInv /\ [Next]_vars => GateInv'
<1> SUFFICES ASSUME TypeOK, GateInv, [Next]_vars
             PROVE  GateInv'
  OBVIOUS
<1>1. ASSUME NEW q \in Requests, NEW r \in Replicas, NEW msg \in Messages,
             Arrive(q, r, msg)
      PROVE  GateInv'
  <2>1. cfg[r].secret \in Secrets
    BY DEF TypeOK, Configs
  <2>2. \A p \in Requests \ {q} : req'[p] = req[p]
    BY <1>1 DEF TypeOK, Arrive
  <2>3. CASE Admits(msg, cfg[r].secret)
    <3>1. req'[q].msg = msg /\ req'[q].user = IdentityOf(msg)
      BY <1>1, <2>3 DEF TypeOK, Arrive
    <3>2. IdentityOf(msg) \in Identities /\ AssertsOnly(msg, IdentityOf(msg))
      BY <2>1, <2>3, AdmitsAsserts
    <3> QED
      BY <2>2, <3>1, <3>2 DEF GateInv, AssertsOnly
  <2>4. CASE ~Admits(msg, cfg[r].secret)
    <3>1. req'[q].pc = "rejected"
      BY <1>1, <2>4 DEF TypeOK, Arrive, NoRequest
    <3> QED
      BY <2>2, <3>1 DEF GateInv, Asking, AssertsOnly
  <2> QED
    BY <2>3, <2>4
<1>2. ASSUME NEW q \in Requests, Calls(q)
      PROVE  GateInv'
  BY <1>2, CallsMoveOn DEF GateInv, AssertsOnly
<1>3. ASSUME NEW q \in Requests, Proxy(q) \/ End(q)
      PROVE  GateInv'
  <2>1. req'[q].pc \notin Asking /\ \A p \in Requests \ {q} : req'[p] = req[p]
    BY <1>3 DEF TypeOK, Proxy, End, NoRequest, Asking, Handlers
  <2> QED
    BY <2>1 DEF GateInv, AssertsOnly
<1>4. ASSUME NEW u \in Identities, Delete(u)
      PROVE  GateInv'
  <2>1. \A q \in Requests :
          /\ req'[q].pc = req[q].pc /\ req'[q].msg = req[q].msg
          /\ req'[q].user = req[q].user
    BY <1>4 DEF TypeOK, Delete, Handlers
  <2> QED
    BY <2>1 DEF GateInv, AssertsOnly
<1>5. CASE UNCHANGED req
  BY <1>5 DEF GateInv, AssertsOnly
<1> QED
  BY <1>1, <1>2, <1>3, <1>4, <1>5 DEF Next, Calls, Edit, RollOut, vars

\* No replica, and no request it took, has a limit above the largest there was,
\* and a request past the gate has one.
LimitInv ==
  /\ \A r \in Replicas : cfg[r].limit <= top
  /\ \A q \in Requests :
       req[q].limit <= top /\ (req[q].pc \in Asking => req[q].limit # 0)

\* A replica takes over what is deployed only together with the largest limit.
LEMMA StepLimit == TypeOK /\ LimitInv /\ [Next]_vars => LimitInv'
<1> SUFFICES ASSUME TypeOK, LimitInv, [Next]_vars
             PROVE  LimitInv'
  OBVIOUS
<1> USE RouterFleetAssumption
<1>1. ASSUME NEW q \in Requests, NEW r \in Replicas, NEW msg \in Messages,
             Arrive(q, r, msg)
      PROVE  LimitInv'
  <2>1. /\ \A p \in Requests \ {q} : req'[p] = req[p]
        /\ \/ req'[q].limit = cfg[r].limit
           \/ req'[q].limit = 0 /\ req'[q].pc \notin Asking
    BY <1>1 DEF TypeOK, Arrive, NoRequest, Asking
  <2>2. top' = top /\ cfg' = cfg /\ 0 <= top /\ cfg[r].limit # 0
    BY <1>1 DEF TypeOK, Arrive, Configs
  <2> QED
    BY <2>1, <2>2 DEF LimitInv
<1>2. ASSUME NEW q \in Requests, Calls(q)
      PROVE  LimitInv'
  BY <1>2, CallsMoveOn DEF LimitInv
<1>3. ASSUME NEW q \in Requests, Proxy(q) \/ End(q)
      PROVE  LimitInv'
  <2>1. /\ req'[q].limit \in {req[q].limit, 0} /\ req'[q].pc \notin Asking
        /\ \A p \in Requests \ {q} : req'[p] = req[p]
    BY <1>3 DEF TypeOK, Proxy, End, NoRequest, Handlers, Asking
  <2>2. top' = top /\ cfg' = cfg /\ 0 <= top
    BY <1>3 DEF TypeOK, Proxy, End
  <2> QED
    BY <2>1, <2>2 DEF LimitInv
<1>4. ASSUME NEW u \in Identities, Delete(u)
      PROVE  LimitInv'
  <2>1. \A q \in Requests : req'[q].limit = req[q].limit /\ req'[q].pc = req[q].pc
    BY <1>4 DEF TypeOK, Delete, Handlers
  <2> QED
    BY <1>4, <2>1 DEF LimitInv, Delete
<1>5. ASSUME NEW r \in Replicas, RollOut(r)
      PROVE  LimitInv'
  <2>1. top \in Nat /\ deployed.limit \in Nat /\ \A p \in Replicas : cfg[p].limit \in Nat
    BY DEF TypeOK, Configs
  <2>2. \A q \in Requests : req[q].limit \in Nat
    BY DEF TypeOK, Handlers
  <2>3. top' \in Nat /\ top' >= top /\ top' >= deployed.limit
    BY <1>5, <2>1 DEF RollOut
  <2>4. \A p \in Replicas : cfg'[p] = IF p = r THEN deployed ELSE cfg[p]
    BY <1>5 DEF RollOut, TypeOK
  <2>5. \A p \in Replicas : cfg'[p].limit <= top'
    BY <2>1, <2>3, <2>4 DEF LimitInv
  <2>6. \A q \in Requests :
          req'[q].limit <= top' /\ (req'[q].pc \in Asking => req'[q].limit # 0)
    BY <1>5, <2>1, <2>2, <2>3 DEF LimitInv, RollOut
  <2> QED
    BY <2>5, <2>6 DEF LimitInv
<1>6. CASE UNCHANGED <<req, cfg, top>>
  BY <1>6 DEF LimitInv
<1> QED
  BY <1>1, <1>2, <1>3, <1>4, <1>5, <1>6 DEF Next, Calls, Edit, vars

\* `had` is kept only while the user's Workspace is there, and a request that came
\* as far as the limit had none.
HadInv ==
  \A q \in Requests :
    /\ req[q].had => req[q].user \in Present
    /\ req[q].pc \in {"list", "refused"} => ~req[q].had

\* Only Delete takes a Workspace away, and it forgets `had` for its user.
LEMMA StepHad == TypeOK /\ HadInv /\ [Next]_vars => HadInv'
<1> SUFFICES ASSUME TypeOK, HadInv, [Next]_vars
             PROVE  HadInv'
  OBVIOUS
<1>1. ASSUME NEW q \in Requests, NEW r \in Replicas, NEW msg \in Messages,
             Arrive(q, r, msg)
      PROVE  HadInv'
  <2>1. \A p \in Requests \ {q} : req'[p] = req[p]
    BY <1>1 DEF TypeOK, Arrive
  <2>2. /\ req'[q].pc \in {"get", "rejected"}
        /\ req'[q].had => req'[q].user \in Present
    BY <1>1 DEF TypeOK, Arrive, NoRequest
  <2>3. Present' = Present
    BY <1>1 DEF Arrive, Present
  <2> QED
    BY <2>1, <2>2, <2>3 DEF HadInv
<1>2. ASSUME NEW q \in Requests, Calls(q)
      PROVE  HadInv'
  <2>1. Present \subseteq Present'
    BY <1>2 DEF TypeOK, Present, Calls, Get, List, Create, Reget, EnsureEnqueuedAt, Abort
  <2>2. req'[q].pc = "list" => req[q].user \notin Present
    BY <1>2 DEF TypeOK, Calls, Get, List, Create, Reget, EnsureEnqueuedAt, Abort,
                AfterRead, Goto, Handlers
  <2>3. req'[q].pc = "refused" => req[q].pc = "list"
    BY <1>2 DEF TypeOK, Calls, Get, List, Create, Reget, EnsureEnqueuedAt, Abort,
                AfterRead, Goto, Handlers
  <2> QED
    BY <1>2, <2>1, <2>2, <2>3, CallsMoveOn DEF HadInv
<1>3. ASSUME NEW q \in Requests, Proxy(q) \/ End(q)
      PROVE  HadInv'
  <2>1. /\ \A p \in Requests \ {q} : req'[p] = req[p]
        /\ req'[q].pc \in {"proxied", "idle"}
        /\ req'[q].had => req[q].had /\ req'[q].user = req[q].user
    BY <1>3 DEF TypeOK, Proxy, End, NoRequest, Handlers
  <2>2. Present' = Present
    BY <1>3 DEF Proxy, End, Present
  <2> QED
    BY <2>1, <2>2 DEF HadInv
<1>4. ASSUME NEW u \in Identities, Delete(u)
      PROVE  HadInv'
  <2>1. \A q \in Requests :
          /\ req'[q].pc = req[q].pc /\ req'[q].user = req[q].user
          /\ req'[q].had => req[q].had /\ req[q].user # u
    BY <1>4 DEF TypeOK, Delete, Handlers
  <2>2. Present' = Present \ {u}
    BY <1>4 DEF TypeOK, Delete, Present
  <2> QED
    BY <2>1, <2>2 DEF HadInv
<1>5. CASE UNCHANGED <<req, fleet>>
  BY <1>5 DEF HadInv, Present
<1> QED
  BY <1>1, <1>2, <1>3, <1>4, <1>5 DEF Next, Calls, Edit, RollOut, vars

-----------------------------------------------------------------------------
(* The overshoot.                                                          *)

\* The fleet is finite, if the identities are not.
FleetInv == IsFiniteSet(Present) /\ OvershootBounded

\* The numbers in the bound are natural numbers.
LEMMA CountsBounded ==
  ASSUME TypeOK, LimitInv, IsFiniteSet(Present)
  PROVE  /\ Cardinality(Present) \in Nat /\ Cardinality(Requests) \in Nat
         /\ Cardinality(Creating) \in Nat /\ top \in Nat /\ IsFiniteSet(Creating)
BY FS_CardinalityType, FS_Subset, RouterFleetAssumption DEF TypeOK, Creating

\* A List that counts fewer Workspaces than the largest limit sends one more
\* request on its way, of at most all there are; a Create uses its request up.
LEMMA StepFleet == TypeOK /\ LimitInv /\ FleetInv /\ [Next]_vars => FleetInv'
<1> SUFFICES ASSUME TypeOK, LimitInv, FleetInv, [Next]_vars
             PROVE  FleetInv'
  OBVIOUS
<1>1. /\ Cardinality(Present) \in Nat /\ Cardinality(Requests) \in Nat
      /\ Cardinality(Creating) \in Nat /\ top \in Nat
      /\ IsFiniteSet(Present) /\ IsFiniteSet(Creating) /\ IsFiniteSet(Requests)
  BY CountsBounded, RouterFleetAssumption DEF FleetInv
<1>2. ASSUME Present' = Present, Creating' \subseteq Creating, top' \in Nat, top' >= top
      PROVE  FleetInv'
  <2>1. Cardinality(Creating') <= Cardinality(Creating) /\ Cardinality(Creating') \in Nat
    BY <1>1, <1>2, FS_Subset, FS_CardinalityType
  <2> QED
    BY <1>1, <1>2, <2>1 DEF FleetInv, OvershootBounded
<1>3. ASSUME NEW q \in Requests, NEW r \in Replicas, NEW msg \in Messages,
             Arrive(q, r, msg)
      PROVE  FleetInv'
  <2>1. req'[q].pc \in {"get", "rejected"} /\ \A p \in Requests \ {q} : req'[p] = req[p]
    BY <1>3 DEF TypeOK, Arrive, NoRequest
  <2>2. Creating' \subseteq Creating
    BY <2>1 DEF Creating
  <2> QED
    BY <1>1, <1>2, <1>3, <2>2 DEF Arrive, Present
<1>4. ASSUME NEW q \in Requests, Get(q) \/ Reget(q) \/ EnsureEnqueuedAt(q) \/ Abort(q)
      PROVE  FleetInv'
  <2>1. Calls(q)
    BY <1>4 DEF Calls
  <2>2. req'[q].pc # "create"
    BY <1>4 DEF TypeOK, Get, Reget, EnsureEnqueuedAt, Abort, AfterRead, Goto, Handlers
  <2>3. Creating' \subseteq Creating /\ top' = top
    BY <2>1, <2>2, CallsMoveOn DEF Creating
  <2>4. Present' = Present
    BY <1>4 DEF TypeOK, Present, Get, Reget, EnsureEnqueuedAt, Abort
  <2> QED
    BY <1>1, <1>2, <2>3, <2>4
<1>5. ASSUME NEW q \in Requests, List(q)
      PROVE  FleetInv'
  <2>1. /\ Present' = Present /\ top' = top
        /\ \A p \in Requests \ {q} : req'[p] = req[p]
        /\ req[q].pc = "list"
    BY <1>5, CallsMoveOn DEF Calls, List, Present
  <2>2. CASE req'[q].pc # "create"
    <3>1. Creating' \subseteq Creating
      BY <2>1, <2>2 DEF Creating
    <3> QED
      BY <1>1, <1>2, <2>1, <3>1
  <2>3. CASE req'[q].pc = "create"
    <3>1. Cardinality(Present) < top
      <4>1. ~(req[q].limit > 0 /\ Cardinality(Present) >= req[q].limit)
        BY <1>5, <2>3 DEF TypeOK, List, Goto, Handlers
      <4>2. req[q].limit \in Nat \ {0} /\ req[q].limit <= top
        BY <2>1, RouterFleetAssumption DEF TypeOK, Handlers, LimitInv, Asking
      <4> QED
        BY <1>1, <4>1, <4>2
    <3>2. Creating' = Creating \cup {q} /\ Creating' \in SUBSET Requests /\ q \notin Creating
      BY <2>1, <2>3 DEF Creating
    <3>3. Cardinality(Creating') = Cardinality(Creating) + 1
      BY <1>1, <3>2, FS_AddElement
    <3>4. Cardinality(Creating') <= Cardinality(Requests)
      BY <1>1, <3>2, FS_Subset
    <3> QED
      BY <1>1, <2>1, <3>1, <3>3, <3>4 DEF FleetInv, OvershootBounded
  <2> QED
    BY <2>2, <2>3
<1>6. ASSUME NEW q \in Requests, Create(q)
      PROVE  FleetInv'
  <2>1. /\ top' = top /\ req[q].pc = "create" /\ req'[q].pc # "create"
        /\ \A p \in Requests \ {q} : req'[p] = req[p]
    <3>1. req[q].pc = "create" /\ req'[q].pc # "create"
      BY <1>6 DEF TypeOK, Create, Goto, Handlers
    <3> QED
      BY <1>6, <3>1, CallsMoveOn DEF Calls
  <2>2. Creating' = Creating \ {q} /\ q \in Creating
    BY <2>1 DEF Creating
  <2>3. Cardinality(Creating') = Cardinality(Creating) - 1
    BY <1>1, <2>2, FS_RemoveElement
  <2>4. \/ Present' = Present
        \/ Present' = Present \cup {req[q].user} /\ req[q].user \notin Present
    BY <1>6 DEF TypeOK, Create, Present, Handlers
  <2>5. IsFiniteSet(Present') /\ Cardinality(Present') <= Cardinality(Present) + 1
    BY <1>1, <2>4, FS_AddElement
  <2>6. Cardinality(Present') \in Nat
    BY <2>5, FS_CardinalityType
  <2> QED
    BY <1>1, <2>1, <2>3, <2>5, <2>6 DEF FleetInv, OvershootBounded
<1>7. ASSUME NEW q \in Requests, Proxy(q) \/ End(q)
      PROVE  FleetInv'
  <2>1. req'[q].pc # "create" /\ \A p \in Requests \ {q} : req'[p] = req[p]
    BY <1>7 DEF TypeOK, Proxy, End, NoRequest, Handlers
  <2>2. Creating' \subseteq Creating
    BY <2>1 DEF Creating
  <2> QED
    BY <1>1, <1>2, <1>7, <2>2 DEF Proxy, End, Present
<1>8. ASSUME NEW u \in Identities, Delete(u)
      PROVE  FleetInv'
  <2>1. \A q \in Requests : req'[q].pc = req[q].pc
    BY <1>8 DEF TypeOK, Delete, Handlers
  <2>2. Present' = Present \ {u} /\ u \in Present
    BY <1>8 DEF TypeOK, Delete, Present
  <2>3. IsFiniteSet(Present') /\ Cardinality(Present') = Cardinality(Present) - 1
    BY <1>1, <2>2, FS_RemoveElement
  <2>4. Creating' = Creating /\ top' = top
    BY <1>8, <2>1 DEF Creating, Delete
  <2> QED
    BY <1>1, <2>3, <2>4 DEF FleetInv, OvershootBounded
<1>9. ASSUME NEW r \in Replicas, RollOut(r)
      PROVE  FleetInv'
  <2>1. deployed.limit \in Nat
    BY RouterFleetAssumption DEF TypeOK, Configs
  <2>2. top' \in Nat /\ top' >= top
    BY <1>1, <1>9, <2>1 DEF RollOut
  <2> QED
    BY <1>2, <1>9, <2>2 DEF RollOut, Present, Creating
<1>10. CASE UNCHANGED <<req, fleet, top>>
  BY <1>1, <1>2, <1>10 DEF Present, Creating
<1> QED
  BY <1>3, <1>4, <1>5, <1>6, <1>7, <1>8, <1>9, <1>10 DEF Next, Edit, vars

-----------------------------------------------------------------------------
(* The theorems.                                                           *)

\* The parts need each other: types need the gate, the bound needs the limits.
FleetInduction == TypeOK /\ GateInv /\ LimitInv /\ HadInv /\ FleetInv

\* It holds at the start and every step keeps it.
LEMMA FleetInductive == Spec => []FleetInduction
<1>1. Init => FleetInduction
  <2> SUFFICES ASSUME Init PROVE FleetInduction
    OBVIOUS
  <2> USE RouterFleetAssumption
  <2>1. Present = {} /\ Creating = {}
    BY DEF Init, Present, Creating, NoRequest
  <2>2. \A q \in Requests : req[q] = NoRequest
    BY DEF Init
  <2>3. TypeOK
    BY HandlersTyped DEF Init, TypeOK, Configs
  <2>4. GateInv /\ HadInv
    BY <2>2 DEF GateInv, HadInv, NoRequest, Asking
  <2>5. top \in Nat /\ top >= 1
    BY DEF Init, Configs
  <2>6. LimitInv
    BY <2>2, <2>5 DEF Init, LimitInv, NoRequest, Configs, Asking
  <2>7. FleetInv
    <3>1. Cardinality(Requests) \in Nat
      BY FS_CardinalityType
    <3> QED
      BY <2>1, <2>5, <3>1, FS_EmptySet DEF FleetInv, OvershootBounded
  <2> QED
    BY <2>3, <2>4, <2>6, <2>7 DEF FleetInduction
<1>2. FleetInduction /\ [Next]_vars => FleetInduction'
  BY StepTyped, StepGate, StepLimit, StepHad, StepFleet DEF FleetInduction
<1> QED
  BY <1>1, <1>2, PTL DEF Spec

\* Every reachable state of the request path is well typed.
THEOREM FleetTypes == Spec => []TypeOK
<1>1. FleetInduction => TypeOK
  BY DEF FleetInduction
<1> QED
  BY <1>1, FleetInductive, PTL

\* ensureWorkspace tests maxWorkspaces on a List and creates afterwards, on every
\* replica for itself: however many replicas and users there are, and however the
\* limit is edited and rolled out, the fleet stays within the largest limit a
\* replica ran with plus the other requests in flight.
THEOREM OvershootIsBounded == Spec => []OvershootBounded
<1>1. FleetInduction => OvershootBounded
  BY DEF FleetInduction, FleetInv
<1> QED
  BY <1>1, FleetInductive, PTL

\* A user whose Workspace was there all along is not refused for the limit.
THEOREM ExistingServed == Spec => []ExistingNotRefused
<1>1. FleetInduction => ExistingNotRefused
  BY DEF FleetInduction, HadInv, ExistingNotRefused
<1> QED
  BY <1>1, FleetInductive, PTL

\* A request goes on to its Workspace only once that carries enqueuedAt.
THEOREM ServedEnqueued == Spec => ServedIsEnqueued
<1>1. TypeOK /\ [Next]_vars =>
        [\A q \in Requests : req[q].pc # "served" /\ req'[q].pc = "served"
           => fleet'[req[q].user] = "enqueued"]_vars
  <2> SUFFICES ASSUME TypeOK, Next, NEW p \in Requests,
                      req[p].pc # "served", req'[p].pc = "served"
               PROVE  fleet'[req[p].user] = "enqueued"
    OBVIOUS
  <2>1. ASSUME NEW q \in Requests, NEW r \in Replicas, NEW msg \in Messages,
               Arrive(q, r, msg)
        PROVE  FALSE
    BY <2>1 DEF TypeOK, Arrive, NoRequest
  <2>2. ASSUME NEW q \in Requests, Calls(q)
        PROVE  fleet'[req[p].user] = "enqueued"
    <3>1. p = q
      BY <2>2, CallsMoveOn
    <3> QED
      BY <2>2, <3>1 DEF TypeOK, Calls, Get, List, Create, Reget, EnsureEnqueuedAt, Abort,
                        AfterRead, Goto, Handlers, Present
  <2>3. ASSUME NEW q \in Requests, Proxy(q) \/ End(q)
        PROVE  FALSE
    BY <2>3 DEF TypeOK, Proxy, End, NoRequest, Handlers
  <2>4. ASSUME NEW u \in Identities, Delete(u)
        PROVE  FALSE
    BY <2>4 DEF TypeOK, Delete, Handlers
  <2>5. ASSUME UNCHANGED req
        PROVE  FALSE
    BY <2>5
  <2> QED
    BY <2>1, <2>2, <2>3, <2>4, <2>5 DEF Next, Calls, Edit, RollOut
<1>2. FleetInduction => TypeOK
  BY DEF FleetInduction
<1> QED
  BY <1>1, <1>2, FleetInductive, PTL DEF Spec, ServedIsEnqueued

\* A Workspace is made only by a request that the front proxy authenticated and
\* made as that very user, or as nobody for a shared read, whichever Secret was
\* mounted meanwhile.
THEOREM MadeForItsUser == Spec => OnlyForItsUser
<1>1. TypeOK /\ GateInv /\ [Next]_vars =>
        [\A u \in Identities : fleet[u] = "absent" /\ fleet'[u] # "absent"
           => \E q \in Requests : req[q].user = u /\ AssertsOnly(req[q].msg, u)]_vars
  <2> SUFFICES ASSUME TypeOK, GateInv, Next, NEW u \in Identities,
                      fleet[u] = "absent", fleet'[u] # "absent"
               PROVE  \E q \in Requests : req[q].user = u /\ AssertsOnly(req[q].msg, u)
    OBVIOUS
  <2>1. ASSUME NEW q \in Requests, Create(q) \/ EnsureEnqueuedAt(q)
        PROVE  req[q].user = u /\ AssertsOnly(req[q].msg, u)
    <3>1. req[q].user = u /\ req[q].pc \in Asking
      BY <2>1 DEF TypeOK, Create, EnsureEnqueuedAt, Present, Asking
    <3> QED
      BY <3>1 DEF GateInv
  <2>2. ASSUME NEW v \in Identities, Delete(v)
        PROVE  FALSE
    BY <2>2 DEF TypeOK, Delete
  <2>3. ASSUME UNCHANGED fleet
        PROVE  FALSE
    BY <2>3
  <2> QED
    BY <2>1, <2>2, <2>3
    DEF Next, Arrive, Get, List, Reget, Proxy, Abort, End, Edit, RollOut
<1>2. FleetInduction => TypeOK /\ GateInv
  BY DEF FleetInduction
<1> QED
  BY <1>1, <1>2, FleetInductive, PTL DEF Spec, OnlyForItsUser

-----------------------------------------------------------------------------
(* The forwarded headers.                                                  *)

\* What is forwarded is a caller's message after applyHeaderPolicy.
ForwardedInv ==
  \A q \in Requests : req[q].pc = "proxied" =>
    \E msg \in Messages : req[q].msg.hdr = applyHeaderPolicy(msg.hdr)

\* Only Proxy forwards, and only a request that carries what its caller sent.
LEMMA StepForwarded ==
  TypeOK /\ GateInv /\ ForwardedInv /\ [Next]_vars => ForwardedInv'
<1> SUFFICES ASSUME TypeOK, GateInv, ForwardedInv, [Next]_vars,
                    NEW p \in Requests, req'[p].pc = "proxied"
             PROVE  \E msg \in Messages : req'[p].msg.hdr = applyHeaderPolicy(msg.hdr)
  BY DEF ForwardedInv, applyHeaderPolicy
<1>1. ASSUME req'[p].pc = req[p].pc, req'[p].msg = req[p].msg
      PROVE  \E msg \in Messages : req'[p].msg.hdr = applyHeaderPolicy(msg.hdr)
  BY <1>1 DEF ForwardedInv
<1>2. ASSUME NEW q \in Requests, NEW r \in Replicas, NEW msg \in Messages,
             Arrive(q, r, msg)
      PROVE  req'[p] = req[p]
  BY <1>2 DEF TypeOK, Arrive, NoRequest
<1>3. ASSUME NEW q \in Requests, Calls(q)
      PROVE  req'[p] = req[p]
  <2>1. CASE p # q
    BY <1>3, <2>1 DEF TypeOK, Calls, Get, List, Create, Reget, EnsureEnqueuedAt, Abort,
                      AfterRead, Goto
  <2>2. CASE p = q
    BY <1>3, <2>2 DEF TypeOK, Calls, Get, List, Create, Reget, EnsureEnqueuedAt, Abort,
                      AfterRead, Goto, Handlers
  <2> QED
    BY <2>1, <2>2
<1>4. ASSUME NEW q \in Requests, Proxy(q), p = q
      PROVE  \E msg \in Messages : req'[p].msg.hdr = applyHeaderPolicy(msg.hdr)
  <2>1. req[p].msg \in Messages
    BY <1>4 DEF Proxy, GateInv, Asking
  <2>2. req[p].msg = [hdr |-> req[p].msg.hdr, read |-> req[p].msg.read,
                      listed |-> req[p].msg.listed]
    BY <2>1, MessagesAssumption
  <2>3. req'[p].msg = [req[p].msg EXCEPT !.hdr = applyHeaderPolicy(@)]
    BY <1>4 DEF TypeOK, Proxy, Handlers
  <2>4. req'[p].msg.hdr = applyHeaderPolicy(req[p].msg.hdr)
    BY <2>2, <2>3
  <2> QED
    BY <2>1, <2>4
<1>5. ASSUME NEW q \in Requests, Proxy(q), p # q
      PROVE  req'[p] = req[p]
  BY <1>5 DEF TypeOK, Proxy
<1>6. ASSUME NEW q \in Requests, End(q)
      PROVE  req'[p] = req[p]
  BY <1>6 DEF TypeOK, End, NoRequest
<1>7. ASSUME NEW u \in Identities, Delete(u)
      PROVE  req'[p].pc = req[p].pc /\ req'[p].msg = req[p].msg
  BY <1>7 DEF TypeOK, Delete, Handlers
<1>8. ASSUME UNCHANGED req
      PROVE  req'[p] = req[p]
  BY <1>8
<1> QED
  BY <1>1, <1>2, <1>3, <1>4, <1>5, <1>6, <1>7, <1>8 DEF Next, Calls, Edit, RollOut, vars

\* Traces of the caller's session: an identity, a caller credential, a cookie.
Traces == Identities \cup Secrets \cup {"session"}

\* The caller's session travels under the headers meant for it: whatever header
\* the policy leaves alone carries no trace of it.  No configured header is the
\* one that asks for an upgrade, which every message does, and the upstream
\* credential is neither a caller's nor an identity.
SessionHeaders ==
  /\ "Upgrade" \notin {CallerHeader, IdentityHeader, UpstreamHeader}
  /\ UpstreamSecret \notin Traces
  /\ \A msg \in Messages :
       /\ msg.hdr["Upgrade"] = <<"websocket">>
       /\ \A h \in Headers \ {CallerHeader, IdentityHeader, "Cookie", "Authorization"} :
            (h = UpstreamHeader /\ UpstreamSecret # Empty)
              \/ Range(msg.hdr[h]) \cap Traces = {}

\* applyHeaderPolicy leaves no trace of the session, sets the upstream credential
\* whichever header it shares, and keeps the upgrade.
LEMMA PolicyIsClean ==
  ASSUME SessionHeaders, NEW msg \in Messages
  PROVE  LET hdr == applyHeaderPolicy(msg.hdr) IN
         /\ \A h \in Headers : Range(hdr[h]) \cap Traces = {}
         /\ UpstreamSecret # Empty => hdr[UpstreamHeader] = <<UpstreamSecret>>
         /\ hdr["Upgrade"] = <<"websocket">>
<1> DEFINE hdr == applyHeaderPolicy(msg.hdr)
<1>1. Range(<<UpstreamSecret>>) = {UpstreamSecret} /\ Range(<<>>) = {}
  BY DEF Range
<1>2. ASSUME NEW h \in Headers
      PROVE  Range(hdr[h]) \cap Traces = {}
  <2>1. CASE h = UpstreamHeader /\ UpstreamSecret # Empty
    BY <1>1, <2>1 DEF applyHeaderPolicy, SessionHeaders
  <2>2. CASE /\ ~(h = UpstreamHeader /\ UpstreamSecret # Empty)
             /\ h \in {CallerHeader, IdentityHeader, "Cookie", "Authorization"}
    <3>1. hdr[h] = <<>>
      BY <2>2 DEF applyHeaderPolicy
    <3> QED
      BY <1>1, <3>1
  <2>3. CASE /\ ~(h = UpstreamHeader /\ UpstreamSecret # Empty)
             /\ h \notin {CallerHeader, IdentityHeader, "Cookie", "Authorization"}
    <3>1. hdr[h] = msg.hdr[h]
      BY <2>3 DEF applyHeaderPolicy
    <3> QED
      BY <2>3, <3>1 DEF SessionHeaders
  <2> QED
    BY <2>1, <2>2, <2>3
<1>3. UpstreamSecret # Empty => hdr[UpstreamHeader] = <<UpstreamSecret>>
  BY DEF applyHeaderPolicy, Headers
<1>4. hdr["Upgrade"] = <<"websocket">>
  BY DEF applyHeaderPolicy, Headers, SessionHeaders
<1> QED
  BY <1>2, <1>3, <1>4

\* Whatever the callers send within that setting, and however the Secret is
\* rotated meanwhile, a forwarded request carries nothing of the caller's session,
\* carries the upstream credential, and still asks for its upgrade.
THEOREM ForwardedClean ==
  ASSUME SessionHeaders
  PROVE  Spec => []ForwardedIsClean
<1>1. Init => ForwardedInv
  BY DEF Init, ForwardedInv, NoRequest
<1>2. FleetInduction => TypeOK /\ GateInv
  BY DEF FleetInduction
<1>3. ForwardedInv => ForwardedIsClean
  <2> SUFFICES ASSUME ForwardedInv, NEW q \in Requests, req[q].pc = "proxied"
               PROVE  LET hdr == req[q].msg.hdr
                          sent == UNION {Range(hdr[h]) : h \in Headers}
                      IN /\ sent \cap (Identities \cup Secrets \cup {"session"}) = {}
                         /\ UpstreamSecret # Empty => hdr[UpstreamHeader] = <<UpstreamSecret>>
                         /\ hdr["Upgrade"] = <<"websocket">>
    BY DEF ForwardedIsClean
  <2> DEFINE hdr == req[q].msg.hdr
  <2>1. PICK msg \in Messages : hdr = applyHeaderPolicy(msg.hdr)
    BY DEF ForwardedInv
  <2>2. /\ \A h \in Headers : Range(hdr[h]) \cap Traces = {}
        /\ UpstreamSecret # Empty => hdr[UpstreamHeader] = <<UpstreamSecret>>
        /\ hdr["Upgrade"] = <<"websocket">>
    BY <2>1, PolicyIsClean
  <2> HIDE DEF hdr
  <2>3. (UNION {Range(hdr[h]) : h \in Headers}) \cap Traces = {}
    BY <2>2
  <2> QED
    BY <2>2, <2>3 DEF Traces, hdr
<1> QED
  BY <1>1, <1>2, <1>3, StepForwarded, FleetInductive, PTL DEF Spec
=============================================================================
