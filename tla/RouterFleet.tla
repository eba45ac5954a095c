----------------------------- MODULE RouterFleet -----------------------------
(***************************************************************************)
(* The request path of a PerUserApp's router replicas up to the proxied    *)
(* request (internal/router/server.go, proxy.go, internal/identity): the   *)
(* caller's credential, its identity, the Workspace made for a new user    *)
(* under spec.limits.maxWorkspaces, and the headers the workspace sees.    *)
(*                                                                         *)
(* A replica reads its flags and its mounted Secret once, when its process *)
(* starts.  It has no cache: every Get and List is a call to the API       *)
(* server, so the requests of all replicas interleave at the calls.  What  *)
(* classify and the cold start hold decide between enqueuedAt and the      *)
(* proxied request belongs to modules WorkspaceLifecycle and Resolver.     *)
(***************************************************************************)
EXTENDS Integers, Sequences, FiniteSets, Functions

CONSTANTS
  Users,             \* identities the front proxy asserts
  Shared,            \* identity.Shared
  Requests,          \* concurrent calls of ServeHTTP, over all replicas
  Replicas,          \* router pods
  Messages,          \* requests callers send
  Limits,            \* values of spec.limits.maxWorkspaces
  Secrets,           \* contents of the caller-auth Secret
  CallerHeader,      \* Cfg.CallerAuthHeader
  IdentityHeader,    \* Cfg.IdentityHeader
  UpstreamHeader,    \* Cfg.UpstreamAuthHeader
  UpstreamSecret,    \* Cfg.UpstreamAuthSecret
  Empty,             \* the empty credential, and the empty Secret
  Nil,               \* no request, no user
  MaxEdits,          \* bound: edits of the limit or the Secret
  MaxDeletes         \* bound: Workspace deletions

ASSUME RouterFleetAssumption ==
  /\ Shared \notin Users
  /\ Nil \notin Users \cup {Shared} \cup Messages
  /\ Limits \subseteq Nat \ {0}            \* the CRD's minimum is 1
  /\ IsFiniteSet(Requests)
  /\ MaxEdits \in Nat
  /\ MaxDeletes \in Nat

Headers ==
  {CallerHeader, IdentityHeader, UpstreamHeader, "Authorization", "Cookie", "Upgrade"}

Identities == Users \cup {Shared}

\* What Extract says instead of an identity.
Refusals == {"missing", "duplicate", "merged", "blank", "long", "binary", "reserved"}

\* A request has a list of values under every header and is, or is not, a read
\* of a listed path.  No identity is written like a refusal, and no value like
\* one that is not about the value's shape.
ASSUME MessagesAssumption ==
  /\ Refusals \cap Identities = {}
  /\ \A msg \in Messages :
       /\ msg = [hdr |-> msg.hdr, read |-> msg.read, listed |-> msg.listed]
       /\ \A h \in Headers : msg.hdr[h] \in Seq(Range(msg.hdr[h]))
       /\ Range(msg.hdr[IdentityHeader]) \cap {"missing", "duplicate", "reserved"} = {}

applyHeaderPolicy_SetThenStrip(hdr) ==
  [h \in Headers |->
     IF h \in {CallerHeader, IdentityHeader, "Cookie", "Authorization"} THEN <<>>
     ELSE IF h = UpstreamHeader /\ UpstreamSecret # Empty THEN <<UpstreamSecret>>
     ELSE hdr[h]]

\* The caller's session is stripped, then the upstream credential is set.
applyHeaderPolicy(hdr) ==
  [h \in Headers |->
     IF h = UpstreamHeader /\ UpstreamSecret # Empty THEN <<UpstreamSecret>>
     ELSE IF h \in {CallerHeader, IdentityHeader, "Cookie", "Authorization"} THEN <<>>
     ELSE hdr[h]]

VARIABLES
  fleet,       \* each identity's Workspace: absent, without enqueuedAt, with it
  deployed,    \* the router Deployment's limit and the mounted Secret
  cfg,         \* what each replica's process read when it started
  req,         \* where each ServeHTTP is
  top,         \* the largest limit a replica ever ran with
  edits, deletes

vars == <<fleet, deployed, cfg, req, top, edits, deletes>>

Configs == [limit: Limits, secret: Secrets]

\* A handler that is not running.
NoRequest == [pc |-> "idle", msg |-> Nil, user |-> Nil, limit |-> 0, had |-> FALSE]

\* msg is a request as it was sent or as it is forwarded: hdr alone changes.
Handlers ==
  [pc: {"idle", "get", "list", "create", "reget", "enqueue", "served", "proxied",
        "rejected", "refused", "failed"},
   msg: Messages \cup {[msg EXCEPT !.hdr = applyHeaderPolicy(@)] : msg \in Messages} \cup {Nil},
   user: Identities \cup {Nil}, limit: Limits \cup {0}, had: BOOLEAN]

TypeOK ==
  /\ fleet \in [Identities -> {"absent", "new", "enqueued"}]
  /\ deployed \in Configs
  /\ cfg \in [Replicas -> Configs]
  /\ req \in [Requests -> Handlers]
  /\ top \in Limits
  /\ edits \in 0..MaxEdits
  /\ deletes \in 0..MaxDeletes

Init ==
  /\ fleet = [u \in Identities |-> "absent"]
  /\ deployed \in Configs
  /\ cfg = [r \in Replicas |-> deployed]
  /\ req = [q \in Requests |-> NoRequest]
  /\ top = deployed.limit
  /\ edits = 0 /\ deletes = 0

Present == {u \in Identities : fleet[u] # "absent"}

-----------------------------------------------------------------------------
(* The gate: who is calling, and as whom.                                  *)

checkCallerAuth_EmptySecret(hdr, secret) == hdr[CallerHeader] = <<secret>>

\* Exactly one credential, and never the empty one.
checkCallerAuth(hdr, secret) ==
  /\ secret # Empty
  /\ hdr[CallerHeader] = <<secret>>

Extract_First(values) ==
  CASE values = <<>> -> "missing"
    [] values[1] \in {"merged", "blank", "long", "binary"} -> values[1]
    [] values[1] = Shared -> "reserved"
    [] OTHER -> values[1]

\* The identity of the header's values, or why there is none.  A value that is
\* no identity is known by its shape: two joined by a comma, blank, over-long,
\* not printable.
Extract(values) ==
  CASE values = <<>> -> "missing"
    [] Len(values) > 1 -> "duplicate"
    [] values[1] \in {"merged", "blank", "long", "binary"} -> values[1]
    [] values[1] = Shared -> "reserved"
    [] OTHER -> values[1]

\* A GET or HEAD of a listed path.
sharedRequest(msg) == msg.read /\ msg.listed

\* The raw identity ServeHTTP goes on with; UserKey gives each one its own name.
IdentityOf(msg) ==
  LET raw == Extract(msg.hdr[IdentityHeader]) IN
  IF raw = "missing" /\ sharedRequest(msg) THEN Shared ELSE raw

Admits_AnyIdentity(msg, secret) == checkCallerAuth(msg.hdr, secret)

\* Both are settled before any Workspace is created or touched.
Admits(msg, secret) ==
  /\ checkCallerAuth(msg.hdr, secret)
  /\ IdentityOf(msg) \in Identities

Goto(q, pc) == req' = [req EXCEPT ![q].pc = pc]

\* A request reaches a replica.
Arrive(q, r, msg) ==
  /\ req[q].pc = "idle"
  /\ req' = [req EXCEPT ![q] =
       IF Admits(msg, cfg[r].secret)
       THEN [pc |-> "get", msg |-> msg, user |-> IdentityOf(msg),
             limit |-> cfg[r].limit, had |-> IdentityOf(msg) \in Present]
       ELSE [NoRequest EXCEPT !.pc = "rejected"]]
  /\ UNCHANGED <<fleet, deployed, cfg, top, edits, deletes>>

-----------------------------------------------------------------------------
(* ensureWorkspace, one action per call to the API server.                 *)

\* ensureEnqueuedAt on the object the call returned.
AfterRead(q) ==
  Goto(q, IF fleet[req[q].user] = "enqueued" THEN "served" ELSE "enqueue")

Get_LimitFirst(q) ==
  /\ req[q].pc = "get"
  /\ IF req[q].user \in Present /\ Cardinality(Present) < req[q].limit
     THEN AfterRead(q) ELSE Goto(q, "list")
  /\ UNCHANGED <<fleet, deployed, cfg, top, edits, deletes>>

Get(q) ==
  /\ req[q].pc = "get"
  /\ IF req[q].user \in Present THEN AfterRead(q) ELSE Goto(q, "list")
  /\ UNCHANGED <<fleet, deployed, cfg, top, edits, deletes>>

List_OffByOne(q) ==
  /\ req[q].pc = "list"
  /\ Goto(q, IF req[q].limit > 0 /\ Cardinality(Present) > req[q].limit
             THEN "refused" ELSE "create")
  /\ UNCHANGED <<fleet, deployed, cfg, top, edits, deletes>>

\* A new user is counted against the limit before anything is created.
List(q) ==
  /\ req[q].pc = "list"
  /\ Goto(q, IF req[q].limit > 0 /\ Cardinality(Present) >= req[q].limit
             THEN "refused" ELSE "create")
  /\ UNCHANGED <<fleet, deployed, cfg, top, edits, deletes>>

Create_ServesExisting(q) ==
  /\ req[q].pc = "create"
  /\ IF req[q].user \in Present
     THEN Goto(q, "served") /\ UNCHANGED fleet
     ELSE fleet' = [fleet EXCEPT ![req[q].user] = "new"] /\ Goto(q, "enqueue")
  /\ UNCHANGED <<deployed, cfg, top, edits, deletes>>

\* AlreadyExists is a success: another request of the same user was faster.
Create(q) ==
  /\ req[q].pc = "create"
  /\ IF req[q].user \in Present
     THEN Goto(q, "reget") /\ UNCHANGED fleet
     ELSE fleet' = [fleet EXCEPT ![req[q].user] = "new"] /\ Goto(q, "enqueue")
  /\ UNCHANGED <<deployed, cfg, top, edits, deletes>>

\* The one made by the other request may be gone again.
Reget(q) ==
  /\ req[q].pc = "reget"
  /\ IF req[q].user \in Present THEN AfterRead(q) ELSE Goto(q, "failed")
  /\ UNCHANGED <<fleet, deployed, cfg, top, edits, deletes>>

\* The patch names no resourceVersion: it rewrites an enqueuedAt written since
\* the read, and it lands on a Workspace made since then.
EnsureEnqueuedAt(q) ==
  /\ req[q].pc = "enqueue"
  /\ IF req[q].user \in Present
     THEN fleet' = [fleet EXCEPT ![req[q].user] = "enqueued"] /\ Goto(q, "served")
     ELSE Goto(q, "failed") /\ UNCHANGED fleet
  /\ UNCHANGED <<deployed, cfg, top, edits, deletes>>

-----------------------------------------------------------------------------
(* The proxied request.                                                    *)

\* The Workspace was servable, at once or within the hold.
Proxy(q) ==
  /\ req[q].pc = "served"
  /\ req' = [req EXCEPT ![q].pc = "proxied",
                        ![q].msg.hdr = applyHeaderPolicy(@)]
  /\ UNCHANGED <<fleet, deployed, cfg, top, edits, deletes>>

\* A call fails, the caller gives up, classify or the hold rejects, or the
\* replica is killed after its shutdown timeout: what was written stays.
Abort(q) ==
  /\ req[q].pc \in {"get", "list", "create", "reget", "enqueue", "served"}
  /\ Goto(q, "failed")
  /\ UNCHANGED <<fleet, deployed, cfg, top, edits, deletes>>

End(q) ==
  /\ req[q].pc \in {"proxied", "rejected", "refused", "failed"}
  /\ req' = [req EXCEPT ![q] = NoRequest]
  /\ UNCHANGED <<fleet, deployed, cfg, top, edits, deletes>>

-----------------------------------------------------------------------------
(* Around the requests.                                                    *)

\* An administrator or the Reclaimer deletes a Workspace.  `had` says that the
\* request's Workspace was there all the time since the request arrived.
Delete(u) ==
  /\ deletes < MaxDeletes
  /\ u \in Present
  /\ fleet' = [fleet EXCEPT ![u] = "absent"]
  /\ req' = [q \in Requests |->
               [req[q] EXCEPT !.had = @ /\ req[q].user # u]]
  /\ deletes' = deletes + 1
  /\ UNCHANGED <<deployed, cfg, top, edits>>

\* The PerUserApp reconciler renders a new limit, or the Secret is rotated.
Edit(c) ==
  /\ edits < MaxEdits
  /\ c # deployed
  /\ c.limit = deployed.limit \/ c.secret = deployed.secret
  /\ deployed' = c
  /\ edits' = edits + 1
  /\ UNCHANGED <<fleet, cfg, req, top, deletes>>

\* A pod is replaced.  The old process finishes the requests it has with the
\* limit it was started with.
RollOut(r) ==
  /\ cfg[r] # deployed
  /\ cfg' = [cfg EXCEPT ![r] = deployed]
  /\ top' = IF deployed.limit > top THEN deployed.limit ELSE top
  /\ UNCHANGED <<fleet, deployed, req, edits, deletes>>

Next ==
  \/ \E q \in Requests, r \in Replicas, msg \in Messages : Arrive(q, r, msg)
  \/ \E q \in Requests :
       \/ Get(q) \/ List(q) \/ Create(q) \/ Reget(q) \/ EnsureEnqueuedAt(q)
       \/ Proxy(q) \/ Abort(q) \/ End(q)
  \/ \E u \in Identities : Delete(u)
  \/ \E c \in Configs : Edit(c)
  \/ \E r \in Replicas : RollOut(r)

Spec == Init /\ [][Next]_vars

-----------------------------------------------------------------------------
(* Properties.                                                             *)

Creating == {q \in Requests : req[q].pc = "create"}

\* The limit is tested on a List and the Create follows, on every replica for
\* itself and with the limit that replica was started with.  The fleet passes
\* the largest limit any replica ran with by less than the number of requests
\* in flight, the Creates still on their way included (server.go:250-285).
OvershootBounded ==
  Cardinality(Present) + Cardinality(Creating) <= top + Cardinality(Requests) - 1

\* Nobody whose Workspace was there all along is turned away for the limit,
\* whatever the limit was lowered to (server.go:230-233).
ExistingNotRefused ==
  \A q \in Requests : req[q].pc = "refused" => ~req[q].had

\* A request goes on only once its user's Workspace carries the enqueuedAt that
\* admission orders by, also when its maker died before writing it and when two
\* first requests of one user race (server.go:222-228).
ServedIsEnqueued ==
  [][\A q \in Requests :
       req[q].pc # "served" /\ req'[q].pc = "served"
         => fleet'[req[q].user] = "enqueued"]_vars

\* The caller proved to be the front proxy, and asserted u and nobody else; the
\* shared Workspace is for reads of a listed path that assert nobody.
AssertsOnly(msg, u) ==
  /\ \E s \in Secrets \ {Empty} : msg.hdr[CallerHeader] = <<s>>
  /\ IF u = Shared
     THEN msg.hdr[IdentityHeader] = <<>> /\ msg.read /\ msg.listed
     ELSE msg.hdr[IdentityHeader] = <<u>>

\* A Workspace comes into being only through a request that an authenticated
\* caller made as exactly that user, whatever the replicas' Secrets were when
\* it arrived and when it created (server.go:98-130, identity.go:61-101).
OnlyForItsUser ==
  [][\A u \in Identities :
       fleet[u] = "absent" /\ fleet'[u] # "absent"
         => \E q \in Requests : req[q].user = u /\ AssertsOnly(req[q].msg, u)]_vars

\* The workspace sees nothing of the caller's session, sees the upstream
\* credential also where it shares a header with the caller's, and sees what
\* an upgrade needs (proxy.go:21-35).
ForwardedIsClean ==
  \A q \in Requests : req[q].pc = "proxied" =>
    LET hdr == req[q].msg.hdr
        sent == UNION {Range(hdr[h]) : h \in Headers}
    IN /\ sent \cap (Identities \cup Secrets \cup {"session"}) = {}
       /\ UpstreamSecret # Empty => hdr[UpstreamHeader] = <<UpstreamSecret>>
       /\ hdr["Upgrade"] = <<"websocket">>
=============================================================================
