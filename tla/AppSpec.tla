-------------------------------- MODULE AppSpec --------------------------------
(***************************************************************************)
(* What a PerUserApp may say and what is rendered from it: ValidateApp and *)
(* the router's objects (internal/controller/render.go), and the flags the *)
(* router accepts (cmd/main.go).  Of a field only what these tell apart is *)
(* kept.                                                                   *)
(***************************************************************************)
EXTENDS Integers, FiniteSets

-----------------------------------------------------------------------------
(* Volumes and egress peers.                                               *)

\* Exactly one source, of an allowed kind.
allowedVolumeSource(sources) ==
  /\ Cardinality(sources) = 1
  /\ sources \subseteq {"configMap", "secret", "emptyDir", "projected"}

\* A volume's name, the VolumeSource fields it sets, and whether a projected
\* one holds a service account token.
ValidVolume(v) ==
  /\ v.name # "puc-workspace"
  /\ allowedVolumeSource(v.sources)
  /\ ~v.token

\* An egress peer: its address block and its two label selectors, each absent
\* ("nil"), matching everything ("empty" and "any"), or matching something.
Peers ==
  [cidr: {"nil", "any", "block"}, pods: {"nil", "empty", "labels"},
   spaces: {"nil", "empty", "labels"}]

ValidPeer(p) ==
  /\ p.cidr # "nil" \/ p.pods # "nil" \/ p.spaces # "nil"
  /\ ~(p.pods = "empty" /\ p.spaces = "nil")
  /\ ~(p.spaces = "empty" /\ p.pods \in {"nil", "empty"})
  /\ p.cidr # "any"

\* The peers the API server lets a NetworkPolicy have: a block, or selectors.
LegalPeers ==
  {p \in Peers : p.cidr # "nil" <=> (p.pods = "nil" /\ p.spaces = "nil")}

\* What a peer means to the network: a pod is given by whether it lives in the
\* workspace's own namespace, whether its labels and its namespace's labels are
\* the ones a selector names, and whether its address is in the block.
Pods == [own: BOOLEAN, labelled: BOOLEAN, spaceLabelled: BOOLEAN, inBlock: BOOLEAN]

Selects(selector, labelled) == selector = "empty" \/ (selector = "labels" /\ labelled)

Allows(p, pod) ==
  IF p.cidr # "nil" THEN p.cidr = "any" \/ pod.inBlock
  ELSE /\ IF p.spaces = "nil" THEN pod.own ELSE Selects(p.spaces, pod.spaceLabelled)
       /\ p.pods = "nil" \/ Selects(p.pods, pod.labelled)

\* ValidateApp refuses exactly the peers that are open to the workspace's whole
\* namespace, the other users' pods and the router's, whatever labels and
\* addresses these have (render.go:697-703, 737-764).
ASSUME PeerRule ==
  \A p \in LegalPeers :
    ValidPeer(p) <=> \E pod \in Pods : pod.own /\ ~Allows(p, pod)

-----------------------------------------------------------------------------
(* Validation and rendering.                                               *)

ValidWorkspace(s) ==
  /\ \A v \in s.volumes : ValidVolume(v)
  /\ s.serviceAccountName # "operator"
  /\ ~s.automount
  /\ s.fsGroup
  /\ s.runAsNonRoot => s.runAsUser

ValidNetwork_NoIngressRule(s) ==
  \A rule \in s.egress : rule # {} /\ \A p \in rule : ValidPeer(p)

ValidNetwork(s) ==
  /\ \A rule \in s.egress : rule # {} /\ \A p \in rule : ValidPeer(p)
  /\ s.from # {} \/ s.fromTraefik

ValidateApp_NoAuthRule(s) == ValidWorkspace(s) /\ ValidNetwork(s)

ValidateApp(s) == ValidWorkspace(s) /\ ValidNetwork(s) /\ s.callerAuth

\* The flags of RenderRouterDeployment that a spec decides; the names, ports and
\* paths are constants, callerAuth stands for its header and its Secret.  The
\* upstream credential's header and file are given together or not at all.
RouterArgs(s) ==
  [maxWorkspaces |-> s.limit, callerAuth |-> s.callerAuth, sharedPaths |-> s.sharedPaths,
   identity |-> s.identity,
   upstream |-> IF s.upstreamAuth THEN {"header", "file"} ELSE {}]

\* parseRouterFlags on the arguments of a container whose Secrets are mounted: the
\* kubelet starts no container before they are.
parseRouterFlags(args) ==
  /\ args.identity
  /\ args.callerAuth
  /\ "header" \in args.upstream => "file" \in args.upstream
  /\ \A p \in args.sharedPaths : p = "absolute"

\* Who may reach the router's port; no peer at all means everyone.
RouterIngress(s) == s.from \cup (IF s.fromTraefik THEN {"traefik"} ELSE {})
=============================================================================
