---------------------------- MODULE MCAppReconcile ----------------------------
(* The PerUserApp controller on small instances.                           *)
EXTENDS AppReconcile

Plain ==
  [limit |-> 1, volumes |-> {[name |-> "etc", sources |-> {"configMap"}, token |-> FALSE]},
   serviceAccountName |-> "own", automount |-> FALSE, fsGroup |-> TRUE,
   runAsNonRoot |-> TRUE, runAsUser |-> TRUE,
   egress |-> {{[cidr |-> "nil", pods |-> "labels", spaces |-> "labels"]}},
   from |-> {}, fromTraefik |-> TRUE, callerAuth |-> TRUE,
   sharedPaths |-> {"absolute"}, identity |-> TRUE, upstreamAuth |-> FALSE, image |-> FALSE]

\* A spec, one with a higher limit and an upstream credential, and two that are
\* refused.
AppSpecs ==
  {Plain, [Plain EXCEPT !.limit = 2, !.upstreamAuth = TRUE],
   [Plain EXCEPT !.fromTraefik = FALSE], [Plain EXCEPT !.callerAuth = FALSE]}

\* The two objects whose body the spec decides.
RouterObjects == <<"Deployment", "NetworkPolicy">>
=============================================================================
