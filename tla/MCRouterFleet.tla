----------------------------- MODULE MCRouterFleet -----------------------------
(* The router replicas' request path on small instances.                   *)
EXTENDS RouterFleet, TLC

FleetSymmetry ==
  Permutations(Users) \cup Permutations(Requests) \cup Permutations(Replicas)

\* A browser's request: a session cookie, an upgrade, and what its way to the
\* router made of the credential and the identity.
Sent(auth, id, read, listed) ==
  [hdr |-> [h \in Headers |->
              CASE h = CallerHeader -> auth
                [] h = IdentityHeader -> id
                [] h = "Upgrade" -> <<"websocket">>
                [] OTHER -> <<"session">>],
   read |-> read, listed |-> listed]

\* Every user's own requests, the shapes that are refused, and the one that is
\* served as Shared.
FleetMessages ==
  {Sent(<<s>>, <<u>>, FALSE, FALSE) : s \in Secrets, u \in Users}
  \cup {Sent(auth, <<u>>, TRUE, TRUE) :
          auth \in {<<>>, <<"secret", "secret">>}, u \in Users}
  \cup {Sent(<<"secret">>, id, TRUE, TRUE) :
          id \in {<<>>, <<Shared>>, <<"merged">>, <<"blank">>, <<"long">>, <<"binary">>}
                 \cup {<<u, v>> : u, v \in Users}}
  \cup {Sent(<<"secret">>, <<>>, read, ~read) : read \in BOOLEAN}
=============================================================================
