\* Two replicas, two requests in flight, three users and the shared identity.
SPECIFICATION Spec
CONSTANTS
  Users = {u1, u2, u3}
  Shared = shared
  Requests = {q1, q2}
  Replicas = {r1, r2}
  Messages <- FleetMessages
  Limits = {1, 2}
  Secrets = {"secret", "empty"}
  CallerHeader = "Authorization"
  IdentityHeader = "X-User"
  UpstreamHeader = "Authorization"
  UpstreamSecret = "upstream"
  Empty = "empty"
  Nil = Nil
  MaxEdits = 2
  MaxDeletes = 1
SYMMETRY FleetSymmetry
INVARIANTS
  TypeOK
  OvershootBounded
  ExistingNotRefused
  ForwardedIsClean
PROPERTIES
  ServedIsEnqueued
  OnlyForItsUser
