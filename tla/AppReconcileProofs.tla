-------------------------- MODULE AppReconcileProofs --------------------------
(***************************************************************************)
(* Theorems about the PerUserApp controller, for any specs the API server  *)
(* accepts, any objects and any number of edits, faults and restarts:      *)
(* types, and what the router may run with.                                *)
(***************************************************************************)
EXTENDS AppReconcile, TLAPS

-----------------------------------------------------------------------------
(* Types.                                                                  *)

\* An app that exists has a uid, a spec and conditions.
LEMMA ExistingApp ==
  ASSUME NEW a \in Apps, a # NoApp
  PROVE  a \in [uid: 1..MaxUids, spec: Specs, conds: Conditions]
BY DEF Apps

\* A pass over a copy renders objects of the copy's owner.
LEMMA RenderedTyped ==
  ASSUME TypeOK, view # NoApp, NEW k \in Kinds
  PROVE  Rendered(k) \in Renderings(k)
<1>1. view.uid \in 1..MaxUids /\ view.spec \in Specs
  BY ExistingApp DEF TypeOK
<1> QED
  BY <1>1 DEF Rendered, Renderings

\* The two conditions of the controller, merged into the copy's list.
LEMMA ConditionsTyped ==
  ASSUME NEW c \in Conditions, NEW config \in {"True", "False", "Unread"},
         NEW limit \in {"none", "True", "False"}
  PROVE  setAppCondition(c, config, limit) \in Conditions
BY DEF setAppCondition, Conditions

\* The patch of the status keeps the app an app.
LEMMA PatchTyped ==
  ASSUME TypeOK, view # NoApp, NEW config \in {"True", "False", "Unread"},
         NEW limit \in {"none", "True", "False"}, NEW fault \in BOOLEAN,
         patchAppStatusIfChanged(config, limit, fault)
  PROVE  /\ app' \in Apps
         /\ queued' \in BOOLEAN
<1> DEFINE new == setAppCondition(view.conds, config, limit)
<1>1. view.conds \in Conditions
  BY ExistingApp DEF TypeOK
<1>2. new \in Conditions
  BY <1>1, ConditionsTyped
<1>3. \/ app' = app
      \/ app # NoApp /\ app' = [app EXCEPT !.conds = new]
  BY DEF patchAppStatusIfChanged
<1>4. queued' \in BOOLEAN
  BY DEF patchAppStatusIfChanged
<1> HIDE DEF new
<1>5. CASE app' = app
  BY <1>4, <1>5 DEF TypeOK
<1>6. CASE app # NoApp /\ app' = [app EXCEPT !.conds = new]
  <2>1. app \in [uid: 1..MaxUids, spec: Specs, conds: Conditions]
    BY <1>6, ExistingApp DEF TypeOK
  <2>2. app' \in [uid: 1..MaxUids, spec: Specs, conds: Conditions]
    BY <1>2, <1>6, <2>1
  <2> QED
    BY <1>4, <2>2 DEF Apps
<1> QED
  BY <1>3, <1>5, <1>6

\* What a pass of the controller may do: patch the conditions, and replace
\* objects by what it renders from a valid copy.
LEMMA ReconcileEffect ==
  ASSUME TypeOK, NEW fault \in BOOLEAN, Reconcile(fault)
  PROVE  /\ app' \in Apps
         /\ queued' \in BOOLEAN
         /\ unseen' \in BOOLEAN
         /\ DOMAIN obj' = Kinds
         /\ \A k \in Kinds :
              \/ obj'[k] = obj[k]
              \/ view # NoApp /\ Valid(view.spec) /\ obj'[k] = Rendered(k)
<1>1. CASE view = NoApp
  BY <1>1 DEF Reconcile, TypeOK
<1>2. CASE view # NoApp
  <2>1. view.conds.limit \in {"none", "True", "False"}
    BY <1>2, ExistingApp DEF TypeOK, Conditions
  <2>2. CASE ReconcileInvalid(fault)
    <3>1. patchAppStatusIfChanged("False", view.conds.limit, fault) /\ unseen' = FALSE /\ obj' = obj
      BY <2>2 DEF ReconcileInvalid
    <3> QED
      BY <1>2, <2>1, <3>1, PatchTyped DEF TypeOK
  <2>3. CASE ReconcileUnread
    <3>1. /\ patchAppStatusIfChanged("Unread", view.conds.limit, FALSE)
          /\ unseen' \in BOOLEAN /\ obj' = obj
      BY <2>3 DEF ReconcileUnread
    <3> QED
      BY <1>2, <2>1, <3>1, PatchTyped DEF TypeOK
  <2>4. CASE ReconcileValid(fault)
    <3>1. PICK n \in Ensured(fault) :
            /\ EnsureObjects(n)
            /\ IF n = Len(Objects)
               THEN patchAppStatusIfChanged("True",
                      IF seen >= view.spec.limit THEN "True" ELSE "False", fault)
               ELSE UNCHANGED app /\ queued' = TRUE
      BY <2>4 DEF ReconcileValid
    <3>2. Valid(view.spec) /\ unseen' = FALSE
      BY <2>4 DEF ReconcileValid
    <3>3. DOMAIN obj' = Kinds /\ \A k \in Kinds : obj'[k] \in {obj[k], Rendered(k)}
      BY <3>1 DEF EnsureObjects
    <3>4. app' \in Apps /\ queued' \in BOOLEAN
      <4> DEFINE limit == IF seen >= view.spec.limit THEN "True" ELSE "False"
      <4>1. limit \in {"none", "True", "False"}
        OBVIOUS
      <4>2. patchAppStatusIfChanged("True", limit, fault) \/ (app' = app /\ queued' = TRUE)
        BY <3>1
      <4> HIDE DEF limit
      <4> QED
        BY <1>2, <4>1, <4>2, PatchTyped DEF TypeOK
    <3> QED
      BY <1>2, <3>2, <3>3, <3>4
  <2> QED
    BY <1>2, <2>2, <2>3, <2>4 DEF Reconcile
<1> QED
  BY <1>1, <1>2

\* Every step keeps the types.
LEMMA StepTyped ==
  ASSUME TypeOK, [Next]_vars
  PROVE  TypeOK'
<1> USE AppReconcileAssumption
<1>1. ASSUME NEW s \in Specs, CreateApp(s)
      PROVE  TypeOK'
  <2>1. app' \in Apps
    BY <1>1 DEF CreateApp, Apps, NoConditions, Conditions, TypeOK
  <2> QED
    BY <1>1, <2>1 DEF CreateApp, TypeOK
<1>2. ASSUME NEW s \in Specs, EditSpec(s)
      PROVE  TypeOK'
  <2>1. app \in [uid: 1..MaxUids, spec: Specs, conds: Conditions]
    BY <1>2, ExistingApp DEF EditSpec, TypeOK
  <2>2. app' \in Apps
    BY <1>2, <2>1 DEF EditSpec, Apps
  <2> QED
    BY <1>2, <2>2 DEF EditSpec, TypeOK
<1>3. CASE Migrate
  <2>1. app \in [uid: 1..MaxUids, spec: Specs, conds: Conditions]
    BY <1>3, ExistingApp DEF Migrate, TypeOK
  <2>2. PICK v \in {"False", "True"} :
          app' = [app EXCEPT !.conds = [app.conds EXCEPT !.migration = v]]
    BY <1>3 DEF Migrate
  <2>3. [app.conds EXCEPT !.migration = v] \in Conditions
    BY <2>1 DEF Conditions
  <2>4. app' \in Apps
    BY <2>1, <2>2, <2>3 DEF Apps
  <2> QED
    BY <1>3, <2>4 DEF Migrate, TypeOK
<1>4. CASE DeleteApp
  BY <1>4 DEF DeleteApp, TypeOK, Apps
<1>5. CASE SwapClass
  BY <1>5 DEF SwapClass, TypeOK
<1>6. CASE FleetChanges
  BY <1>6 DEF FleetChanges, TypeOK
<1>7. ASSUME NEW k \in Kinds, Collect(k)
      PROVE  TypeOK'
  <2>1. DOMAIN obj' = Kinds /\ \A j \in Kinds : obj'[j] \in {obj[j], Nil}
    BY <1>7 DEF Collect, TypeOK
  <2> QED
    BY <1>7, <2>1 DEF Collect, TypeOK
<1>8. ASSUME NEW k \in Kinds, DeliverObject(k)
      PROVE  TypeOK'
  <2>1. DOMAIN cached' = Kinds /\ \A j \in Kinds : cached'[j] \in {cached[j], obj[j]}
    BY <1>8 DEF DeliverObject, TypeOK
  <2> QED
    BY <1>8, <2>1 DEF DeliverObject, TypeOK
<1>9. CASE DeliverApp
  BY <1>9 DEF DeliverApp, TypeOK
<1>10. CASE DeliverFleet
  BY <1>10 DEF DeliverFleet, mapWorkspaceToApp, TypeOK
<1>11. CASE Resync
  BY <1>11 DEF Resync, TypeOK
<1>12. CASE Restart
  BY <1>12 DEF Restart, TypeOK
<1>13. ASSUME NEW fault \in BOOLEAN, Reconcile(fault)
       PROVE  TypeOK'
  <2>1. /\ app' \in Apps /\ queued' \in BOOLEAN /\ unseen' \in BOOLEAN
        /\ DOMAIN obj' = Kinds
    BY <1>13, ReconcileEffect
  <2>2. \A k \in Kinds : obj'[k] \in Renderings(k) \cup {Nil}
    BY <1>13, ReconcileEffect, RenderedTyped DEF TypeOK
  <2>3. faults' \in 0..MaxFaults
    BY <1>13 DEF Reconcile, TypeOK
  <2> QED
    BY <1>13, <2>1, <2>2, <2>3 DEF Reconcile, TypeOK
<1>14. CASE UNCHANGED vars
  BY <1>14 DEF vars, TypeOK
<1> QED
  BY <1>1, <1>2, <1>3, <1>4, <1>5, <1>6, <1>7, <1>8, <1>9, <1>10, <1>11, <1>12, <1>13, <1>14
     DEF Next

-----------------------------------------------------------------------------
(* What the router runs with.                                              *)

\* A spec that validation accepts renders flags the router accepts and an
\* ingress rule that names somebody.
LEMMA ValidIsUsable ==
  ASSUME NEW s \in Specs, Valid(s)
  PROVE  parseRouterFlags(Body("Deployment", s)) /\ Body("NetworkPolicy", s) # {}
<1>1. s.callerAuth /\ (s.from # {} \/ s.fromTraefik)
  BY DEF Valid, ValidateApp, ValidNetwork
<1>2. s.identity /\ \A p \in s.sharedPaths : p = "absolute"
  BY SpecsAssumption
<1>3. parseRouterFlags(RouterArgs(s))
  BY <1>1, <1>2 DEF parseRouterFlags, RouterArgs
<1>4. RouterIngress(s) # {}
  BY <1>1 DEF RouterIngress
<1>5. Body("Deployment", s) = RouterArgs(s) /\ Body("NetworkPolicy", s) = RouterIngress(s)
  BY DEF Body
<1> QED
  BY <1>3, <1>4, <1>5

\* Every step keeps what runs usable: objects change by a pass over a valid copy
\* or go.
LEMMA StepUsable ==
  ASSUME TypeOK, RenderedIsUsable, [Next]_vars
  PROVE  RenderedIsUsable'
<1>1. "Deployment" \in Kinds /\ "NetworkPolicy" \in Kinds
  BY AppReconcileAssumption DEF Kinds
<1>2. ASSUME NEW fault \in BOOLEAN, Reconcile(fault)
      PROVE  RenderedIsUsable'
  <2>1. \A k \in Kinds : \/ obj'[k] = obj[k]
                         \/ view # NoApp /\ Valid(view.spec) /\ obj'[k] = Rendered(k)
    BY <1>2, ReconcileEffect
  <2>2. CASE view # NoApp /\ Valid(view.spec)
    <3>1. view.spec \in Specs
      BY <2>2, ExistingApp DEF TypeOK
    <3>2. /\ parseRouterFlags(Rendered("Deployment").body)
          /\ Rendered("NetworkPolicy").body # {}
      BY <2>2, <3>1, ValidIsUsable DEF Rendered
    <3> QED
      BY <1>1, <2>1, <3>2 DEF RenderedIsUsable
  <2>3. CASE ~(view # NoApp /\ Valid(view.spec))
    BY <1>1, <2>1, <2>3 DEF RenderedIsUsable
  <2> QED
    BY <2>2, <2>3
<1>3. ASSUME NEW k \in Kinds, Collect(k)
      PROVE  RenderedIsUsable'
  <2>1. \A j \in Kinds : obj'[j] \in {obj[j], Nil}
    BY <1>3 DEF Collect, TypeOK
  <2> QED
    BY <1>1, <2>1 DEF RenderedIsUsable
<1>4. CASE obj' = obj
  BY <1>4 DEF RenderedIsUsable
<1> QED
  BY <1>2, <1>3, <1>4 DEF Next, CreateApp, EditSpec, DeleteApp, SwapClass, FleetChanges, Migrate,
     DeliverObject, DeliverApp, DeliverFleet, Resync, Restart, vars

-----------------------------------------------------------------------------
(* Theorems.                                                               *)

\* The app, the objects, and the copies of both have the types declared for
\* them: every object is a rendering of some spec for some creation of the app.
THEOREM AppTypes == Spec => []TypeOK
<1>1. ASSUME Init
      PROVE  TypeOK
  <2>1. /\ 0 \in 0..MaxFleet /\ 0 \in 0..MaxUids
        /\ 0 \in 0..MaxChanges /\ 0 \in 0..MaxFaults
    BY AppReconcileAssumption
  <2>2. retain \in BOOLEAN /\ queued \in BOOLEAN /\ unseen \in BOOLEAN
    BY <1>1 DEF Init
  <2>3. app \in Apps /\ view \in Apps
    BY <1>1 DEF Init, Apps
  <2>4. DOMAIN obj = Kinds /\ DOMAIN cached = Kinds
    BY <1>1 DEF Init
  <2>5. \A k \in Kinds : {obj[k], cached[k]} \subseteq Renderings(k) \cup {Nil}
    BY <1>1 DEF Init
  <2>6. /\ fleet \in 0..MaxFleet /\ seen \in 0..MaxFleet /\ uids \in 0..MaxUids
        /\ changes \in 0..MaxChanges /\ faults \in 0..MaxFaults
    BY <1>1, <2>1 DEF Init
  <2> QED
    BY <2>2, <2>3, <2>4, <2>5, <2>6 DEF TypeOK
<1>2. TypeOK /\ [Next]_vars => TypeOK'
  BY StepTyped
<1> QED
  BY <1>1, <1>2, PTL DEF Spec

\* For any specs that the API server accepts: whatever was edited, replaced or
\* failed meanwhile, the router's container has flags it accepts and its port is
\* closed to all but the peers the spec names.
THEOREM RouterIsUsable == Spec => []RenderedIsUsable
<1>1. Init => RenderedIsUsable
  BY AppReconcileAssumption DEF Init, RenderedIsUsable, Kinds
<1>2. TypeOK /\ RenderedIsUsable /\ [Next]_vars => RenderedIsUsable'
  BY StepUsable
<1> QED
  BY <1>1, <1>2, AppTypes, PTL DEF Spec
=============================================================================
