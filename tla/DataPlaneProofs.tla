-------------------------- MODULE DataPlaneProofs --------------------------
(* Theorems about DataPlane, for every set of managers, every set of       *)
(* adoptable clusters and every bound on edits and faults.                 *)
EXTENDS DataPlane, TLAPS

-----------------------------------------------------------------------------
(* The inductive invariant, in named parts.                                *)

Leaving(d) == d.plane = "deleting" \/ ~d.fin

(* A manager in a phase works for a plane that exists and carries the      *)
(* finalizer; one in finalize for a plane that is being deleted or, when   *)
(* its cache lags, for one that is gone or was created again and has       *)
(* nothing yet.                                                            *)
GuardedPass ==
  \A m \in Managers :
    /\ pc[m] \in PhaseSteps => Guarded(dp)
    /\ pc[m] \in FinalizeSteps => snap[m].plane = "deleting" /\ Leaving(dp)

(* Between deregistration and the removal of the finalizer nothing         *)
(* registers the plane again.                                              *)
StaysDeregistered ==
  \A m \in Managers :
    pc[m] \in {"finInfra", "finRemove"} => argo.cluster = NoCluster

OneRunning ==
  \A m, n \in Managers : pc[m] # "down" /\ pc[n] # "down" => m = n

(* A fresh copy differs from the stored object in the status only.         *)
CopyOf(s, d) == /\ s.plane = d.plane /\ s.fin = d.fin /\ s.mode = d.mode
                /\ s.mesh = d.mesh /\ s.gen = d.gen /\ s.edit = d.edit
                /\ s.ref = d.ref
FreshCopy ==
  \A m \in fresh : /\ pc[m] \notin {"down", "idle"}
                   /\ CopyOf(snap[m], dp)

(* A pass that is about to add the finalizer has seen a live plane without.*)
AddsToLive ==
  \A m \in Managers : pc[m] = "addFin" => snap[m].plane = "live"

CurrentCache == \A m \in current : cache[m] = dp

(* What a lagging cache may still show: a guarded plane only while there   *)
(* is one, a plane being deleted only until the next one is guarded.       *)
Shows(c, d) == /\ c.plane = "live" /\ c.fin => Guarded(d)
               /\ c.plane = "deleting" => Leaving(d)
CacheShows ==
  \A m \in Managers :
    /\ Shows(cache[m], dp)
    /\ pc[m] = "down" => m \notin current /\ cache[m].plane = "absent"
    /\ m \in fresh /\ pc[m] \in FinalizeSteps \cup {"addFin"} => m \in current

(* A plane being deleted has the finalizer, or it would be gone.           *)
DeletingIsGuarded == dp.plane = "deleting" => dp.fin

GuardInv == /\ TypeOK /\ OneRunning /\ GuardedPass /\ StaysDeregistered
            /\ FreshCopy /\ AddsToLive /\ CurrentCache /\ CacheShows
            /\ DeletingIsGuarded /\ InfraGuarded /\ NoOrphanRegistration

-----------------------------------------------------------------------------
(* The last edit: what a pass and a cache know of it.                      *)

Observed(d) == d.plane = "live" /\ d.ogen >= d.edit

(* A pass at step with copy s, for plane d and registration a.             *)
PassKnows(step, s, d, a) ==
  /\ step \in PhaseSteps /\ Observed(d) => s.edit = d.edit
  /\ step \in {"agents", "mesh", "observe"} =>
       a.cluster # NoCluster /\ a.edit = s.edit

(* The observed generation a pass may write when its copy is fresh.        *)
WritesObserved(step, s, d, a) ==
  /\ step \in PhaseSteps \cup {"addFin"} =>
       \/ s.ogen = d.ogen
       \/ /\ step = "commit" /\ s.ogen = s.gen
          /\ a.cluster # NoCluster /\ a.edit = s.edit

EditsOK ==
  /\ dp.ogen <= dp.gen /\ dp.edit <= dp.gen
  /\ \A m \in Managers :
       /\ PassKnows(pc[m], snap[m], dp, argo)
       /\ pc[m] # "down" /\ Observed(dp) => cache[m].edit = dp.edit
  /\ \A m \in fresh :
       /\ WritesObserved(pc[m], snap[m], dp, argo)
       /\ cache[m].edit = dp.edit

EditInv == GuardInv /\ EditsOK /\ ObservedNotAhead

-----------------------------------------------------------------------------
(* Conditions: what the in-memory status of a pass holds at each step.     *)
ConditionsOK ==
  \A m \in Managers :
    /\ pc[m] \in {"register", "agents", "mesh", "observe"} =>
         snap[m].conds["Infra"] = "True"
    /\ pc[m] \in {"agents", "mesh", "observe"} =>
         snap[m].conds["Registered"] = "True"
    /\ pc[m] \in {"mesh", "observe"} => snap[m].conds["Agents"] = "True"
    /\ pc[m] = "mesh" => snap[m].mesh
    /\ pc[m] = "observe" => snap[m].conds["Mesh"] = CondFrom(snap[m].mesh)
    /\ m \in fresh /\ pc[m] # "commit" =>
         snap[m].conds["Ready"] = dp.conds["Ready"]
    /\ m \in fresh /\ pc[m] = "commit" =>
         \/ snap[m].conds["Ready"] = dp.conds["Ready"]
         \/ snap[m].conds["Ready"] = "False"
         \/ AllPhasesTrue(snap[m]) /\ snap[m].ogen = snap[m].gen

ReadyInv == TypeOK /\ FreshCopy /\ CurrentCache /\ ConditionsOK

-----------------------------------------------------------------------------
(* Lemmas about the helpers.                                               *)

(* Setting a condition changes that condition and nothing else.            *)
LEMMA SetCondFacts ==
  ASSUME NEW s \in DPObject, NEW c \in Conditions, NEW v \in CondStatus
  PROVE  LET t == SetCond(s, c, v) IN
         /\ t \in DPObject
         /\ CopyOf(t, s) /\ t.ogen = s.ogen
         /\ t.conds[c] = v
         /\ \A d \in Conditions \ {c} : t.conds[d] = s.conds[d]
<1>1. s.conds \in [Conditions -> CondStatus]
  BY DEF DPObject
<1>2. [s.conds EXCEPT ![c] = v] \in [Conditions -> CondStatus]
  BY <1>1
<1>3. QED
  BY <1>1, <1>2 DEF SetCond, DPObject, CopyOf

(* A failed phase keeps the copy but for two conditions, both then False.  *)
LEMMA FailedFacts ==
  ASSUME NEW s \in DPObject, NEW c \in Conditions
  PROVE  LET t == Failed(s, c) IN
         /\ t \in DPObject
         /\ CopyOf(t, s) /\ t.ogen = s.ogen
         /\ t.conds["Ready"] = "False"
<1> DEFINE u == SetCond(s, c, "False")
<1>1. "False" \in CondStatus /\ "Ready" \in Conditions
  BY DEF CondStatus, Conditions
<1>2. u \in DPObject /\ CopyOf(u, s) /\ u.ogen = s.ogen
  BY <1>1, SetCondFacts
<1>3. QED
  BY <1>1, <1>2, SetCondFacts DEF Failed, CopyOf

(* A phase that is not there yet changes its own condition only.           *)
LEMMA HeldFacts ==
  ASSUME NEW s \in DPObject, NEW c \in GatingPhases
  PROVE  LET t == Held(s, c) IN
         /\ t \in DPObject
         /\ CopyOf(t, s) /\ t.ogen = s.ogen
         /\ t.conds["Ready"] = s.conds["Ready"]
BY SetCondFacts DEF Held, CondStatus, Conditions, GatingPhases

(* The last phase sets its condition and Ready and reports the generation. *)
LEMMA AggregatedFacts ==
  ASSUME NEW s \in DPObject
  PROVE  LET t == Aggregated(s) IN
         /\ t \in DPObject
         /\ CopyOf(t, s) /\ t.ogen = s.gen
         /\ t.conds["Obs"] = "True" /\ t.conds["Ready"] = "True"
         /\ \A d \in Conditions \ {"Obs", "Ready"} : t.conds[d] = s.conds[d]
<1> DEFINE u == SetCond(s, "Obs", "True")
           t == SetCond(u, "Ready", "True")
<1>1. /\ "True" \in CondStatus /\ "Obs" \in Conditions
      /\ "Ready" \in Conditions \ {"Obs"}
  BY DEF CondStatus, Conditions
<1>2. /\ u \in DPObject /\ CopyOf(u, s)
      /\ u.conds["Obs"] = "True"
      /\ \A d \in Conditions \ {"Obs"} : u.conds[d] = s.conds[d]
  BY <1>1, SetCondFacts
<1>3. /\ t \in DPObject /\ CopyOf(t, u)
      /\ t.conds["Ready"] = "True"
      /\ \A d \in Conditions \ {"Ready"} : t.conds[d] = u.conds[d]
  BY <1>1, <1>2, SetCondFacts
<1> HIDE DEF t, u
<1>4. LET r == [t EXCEPT !.ogen = t.gen] IN
      /\ r \in DPObject /\ CopyOf(r, t) /\ r.ogen = t.gen /\ r.conds = t.conds
  BY <1>3 DEF DPObject, CopyOf
<1>5. Aggregated(s) = [t EXCEPT !.ogen = t.gen]
  BY DEF Aggregated, t, u
<1>6. QED
  BY <1>1, <1>2, <1>3, <1>4, <1>5 DEF CopyOf

LEMMA NoPlaneType == NoPlane \in DPObject
BY DEF NoPlane, DPObject, Modes, ManagedModes, Unreported, CondStatus

LEMMA PhaseConditionType == \A step : PhaseCondition(step) \in Conditions
BY DEF PhaseCondition, Conditions

(* The step of a manager that moves on keeps pc and snap typed.            *)
LEMMA GoToType ==
  ASSUME NEW m \in Managers, NEW step \in Steps, NEW s \in DPObject,
         pc \in [Managers -> Steps], snap \in [Managers -> DPObject],
         GoTo(m, step, s)
  PROVE  pc' \in [Managers -> Steps] /\ snap' \in [Managers -> DPObject]
BY DEF GoTo

(* So does the end of a pass, whatever the last write was.                 *)
LEMMA UpdateAndEndType ==
  ASSUME NEW m \in Managers, NEW new \in DPObject, TypeOK, UpdateAndEnd(m, new)
  PROVE  /\ dp' \in DPObject /\ fresh' \subseteq Managers
         /\ cache' \in [Managers -> DPObject] /\ current' \subseteq Managers
         /\ pc' \in [Managers -> Steps] /\ snap' \in [Managers -> DPObject]
         /\ kube' \in [Managers -> Clusters \cup {NoCluster}]
<1>1. "idle" \in Steps
  BY DEF Steps
<1>2. QED
  BY <1>1, GoToType, NoPlaneType DEF UpdateAndEnd, EndPass, Store, TypeOK

(* A write to the spec keeps everything but the fields it names.           *)
LEMMA WithRefFacts ==
  ASSUME NEW s \in DPObject
  PROVE  LET t == WithRef(s) IN
         /\ t \in DPObject
         /\ t.plane = s.plane /\ t.fin = s.fin /\ t.edit = s.edit
         /\ t.gen = s.gen + 1
         /\ t.conds = s.conds /\ t.ogen = s.ogen
<1>1. ASSUME NEW g \in Nat
      PROVE  LET t == [s EXCEPT !.ref = TRUE, !.gen = g] IN
             /\ t \in DPObject
             /\ t.plane = s.plane /\ t.fin = s.fin /\ t.edit = s.edit
             /\ t.gen = g
             /\ t.conds = s.conds /\ t.ogen = s.ogen
  BY DEF DPObject
<1>2. s.gen + 1 \in Nat
  BY DEF DPObject
<1>3. QED
  BY <1>1, <1>2 DEF WithRef

LEMMA EditedFacts ==
  ASSUME NEW s \in DPObject, NEW mode \in Modes, NEW mesh \in BOOLEAN
  PROVE  LET t == Edited(s, mode, mesh) IN
         /\ t \in DPObject
         /\ t.plane = s.plane /\ t.fin = s.fin
         /\ t.gen = s.gen + 1 /\ t.edit = s.gen + 1
         /\ t.conds = s.conds /\ t.ogen = s.ogen
<1>1. ASSUME NEW g \in Nat
      PROVE  LET t == [s EXCEPT !.mode = mode, !.mesh = mesh, !.gen = g,
                                !.edit = g] IN
             /\ t \in DPObject
             /\ t.plane = s.plane /\ t.fin = s.fin
             /\ t.gen = g /\ t.edit = g
             /\ t.conds = s.conds /\ t.ogen = s.ogen
  BY DEF DPObject
<1>2. s.gen + 1 \in Nat
  BY DEF DPObject
<1>3. QED
  BY <1>1, <1>2 DEF Edited

LEMMA MarkedDeletedFacts ==
  ASSUME NEW s \in DPObject
  PROVE  LET t == MarkedDeleted(s) IN
         /\ t \in DPObject
         /\ t.plane = "deleting" /\ t.fin = s.fin /\ t.edit = s.edit
         /\ t.gen = s.gen + 1
         /\ t.conds = s.conds /\ t.ogen = s.ogen
<1>1. ASSUME NEW g \in Nat
      PROVE  LET t == [s EXCEPT !.plane = "deleting", !.gen = g] IN
             /\ t \in DPObject
             /\ t.plane = "deleting" /\ t.fin = s.fin /\ t.edit = s.edit
             /\ t.gen = g
             /\ t.conds = s.conds /\ t.ogen = s.ogen
  BY DEF DPObject
<1>2. s.gen + 1 \in Nat
  BY DEF DPObject
<1>3. QED
  BY <1>1, <1>2 DEF MarkedDeleted

LEMMA CreatedFacts ==
  ASSUME NEW mode \in Modes, NEW mesh \in BOOLEAN
  PROVE  LET t == Created(mode, mesh) IN
         /\ t \in DPObject
         /\ t.plane = "live" /\ ~t.fin /\ t.gen = 1 /\ t.edit = 1
         /\ t.conds = Unreported /\ t.ogen = 0
<1>1. /\ NoPlane \in DPObject /\ ~NoPlane.fin
      /\ NoPlane.conds = Unreported /\ NoPlane.ogen = 0
  BY NoPlaneType DEF NoPlane
<1>2. QED
  BY <1>1 DEF DPObject, Created

(* A status write takes conditions and observed generation, nothing else.  *)
LEMMA WithStatusFacts ==
  ASSUME NEW d \in DPObject, NEW s \in DPObject
  PROVE  LET t == WithStatus(d, s) IN
         /\ t \in DPObject
         /\ CopyOf(t, d)
         /\ t.conds = s.conds /\ t.ogen = s.ogen
BY DEF DPObject, CopyOf, WithStatus

(* So does adding the finalizer.                                           *)
LEMMA WithFinalizerFacts ==
  ASSUME NEW s \in DPObject
  PROVE  LET t == WithFinalizer(s) IN
         /\ t \in DPObject /\ t.fin
         /\ t.plane = s.plane /\ t.gen = s.gen /\ t.edit = s.edit
         /\ t.conds = s.conds /\ t.ogen = s.ogen
BY DEF DPObject, WithFinalizer

(* Edits and faults are counted up to their bounds.                        *)
LEMMA BoundsType ==
  ASSUME TypeOK, Edit \/ Fault
  PROVE  edits' \in 0..MaxEdits /\ faults' \in 0..MaxFaults
BY ConstantsAssumption DEF Edit, Fault, TypeOK

(* The cache takes the stored object; a write may leave it behind.         *)
LEMMA ListWatchType ==
  ASSUME TypeOK, NEW m \in Managers, ListWatch(m)
  PROVE  cache' \in [Managers -> DPObject] /\ current' \subseteq Managers
BY DEF ListWatch, TypeOK

-----------------------------------------------------------------------------
(* Type correctness.                                                       *)

LEMMA InitType == Init => TypeOK
<1> SUFFICES ASSUME Init PROVE TypeOK
  OBVIOUS
<1>1. infra \in [ManagedModes -> InfraState]
  BY DEF Init, InfraState
<1>2. argo \in Registration
  BY DEF Init, Unregistered, Registration
<1>3. /\ pc \in [Managers -> Steps]
      /\ snap \in [Managers -> DPObject]
      /\ kube \in [Managers -> Clusters \cup {NoCluster}]
      /\ cache \in [Managers -> DPObject]
  BY NoPlaneType DEF Init, Steps
<1>4. edits \in 0..MaxEdits /\ faults \in 0..MaxFaults
  BY ConstantsAssumption DEF Init
<1>5. QED
  BY <1>1, <1>2, <1>3, <1>4, NoPlaneType DEF Init, TypeOK

LEMMA ManagerType ==
  ASSUME TypeOK, NEW m \in Managers, Start(m) \/ Deliver(m) \/ Reconcile(m) \/ Mishap(m)
  PROVE  TypeOK'
<1> USE DEF Steps, PhaseSteps, FinalizeSteps, informer, bounds
<1>s. snap[m] \in DPObject /\ cache[m] \in DPObject /\ dp \in DPObject
  BY DEF TypeOK
<1>c. \A s : kubeconfig[SecretOf(s)] \in Clusters \cup {NoCluster}
  BY DEF TypeOK, SecretOf, SecretNames
<1>1. CASE Start(m)
  BY <1>1, ListWatchType DEF Start, TypeOK, world
<1>2. CASE Begin(m)
  <2>1. FirstStep(cache[m]) \in Steps
    BY DEF FirstStep
  <2>2. QED
    BY <1>2, <1>s, <2>1, GoToType DEF Begin, TypeOK, world
<1>3. CASE AddFinalizer(m)
  <2>1. WithFinalizer(snap[m]) \in DPObject
    BY <1>s, WithFinalizerFacts
  <2>2. QED
    BY <1>3, <2>1, UpdateAndEndType DEF AddFinalizer, TypeOK, world
<1>4. CASE ApplyInfra(m)
  <2>1. AfterApply(snap[m]) \in Steps
    BY DEF AfterApply
  <2>2. infra' \in [ManagedModes -> InfraState]
    BY <1>4 DEF ApplyInfra, TypeOK, InfraState
  <2>3. QED
    BY <1>4, <1>s, <2>1, <2>2, GoToType DEF ApplyInfra, TypeOK
<1>5. CASE RecordRef(m)
  <2>1. WithRef(snap[m]) \in DPObject
    BY <1>s, WithRefFacts
  <2>2. Failed(snap[m], "Infra") \in DPObject
    BY <1>s, FailedFacts DEF Conditions
  <2>3. QED
    BY <1>5, <2>1, <2>2, GoToType DEF RecordRef, TypeOK, world
<1>6. CASE Probe(m)
  <2>1. /\ SetCond(snap[m], "Infra", "True") \in DPObject
        /\ Failed(snap[m], "Infra") \in DPObject
        /\ Held(snap[m], "Infra") \in DPObject
    BY <1>s, SetCondFacts, FailedFacts, HeldFacts
       DEF Conditions, CondStatus, GatingPhases
  <2>2. QED
    BY <1>6, <1>c, <2>1, GoToType DEF Probe, TypeOK, world
<1>7. CASE Register(m)
  <2>1. /\ SetCond(snap[m], "Registered", "True") \in DPObject
        /\ Failed(snap[m], "Registered") \in DPObject
    BY <1>s, SetCondFacts, FailedFacts DEF Conditions, CondStatus
  <2>2. argo' \in Registration
    BY <1>7, <1>s, <1>c DEF Register, TypeOK, Registration, DPObject
  <2>3. QED
    BY <1>7, <2>1, <2>2, GoToType DEF Register, TypeOK
<1>8. CASE CheckAgents(m)
  <2>1. SetCond(snap[m], "Agents", "True") \in DPObject
    BY <1>s, SetCondFacts DEF Conditions, CondStatus
  <2>2. SetCond(SetCond(snap[m], "Agents", "True"), "Mesh", CondFrom(FALSE))
          \in DPObject
    BY <2>1, SetCondFacts DEF Conditions, CondStatus, CondFrom
  <2>3. Held(snap[m], "Agents") \in DPObject
    BY <1>s, HeldFacts DEF GatingPhases
  <2>4. QED
    BY <1>8, <2>1, <2>2, <2>3, GoToType DEF CheckAgents, TypeOK, world
<1>9. CASE JoinMesh(m)
  <2>1. SetCond(snap[m], "Mesh", CondFrom(TRUE)) \in DPObject
    BY <1>s, SetCondFacts DEF Conditions, CondStatus, CondFrom
  <2>2. QED
    BY <1>9, <2>1, GoToType DEF JoinMesh, TypeOK
<1>10. CASE Observe(m)
  <2>3. Aggregated(snap[m]) \in DPObject
    BY <1>s, AggregatedFacts
  <2>4. Failed(snap[m], "Obs") \in DPObject
    BY <1>s, FailedFacts DEF Conditions
  <2>5. wired' \subseteq Clusters
    BY <1>10 DEF Observe, TypeOK
  <2>6. QED
    BY <1>10, <2>3, <2>4, <2>5, GoToType DEF Observe, TypeOK
<1>11. CASE Commit(m)
  <2>1. WithStatus(dp, snap[m]) \in DPObject
    BY <1>s, WithStatusFacts
  <2>2. QED
    BY <1>11, <2>1, UpdateAndEndType DEF Commit, TypeOK, world
<1>12. CASE Deregister(m)
  <2>1. argo' \in Registration
    BY <1>12 DEF Deregister, Unregistered, Registration
  <2>2. QED
    BY <1>12, <1>s, <2>1, GoToType DEF Deregister, TypeOK
<1>13. CASE DeleteInfra(m)
  <2>1. infra' \in [ManagedModes -> InfraState]
    BY <1>13 DEF DeleteInfra, TypeOK, InfraState
  <2>2. QED
    BY <1>13, <1>s, <2>1, GoToType DEF DeleteInfra, TypeOK
<1>14. CASE RemoveFinalizer(m)
  <2>1. infra' \in [ManagedModes -> InfraState]
    BY <1>14 DEF RemoveFinalizer, Disowned, TypeOK, InfraState
  <2>2. QED
    BY <1>14, <2>1, NoPlaneType, UpdateAndEndType DEF RemoveFinalizer, TypeOK
<1>15. CASE Stop(m)
  BY <1>15, NoPlaneType, GoToType, BoundsType DEF Stop, TypeOK, world
<1>16. CASE SkipInfra(m)
  <2>1. AfterApply(snap[m]) \in Steps
    BY DEF AfterApply
  <2>2. QED
    BY <1>16, <1>s, <2>1, GoToType, BoundsType DEF SkipInfra, TypeOK, world
<1>17. CASE CallFails(m)
  <2>1. Failed(snap[m], PhaseCondition(pc[m])) \in DPObject
    BY <1>s, PhaseConditionType, FailedFacts
  <2>2. QED
    BY <1>17, <2>1, NoPlaneType, GoToType, BoundsType
       DEF CallFails, EndPass, TypeOK, world
<1>18. CASE Deliver(m)
  BY <1>18, ListWatchType DEF Deliver, TypeOK, world
<1>19. CASE RegistrationUnseen(m)
  <2>1. Held(snap[m], "Agents") \in DPObject
    BY <1>s, HeldFacts DEF GatingPhases
  <2>2. QED
    BY <1>19, <2>1, GoToType, BoundsType DEF RegistrationUnseen, TypeOK, world
<1>20. QED
  BY <1>1, <1>2, <1>3, <1>4, <1>5, <1>6, <1>7, <1>8, <1>9, <1>10, <1>11,
     <1>12, <1>13, <1>14, <1>15, <1>16, <1>17, <1>18, <1>19
     DEF Reconcile, Phase, Finalize, Mishap

LEMMA EnvironmentType == TypeOK /\ Environment => TypeOK'
<1> SUFFICES ASSUME TypeOK, Environment PROVE TypeOK'
  OBVIOUS
<1> USE DEF world, control, informer, bounds
<1>d. Edit \/ Fault => edits' \in 0..MaxEdits /\ faults' \in 0..MaxFaults
  BY BoundsType
<1>1. CASE CreatePlane
  <2>1. dp' \in DPObject
    BY <1>1, CreatedFacts DEF CreatePlane
  <2>2. QED
    BY <1>1, <1>d, <2>1 DEF CreatePlane, TypeOK
<1>2. CASE EditPlane
  <2>1. dp' \in DPObject
    BY <1>2, EditedFacts DEF EditPlane, TypeOK
  <2>2. QED
    BY <1>2, <1>d, <2>1 DEF EditPlane, TypeOK
<1>3. CASE DeletePlane
  <2>1. dp' \in DPObject
    BY <1>3, NoPlaneType, MarkedDeletedFacts DEF DeletePlane, TypeOK
  <2>2. infra' \in [ManagedModes -> InfraState]
    BY <1>3 DEF DeletePlane, Disowned, TypeOK, InfraState
  <2>3. QED
    BY <1>3, <1>d, <2>1, <2>2 DEF DeletePlane, TypeOK
<1>4. CASE SupplyKubeconfig
  <2>1. kubeconfig' \in [SecretNames -> Clusters \cup {NoCluster}]
    BY <1>4 DEF SupplyKubeconfig, TypeOK, SecretNames, Clusters
  <2>2. QED
    BY <1>4, <1>d, <2>1 DEF SupplyKubeconfig, TypeOK
<1>5. CASE PublishKubeconfig
  <2>1. kubeconfig' \in [SecretNames -> Clusters \cup {NoCluster}]
    BY <1>5 DEF PublishKubeconfig, TypeOK, SecretNames, Clusters
  <2>2. edits' \in 0..MaxEdits /\ faults' \in 0..MaxFaults
    BY <1>5, <1>d DEF PublishKubeconfig, TypeOK
  <2>3. QED
    BY <1>5, <2>1, <2>2 DEF PublishKubeconfig, TypeOK
<1>6. CASE ClusterUp
  BY <1>6 DEF ClusterUp, TypeOK
<1>7. CASE ClusterDown
  BY <1>7, <1>d DEF ClusterDown, TypeOK
<1>8. CASE AppsDegrade
  BY <1>8, <1>d DEF AppsDegrade, TypeOK
<1>9. CASE AppsRecover
  BY <1>9 DEF AppsRecover, TypeOK
<1>10. CASE InfraGone
  BY <1>10 DEF InfraGone, TypeOK, InfraState, SecretNames
<1>11. CASE CollectOrphan
  BY <1>11 DEF CollectOrphan, TypeOK, InfraState
<1>12. QED
  BY <1>1, <1>2, <1>3, <1>4, <1>5, <1>6, <1>7, <1>8, <1>9, <1>10, <1>11
     DEF Environment, UserEdits

LEMMA StutterType == TypeOK /\ UNCHANGED vars => TypeOK'
BY DEF TypeOK, vars, world, control, informer, bounds

(* Every variable of the controller keeps its type, however many managers  *)
(* run.                                                                    *)
THEOREM TypeCorrect == Spec => []TypeOK
<1>1. TypeOK /\ [Next]_vars => TypeOK'
  BY ManagerType, EnvironmentType, StutterType DEF Next
<1>2. QED
  BY InitType, <1>1, PTL DEF Spec
-----------------------------------------------------------------------------
(* Guarded registration, when the managers share the lease.                *)

LEMMA CopyTransitive ==
  ASSUME NEW r, NEW s, NEW t, CopyOf(r, s), CopyOf(s, t)
  PROVE  CopyOf(r, t)
BY DEF CopyOf

(* What a cache may show depends on the plane and the finalizer only.      *)
LEMMA ShowsSame ==
  ASSUME NEW c, NEW d, NEW e, Shows(c, d), e.plane = d.plane, e.fin = d.fin
  PROVE  Shows(c, e)
BY DEF Shows, Guarded, Leaving

(* With one manager running, a step of it is right if what it leads to is. *)
LEMMA MoveGuard ==
  ASSUME GuardInv, TypeOK', NEW m \in Managers, NEW step \in Steps, NEW s,
         pc[m] # "down", step # "down",
         GoTo(m, step, s), UNCHANGED cache,
         current' \subseteq current, current' = {} \/ UNCHANGED dp,
         Shows(cache[m], dp'),
         fresh' \subseteq fresh \cup {m},
         step \in PhaseSteps => Guarded(dp'),
         step \in FinalizeSteps => s.plane = "deleting" /\ Leaving(dp'),
         step \in {"finInfra", "finRemove"} => argo'.cluster = NoCluster,
         m \in fresh' => step # "idle" /\ CopyOf(s, dp'),
         m \in fresh' /\ step \in FinalizeSteps \cup {"addFin"} => m \in current',
         step = "addFin" => s.plane = "live",
         DeletingIsGuarded', InfraGuarded', NoOrphanRegistration'
  PROVE  GuardInv'
<1>1. /\ pc'[m] = step /\ snap'[m] = s
      /\ \A n \in Managers : n # m => pc[n] = "down" /\ pc'[n] = "down"
  BY DEF GuardInv, TypeOK, OneRunning, GoTo
<1>2. fresh' \subseteq {m}
  BY DEF GuardInv, TypeOK, FreshCopy, OneRunning
<1>3. OneRunning' /\ GuardedPass' /\ StaysDeregistered' /\ AddsToLive'
  BY <1>1 DEF OneRunning, GuardedPass, StaysDeregistered, AddsToLive,
              PhaseSteps, FinalizeSteps
<1>4. FreshCopy'
  BY <1>1, <1>2 DEF FreshCopy
<1>5. CurrentCache'
  BY DEF GuardInv, CurrentCache
<1>6. CacheShows'
  <2>1. ASSUME NEW n \in Managers, n # m
        PROVE  /\ n \notin current' /\ cache[n].plane = "absent"
               /\ n \notin fresh'
    BY <1>1, <1>2, <2>1 DEF GuardInv, CacheShows
  <2>2. QED
    BY <1>1, <2>1 DEF CacheShows, Shows
<1>7. QED
  BY <1>3, <1>4, <1>5, <1>6 DEF GuardInv

(* Somebody else's step is right if it leaves the plane of a running pass. *)
LEMMA OtherGuard ==
  ASSUME GuardInv, TypeOK', UNCHANGED <<pc, snap, argo, cache>>,
         \/ UNCHANGED <<dp, fresh, current>>
         \/ /\ fresh' = {} /\ current' = {}
            /\ Guarded(dp) => Guarded(dp')
            /\ Leaving(dp) => Leaving(dp'),
         DeletingIsGuarded', InfraGuarded'
  PROVE  GuardInv'
<1>1. OneRunning' /\ StaysDeregistered' /\ AddsToLive'
  BY DEF GuardInv, OneRunning, StaysDeregistered, AddsToLive
<1>2. GuardedPass' /\ FreshCopy' /\ CurrentCache' /\ NoOrphanRegistration'
  BY DEF GuardInv, GuardedPass, FreshCopy, CurrentCache,
         NoOrphanRegistration, Guarded
<1>3. CacheShows'
  BY DEF GuardInv, CacheShows, Shows
<1>4. QED
  BY <1>1, <1>2, <1>3 DEF GuardInv

LEMMA InitGuard == Init => GuardInv
<1> SUFFICES ASSUME Init PROVE GuardInv
  OBVIOUS
<1>1. \A m \in Managers : pc[m] = "down" /\ cache[m].plane = "absent"
  BY DEF Init, NoPlane
<1>2. /\ dp.plane = "absent" /\ fresh = {} /\ current = {}
      /\ argo.cluster = NoCluster
      /\ \A k \in ManagedModes : infra[k] # "present"
  BY DEF Init, NoPlane, Unregistered
<1>3. CacheShows /\ CurrentCache /\ InfraGuarded
  BY <1>1, <1>2 DEF CacheShows, CurrentCache, InfraGuarded, Shows
<1>4. QED
  BY InitType, <1>1, <1>2, <1>3
     DEF GuardInv, OneRunning, GuardedPass, StaysDeregistered, FreshCopy,
         AddsToLive, DeletingIsGuarded, NoOrphanRegistration, PhaseSteps,
         FinalizeSteps

(* The manager starts when all others are down, with what the object is.   *)
LEMMA StartGuard ==
  ASSUME SharedElection, GuardInv, TypeOK', NEW m \in Managers, Start(m)
  PROVE  GuardInv'
<1>1. \A n \in Managers : pc[n] = "down"
  BY DEF Start, SharedElection
<1>2. /\ pc'[m] = "idle"
      /\ \A n \in Managers : n # m => pc'[n] = "down"
  BY <1>1 DEF Start, GuardInv, TypeOK
<1>3. fresh = {} /\ current = {}
  BY <1>1 DEF GuardInv, FreshCopy, CacheShows, TypeOK
<1>4. UNCHANGED <<dp, argo, infra, snap, fresh>>
  BY DEF Start, world
<1>5. /\ current' = {m} /\ cache'[m] = dp
      /\ \A n \in Managers : n # m => cache'[n].plane = "absent"
  BY <1>1, <1>3 DEF Start, ListWatch, GuardInv, TypeOK, CacheShows
<1>6. \A n \in Managers : pc'[n] \in {"down", "idle"}
  BY <1>2
<1>7. OneRunning'
  BY <1>2 DEF OneRunning
<1>8. GuardedPass' /\ StaysDeregistered' /\ AddsToLive'
  BY <1>6 DEF GuardedPass, StaysDeregistered, AddsToLive, PhaseSteps,
              FinalizeSteps
<1>9. /\ FreshCopy' /\ DeletingIsGuarded' /\ InfraGuarded'
      /\ NoOrphanRegistration'
  BY <1>3, <1>4 DEF GuardInv, FreshCopy, DeletingIsGuarded, InfraGuarded,
                    NoOrphanRegistration
<1>10. CurrentCache' /\ CacheShows'
  BY <1>2, <1>3, <1>4, <1>5
     DEF CurrentCache, CacheShows, Shows, Guarded, Leaving
<1>11. QED
  BY <1>7, <1>8, <1>9, <1>10 DEF GuardInv

(* The cache catches up with the object.                                   *)
LEMMA DeliverGuard ==
  ASSUME GuardInv, TypeOK', NEW m \in Managers, Deliver(m)
  PROVE  GuardInv'
<1>1. /\ UNCHANGED <<dp, argo, infra, pc, snap, fresh>> /\ pc[m] # "down"
      /\ current' = current \cup {m} /\ cache'[m] = dp
      /\ \A n \in Managers : n # m => cache'[n] = cache[n]
  BY DEF Deliver, ListWatch, world, GuardInv, TypeOK
<1>2. OneRunning' /\ GuardedPass' /\ StaysDeregistered' /\ AddsToLive'
  BY <1>1 DEF GuardInv, OneRunning, GuardedPass, StaysDeregistered, AddsToLive
<1>3. /\ FreshCopy' /\ DeletingIsGuarded' /\ InfraGuarded'
      /\ NoOrphanRegistration'
  BY <1>1 DEF GuardInv, FreshCopy, DeletingIsGuarded, InfraGuarded,
              NoOrphanRegistration
<1>4. CurrentCache'
  BY <1>1 DEF GuardInv, CurrentCache, TypeOK
<1>5. CacheShows'
  BY <1>1 DEF GuardInv, CacheShows, Shows, Guarded, Leaving
<1>6. QED
  BY <1>2, <1>3, <1>4, <1>5 DEF GuardInv

(* When the only running manager stops, nothing is left in flight.         *)
LEMMA StopGuard ==
  ASSUME GuardInv, TypeOK', NEW m \in Managers, Stop(m)
  PROVE  GuardInv'
<1>1. /\ pc[m] # "down" /\ pc'[m] = "down"
      /\ \A n \in Managers : n # m => pc[n] = "down" /\ pc'[n] = "down"
      /\ UNCHANGED <<dp, argo, infra>>
  BY DEF Stop, GoTo, world, GuardInv, TypeOK, OneRunning
<1>2. fresh' = {} /\ current' = {}
  BY <1>1 DEF Stop, GuardInv, TypeOK, FreshCopy, CacheShows
<1>3. \A n \in Managers : cache'[n].plane = "absent"
  BY <1>1 DEF Stop, NoPlane, GuardInv, TypeOK, CacheShows
<1>4. OneRunning' /\ GuardedPass' /\ StaysDeregistered' /\ AddsToLive'
  BY <1>1 DEF OneRunning, GuardedPass, StaysDeregistered, AddsToLive,
              PhaseSteps, FinalizeSteps
<1>5. FreshCopy' /\ CurrentCache' /\ CacheShows'
  BY <1>2, <1>3 DEF FreshCopy, CurrentCache, CacheShows, Shows
<1>6. DeletingIsGuarded' /\ InfraGuarded' /\ NoOrphanRegistration'
  BY <1>1 DEF GuardInv, DeletingIsGuarded, InfraGuarded, NoOrphanRegistration
<1>7. QED
  BY <1>4, <1>5, <1>6 DEF GuardInv

(* The end of a pass, whatever was written, when the writer is guarded.    *)
LEMMA UpdateAndEndGuard ==
  ASSUME GuardInv, TypeOK', NEW m \in Managers, NEW new,
         pc[m] # "down", UpdateAndEnd(m, new), UNCHANGED argo,
         m \in fresh => /\ Shows(cache[m], new)
                        /\ new.plane = "deleting" => new.fin
                        /\ argo.cluster # NoCluster => Guarded(new),
         InfraGuarded'
  PROVE  GuardInv'
<1>1. GoTo(m, "idle", NoPlane) /\ "idle" \in Steps /\ UNCHANGED cache
  BY DEF UpdateAndEnd, EndPass, Steps
<1>2. m \notin fresh' /\ fresh' \subseteq fresh
  BY DEF UpdateAndEnd
<1>3. current' \subseteq current /\ (current' = {} \/ UNCHANGED dp)
  BY DEF UpdateAndEnd, Store
<1>4. DeletingIsGuarded' /\ NoOrphanRegistration' /\ Shows(cache[m], dp')
  BY DEF UpdateAndEnd, Store, GuardInv, DeletingIsGuarded,
         NoOrphanRegistration, CacheShows, Guarded
<1>5. /\ "idle" \notin PhaseSteps \cup FinalizeSteps
      /\ "idle" \notin {"finInfra", "finRemove"} /\ "idle" # "addFin"
      /\ "idle" # "down" /\ fresh' \subseteq fresh \cup {m}
  BY <1>2 DEF PhaseSteps, FinalizeSteps
<1>6. QED
  BY <1>1, <1>2, <1>3, <1>4, <1>5, MoveGuard

LEMMA ManagerGuard ==
  ASSUME SharedElection, GuardInv, TypeOK', NEW m \in Managers,
         Start(m) \/ Deliver(m) \/ Reconcile(m) \/ Mishap(m)
  PROVE  GuardInv'
<1> USE DEF PhaseSteps, FinalizeSteps, Steps, informer
<1>s. /\ snap[m] \in DPObject /\ cache[m] \in DPObject /\ dp \in DPObject
      /\ pc[m] \in Steps
  BY DEF GuardInv, TypeOK
<1>g. /\ NoOrphanRegistration /\ DeletingIsGuarded /\ InfraGuarded
      /\ pc[m] \in PhaseSteps => Guarded(dp)
      /\ pc[m] \in FinalizeSteps => snap[m].plane = "deleting" /\ Leaving(dp)
      /\ pc[m] \in {"finInfra", "finRemove"} => argo.cluster = NoCluster
      /\ pc[m] = "addFin" => snap[m].plane = "live"
      /\ m \in fresh => CopyOf(snap[m], dp)
      /\ m \in current => cache[m] = dp
      /\ m \in fresh /\ pc[m] \in FinalizeSteps \cup {"addFin"} => m \in current
      /\ Shows(cache[m], dp)
  BY DEF GuardInv, GuardedPass, StaysDeregistered, FreshCopy, AddsToLive,
         CurrentCache, CacheShows
<1>p. ASSUME NEW step \in PhaseSteps, NEW s, pc[m] \in PhaseSteps,
             GoTo(m, step, s), CopyOf(s, snap[m]),
             UNCHANGED <<dp, fresh, cache, current>>, UNCHANGED argo
      PROVE  GuardInv'
  <2>1. m \in fresh => CopyOf(s, dp)
    BY <1>p, <1>g, CopyTransitive
  <2>2. DeletingIsGuarded' /\ InfraGuarded' /\ NoOrphanRegistration'
    BY <1>p, <1>g DEF DeletingIsGuarded, InfraGuarded, NoOrphanRegistration,
                      Guarded
  <2>3. /\ pc[m] # "down" /\ step \in Steps /\ step \notin {"down", "idle"}
        /\ step \notin FinalizeSteps \cup {"addFin"}
        /\ step \notin {"finInfra", "finRemove"} /\ step # "addFin"
        /\ fresh' \subseteq fresh \cup {m} /\ current' \subseteq current
        /\ Guarded(dp') /\ Shows(cache[m], dp')
        /\ m \in fresh' => CopyOf(s, dp')
    BY <1>p, <1>g, <2>1 DEF Shows, Guarded, Leaving
  <2>4. QED
    BY <1>p, <2>2, <2>3, MoveGuard
<1>1. CASE Start(m)
  BY <1>1, StartGuard
<1>2. CASE Begin(m)
  <2> DEFINE c == cache[m]
             step == FirstStep(c)
  <2>1. /\ step \in {"finArgo", "addFin", "probe", "applyInfra"}
        /\ step = "finArgo" => c.plane = "deleting"
        /\ step = "addFin" => c.plane = "live"
    BY DEF FirstStep
  <2>2. step \in {"probe", "applyInfra"} => c.plane = "live" /\ c.fin
    BY <1>2, <1>s, <2>1 DEF Begin, FirstStep, DPObject
  <2>3. /\ UNCHANGED <<dp, argo, infra, cache, current>>
        /\ pc[m] = "idle" /\ GoTo(m, step, c)
        /\ fresh' = fresh \cup (current \cap {m})
    BY <1>2 DEF Begin, world
  <2>4. m \in fresh' => m \in current /\ c = dp
    BY <1>g, <2>3 DEF GuardInv, FreshCopy
  <2>5. DeletingIsGuarded' /\ InfraGuarded' /\ NoOrphanRegistration'
    BY <1>g, <2>3 DEF DeletingIsGuarded, InfraGuarded, NoOrphanRegistration,
                      Guarded
  <2>6. /\ step \in PhaseSteps => Guarded(dp')
        /\ step \in FinalizeSteps => c.plane = "deleting" /\ Leaving(dp')
        /\ Shows(c, dp')
    BY <1>g, <2>1, <2>2, <2>3 DEF Shows, Guarded, Leaving
  <2>7. m \in fresh' => m \in current' /\ CopyOf(c, dp')
    BY <2>3, <2>4 DEF CopyOf
  <2> HIDE DEF step, c
  <2>8. QED
    BY <2>1, <2>3, <2>5, <2>6, <2>7, MoveGuard DEF c
<1>3. CASE AddFinalizer(m)
  <2> DEFINE new == WithFinalizer(snap[m])
  <2>1. new.fin /\ new.plane = "live"
    BY <1>3, <1>s, <1>g, WithFinalizerFacts DEF AddFinalizer
  <2>2. m \in fresh => cache[m] = dp /\ dp.plane = "live"
    BY <1>3, <1>g DEF AddFinalizer, CopyOf
  <2>3. pc[m] # "down" /\ UpdateAndEnd(m, new) /\ UNCHANGED <<argo, infra>>
    BY <1>3 DEF AddFinalizer, world
  <2> HIDE DEF new
  <2>4. m \in fresh => Guarded(new) /\ Shows(cache[m], new)
    BY <2>1, <2>2 DEF Shows, Guarded
  <2>5. InfraGuarded'
    BY <1>g, <2>3, <2>4 DEF InfraGuarded, UpdateAndEnd, Store
  <2>6. QED
    BY <2>1, <2>3, <2>4, <2>5, UpdateAndEndGuard
<1>4. CASE ApplyInfra(m)
  <2>1. AfterApply(snap[m]) \in PhaseSteps
    BY DEF AfterApply
  <2>2. QED
    BY <1>4, <1>p, <2>1 DEF ApplyInfra, CopyOf
<1>5. CASE RecordRef(m)
  <2>1. CASE m \in fresh
    <3>1. /\ dp' = WithRef(snap[m]) /\ fresh' = {m} /\ current' = {}
          /\ GoTo(m, "probe", WithRef(snap[m]))
          /\ UNCHANGED <<argo, infra, cache>> /\ pc[m] = "recordRef"
      BY <1>5, <2>1 DEF RecordRef, world
    <3>2. dp'.plane = dp.plane /\ dp'.fin = dp.fin
      BY <1>s, <1>g, <2>1, <3>1, WithRefFacts DEF CopyOf
    <3>3. Guarded(dp) /\ Guarded(dp')
      BY <1>g, <3>1, <3>2 DEF Guarded
    <3>4. DeletingIsGuarded' /\ InfraGuarded' /\ NoOrphanRegistration'
      BY <3>3 DEF DeletingIsGuarded, InfraGuarded, NoOrphanRegistration, Guarded
    <3>5. CopyOf(WithRef(snap[m]), dp') /\ Shows(cache[m], dp')
      BY <1>g, <3>1, <3>2, ShowsSame DEF CopyOf
    <3>6. QED
      BY <3>1, <3>3, <3>4, <3>5, MoveGuard
  <2>2. CASE m \notin fresh
    <3>1. CopyOf(Failed(snap[m], "Infra"), snap[m])
      BY <1>s, FailedFacts DEF Conditions
    <3>2. QED
      BY <1>5, <1>p, <2>2, <3>1 DEF RecordRef, world
  <2>3. QED
    BY <2>1, <2>2
<1>6. CASE Probe(m)
  <2>1. /\ CopyOf(SetCond(snap[m], "Infra", "True"), snap[m])
        /\ CopyOf(Failed(snap[m], "Infra"), snap[m])
        /\ CopyOf(Held(snap[m], "Infra"), snap[m])
    BY <1>s, SetCondFacts, FailedFacts, HeldFacts
       DEF Conditions, CondStatus, GatingPhases
  <2>2. QED
    BY <1>6, <1>p, <2>1 DEF Probe, world
<1>7. CASE Register(m)
  <2> DEFINE s == SetCond(snap[m], "Registered", "True")
             c == kubeconfig[SecretOf(snap[m].mode)]
  <2>1. CopyOf(s, snap[m]) /\ CopyOf(Failed(snap[m], "Registered"), snap[m])
    BY <1>s, SetCondFacts, FailedFacts DEF Conditions, CondStatus
  <2>2. CASE c = NoCluster
    BY <1>7, <1>p, <2>1, <2>2 DEF Register
  <2>3. CASE c # NoCluster
    <3>1. /\ pc[m] = "register" /\ UNCHANGED <<dp, fresh, infra, cache, current>>
          /\ GoTo(m, "agents", s)
      BY <1>7, <2>3 DEF Register
    <3>2. DeletingIsGuarded' /\ InfraGuarded' /\ NoOrphanRegistration'
      BY <1>g, <3>1 DEF DeletingIsGuarded, InfraGuarded, NoOrphanRegistration,
                        Guarded
    <3>3. m \in fresh => CopyOf(s, dp)
      BY <1>g, <2>1, CopyTransitive
    <3>4. Guarded(dp') /\ Shows(cache[m], dp') /\ (m \in fresh' => CopyOf(s, dp'))
      BY <1>g, <3>1, <3>3 DEF Guarded, Shows, Leaving
    <3> HIDE DEF s
    <3>5. QED
      BY <3>1, <3>2, <3>4, MoveGuard
  <2>4. QED
    BY <2>2, <2>3
<1>8. CASE CheckAgents(m)
  <2> DEFINE t == SetCond(snap[m], "Agents", "True")
             u == SetCond(t, "Mesh", CondFrom(FALSE))
  <2>1. t \in DPObject /\ CopyOf(t, snap[m])
    BY <1>s, SetCondFacts DEF Conditions, CondStatus
  <2>2. CopyOf(u, t)
    BY <2>1, SetCondFacts DEF Conditions, CondStatus, CondFrom
  <2>3. CopyOf(u, snap[m])
    BY <2>1, <2>2, CopyTransitive
  <2>4. CopyOf(Held(snap[m], "Agents"), snap[m])
    BY <1>s, HeldFacts DEF GatingPhases
  <2> HIDE DEF t, u
  <2>5. PICK step \in {"mesh", "observe", "commit"},
             s \in {t, u, Held(snap[m], "Agents")} : GoTo(m, step, s)
    BY <1>8 DEF CheckAgents, t, u
  <2>6. pc[m] = "agents" /\ UNCHANGED <<dp, fresh, cache, current>>
        /\ UNCHANGED argo
    BY <1>8 DEF CheckAgents, world
  <2>7. QED
    BY <1>p, <2>1, <2>3, <2>4, <2>5, <2>6
<1>9. CASE JoinMesh(m)
  <2> DEFINE t == SetCond(snap[m], "Mesh", CondFrom(TRUE))
  <2>1. CopyOf(t, snap[m])
    BY <1>s, SetCondFacts DEF Conditions, CondStatus, CondFrom
  <2>2. /\ pc[m] = "mesh" /\ GoTo(m, "observe", t)
        /\ UNCHANGED <<dp, fresh, cache, current>> /\ UNCHANGED argo
    BY <1>9 DEF JoinMesh
  <2> HIDE DEF t
  <2>3. QED
    BY <1>p, <2>1, <2>2
<1>10. CASE Observe(m)
  <2>1. /\ CopyOf(Aggregated(snap[m]), snap[m])
        /\ CopyOf(Failed(snap[m], "Obs"), snap[m])
    BY <1>s, AggregatedFacts, FailedFacts DEF Conditions
  <2>2. QED
    BY <1>10, <1>p, <2>1 DEF Observe
<1>11. CASE Commit(m)
  <2> DEFINE new == WithStatus(dp, snap[m])
  <2>1. CopyOf(new, dp)
    BY <1>s, WithStatusFacts
  <2>2. new.plane = dp.plane /\ new.fin = dp.fin
    BY <2>1 DEF CopyOf
  <2>3. pc[m] = "commit" /\ UpdateAndEnd(m, new) /\ UNCHANGED <<argo, infra>>
    BY <1>11 DEF Commit, world
  <2> HIDE DEF new
  <2>4. Guarded(new) /\ Shows(cache[m], new)
    BY <1>g, <2>2, <2>3, ShowsSame DEF Guarded
  <2>5. InfraGuarded'
    BY <1>g, <2>3, <2>4 DEF InfraGuarded, UpdateAndEnd, Store
  <2>6. QED
    BY <2>3, <2>4, <2>5, UpdateAndEndGuard DEF Guarded
<1>12. ASSUME NEW step \in {"finInfra", "finRemove"},
              pc[m] \in FinalizeSteps, GoTo(m, step, snap[m]),
              UNCHANGED <<dp, fresh, cache, current>>,
              argo'.cluster = NoCluster, InfraGuarded'
       PROVE  GuardInv'
  <2>1. DeletingIsGuarded' /\ NoOrphanRegistration'
    BY <1>12, <1>g DEF DeletingIsGuarded, NoOrphanRegistration
  <2>2. /\ pc[m] # "down" /\ step \in Steps /\ step \notin {"down", "idle"}
        /\ step \notin PhaseSteps /\ step # "addFin"
        /\ fresh' \subseteq fresh \cup {m} /\ current' \subseteq current
        /\ snap[m].plane = "deleting" /\ Leaving(dp') /\ Shows(cache[m], dp')
        /\ m \in fresh' => m \in current' /\ CopyOf(snap[m], dp')
    BY <1>12, <1>g DEF Leaving, Shows, Guarded
  <2>3. QED
    BY <1>12, <2>1, <2>2, MoveGuard
<1>13. CASE Deregister(m)
  <2>1. /\ pc[m] = "finArgo" /\ argo'.cluster = NoCluster
        /\ UNCHANGED <<dp, fresh, infra, cache, current>>
    BY <1>13 DEF Deregister, Unregistered
  <2>2. InfraGuarded'
    BY <1>g, <2>1 DEF InfraGuarded, Guarded
  <2>3. PICK step \in {"finInfra", "finRemove"} : GoTo(m, step, snap[m])
    BY <1>13 DEF Deregister
  <2>4. QED
    BY <1>12, <2>1, <2>2, <2>3
<1>14. CASE DeleteInfra(m)
  <2>1. /\ pc[m] = "finInfra" /\ UNCHANGED argo
        /\ UNCHANGED <<dp, fresh, cache, current>>
        /\ GoTo(m, "finRemove", snap[m])
    BY <1>14 DEF DeleteInfra
  <2>2. \A k \in ManagedModes : infra'[k] = "present" => infra[k] = "present"
    BY <1>14 DEF DeleteInfra, GuardInv, TypeOK
  <2>3. InfraGuarded'
    BY <1>g, <2>1, <2>2 DEF InfraGuarded, Guarded
  <2>4. QED
    BY <1>12, <1>g, <2>1, <2>3
<1>15. CASE RemoveFinalizer(m)
  <2>1. /\ pc[m] = "finRemove" /\ UpdateAndEnd(m, NoPlane) /\ UNCHANGED argo
        /\ argo.cluster = NoCluster
        /\ NoPlane.plane = "absent" /\ ~NoPlane.fin
    BY <1>15, <1>g DEF RemoveFinalizer, NoPlane
  <2>2. m \in fresh => cache[m].plane = "deleting"
    BY <1>g, <2>1 DEF CopyOf
  <2>3. m \in fresh => Shows(cache[m], NoPlane)
    BY <2>1, <2>2 DEF Shows, Leaving
  <2>4. \A k \in ManagedModes : Disowned[k] # "present"
    BY DEF Disowned
  <2>5. InfraGuarded'
    BY <1>15, <1>g, <2>1, <2>4
       DEF RemoveFinalizer, InfraGuarded, UpdateAndEnd, Guarded
  <2>6. QED
    BY <2>1, <2>3, <2>5, UpdateAndEndGuard
<1>16. CASE Stop(m)
  BY <1>16, StopGuard
<1>17. CASE SkipInfra(m)
  <2>1. AfterApply(snap[m]) \in PhaseSteps
    BY DEF AfterApply
  <2>2. QED
    BY <1>17, <1>p, <2>1 DEF SkipInfra, CopyOf, world
<1>18. CASE RegistrationUnseen(m)
  <2>1. CopyOf(Held(snap[m], "Agents"), snap[m])
    BY <1>s, HeldFacts DEF GatingPhases
  <2>2. QED
    BY <1>18, <1>p, <2>1 DEF RegistrationUnseen, world
<1>19. CASE CallFails(m)
  <2>1. CopyOf(Failed(snap[m], PhaseCondition(pc[m])), snap[m])
    BY <1>s, PhaseConditionType, FailedFacts
  <2>2. CASE pc[m] \in PhaseSteps \ {"commit"}
    BY <1>19, <1>p, <2>1, <2>2 DEF CallFails, world
  <2>3. CASE pc[m] \in FinalizeSteps \cup {"addFin", "commit"}
    <3>1. /\ GoTo(m, "idle", NoPlane) /\ fresh' = fresh \ {m}
          /\ UNCHANGED <<dp, argo, infra, cache, current>>
      BY <1>19, <2>3 DEF CallFails, EndPass, world
    <3>2. DeletingIsGuarded' /\ InfraGuarded' /\ NoOrphanRegistration'
      BY <1>g, <3>1 DEF DeletingIsGuarded, InfraGuarded, NoOrphanRegistration,
                        Guarded
    <3>3. Shows(cache[m], dp')
      BY <1>g, <3>1 DEF Shows, Guarded, Leaving
    <3>4. QED
      BY <2>3, <3>1, <3>2, <3>3, MoveGuard
  <2>4. QED
    BY <1>19, <2>2, <2>3 DEF CallFails
<1>20. CASE Deliver(m)
  BY <1>20, DeliverGuard
<1>21. QED
  BY <1>1, <1>2, <1>3, <1>4, <1>5, <1>6, <1>7, <1>8, <1>9, <1>10, <1>11,
     <1>13, <1>14, <1>15, <1>16, <1>17, <1>18, <1>19, <1>20
     DEF Reconcile, Phase, Finalize, Mishap

LEMMA EnvironmentGuard ==
  ASSUME GuardInv, TypeOK', Environment
  PROVE  GuardInv'
<1> USE DEF world, control, informer
<1>s. dp \in DPObject /\ DeletingIsGuarded /\ InfraGuarded
  BY DEF GuardInv, TypeOK
<1>1. CASE CreatePlane
  <2>1. dp.plane = "absent" /\ dp'.plane = "live" /\ ~dp'.fin
    BY <1>1, CreatedFacts DEF CreatePlane
  <2>2. InfraGuarded' /\ DeletingIsGuarded'
    BY <1>1, <1>s, <2>1
       DEF CreatePlane, InfraGuarded, DeletingIsGuarded, Guarded
  <2>3. QED
    BY <1>1, <2>1, <2>2, OtherGuard DEF CreatePlane, Guarded, Leaving
<1>2. CASE EditPlane
  <2>1. dp'.plane = dp.plane /\ dp'.fin = dp.fin
    BY <1>2, <1>s, EditedFacts DEF EditPlane
  <2>2. InfraGuarded' /\ DeletingIsGuarded'
    BY <1>2, <1>s, <2>1
       DEF EditPlane, InfraGuarded, DeletingIsGuarded, Guarded
  <2>3. QED
    BY <1>2, <2>1, <2>2, OtherGuard DEF EditPlane, Guarded, Leaving
<1>3. CASE DeletePlane
  <2>1. dp.fin => dp'.plane = "deleting" /\ dp'.fin /\ UNCHANGED infra
    BY <1>3, <1>s, MarkedDeletedFacts DEF DeletePlane
  <2>2. ~dp.fin => dp'.plane = "absent" /\ ~dp'.fin /\ infra' = Disowned
    BY <1>3 DEF DeletePlane, NoPlane
  <2>3. \A k \in ManagedModes : Disowned[k] # "present"
    BY DEF Disowned
  <2>4. InfraGuarded' /\ DeletingIsGuarded'
    BY <1>s, <2>1, <2>2, <2>3 DEF InfraGuarded, DeletingIsGuarded, Guarded
  <2>5. QED
    BY <1>3, <2>1, <2>2, <2>4, OtherGuard DEF DeletePlane, Guarded, Leaving
<1>4. ASSUME UNCHANGED <<dp, argo, control>>,
             \A k \in ManagedModes : infra'[k] = "present" => infra[k] = "present"
      PROVE  GuardInv'
  BY <1>s, <1>4, OtherGuard DEF DeletingIsGuarded, InfraGuarded, Guarded
<1>5. CASE InfraGone \/ CollectOrphan
  BY <1>4, <1>5 DEF InfraGone, CollectOrphan, GuardInv, TypeOK
<1>6. CASE UNCHANGED <<dp, argo, infra, control>>
  BY <1>4, <1>6
<1>7. QED
  BY <1>1, <1>2, <1>3, <1>5, <1>6
     DEF Environment, UserEdits, SupplyKubeconfig, PublishKubeconfig,
         ClusterUp, ClusterDown, AppsDegrade, AppsRecover

(* While all managers share the lease, the guard holds throughout.         *)
LEMMA GuardInvariant ==
  ASSUME SharedElection
  PROVE  Spec => []GuardInv
<1>1. GuardInv /\ [Next]_vars => GuardInv'
  <2> SUFFICES ASSUME GuardInv, [Next]_vars PROVE GuardInv'
    OBVIOUS
  <2>1. TypeOK'
    BY ManagerType, EnvironmentType, StutterType DEF GuardInv, Next
  <2>2. CASE UNCHANGED vars
    BY <2>1, <2>2, OtherGuard
       DEF vars, world, control, informer, GuardInv, DeletingIsGuarded,
           InfraGuarded, Guarded
  <2>3. CASE Next
    BY <2>1, <2>3, ManagerGuard, EnvironmentGuard DEF Next
  <2>4. QED
    BY <2>2, <2>3
<1>2. QED
  BY InitGuard, <1>1, PTL DEF Spec

(* A cluster secret in ArgoCD belongs to a plane that exists and carries   *)
(* the finalizer that will remove it: deletions, edits, crashes and API    *)
(* faults between any two calls of a pass leave no registration behind, as *)
(* long as every manager takes part in leader election.                    *)
THEOREM NoOrphans ==
  ASSUME SharedElection
  PROVE  Spec => []NoOrphanRegistration
<1>1. GuardInv => NoOrphanRegistration
  BY DEF GuardInv
<1>2. QED
  BY GuardInvariant, <1>1, PTL

(* Managed infrastructure that nobody deletes belongs to a plane with the   *)
(* finalizer, whatever stale copy a pass applied it from.                  *)
THEOREM InfraIsGuarded ==
  ASSUME SharedElection
  PROVE  Spec => []InfraGuarded
<1>1. GuardInv => InfraGuarded
  BY DEF GuardInv
<1>2. QED
  BY GuardInvariant, <1>1, PTL

-----------------------------------------------------------------------------
(* The controller implements PlaneLifecycle.                               *)

(* What each step does to the life of the plane: the plane and its         *)
(* finalizer on one side, the registration on the other.                   *)
LEMMA ManagerLife ==
  ASSUME GuardInv, NEW m \in Managers, Start(m) \/ Deliver(m) \/ Reconcile(m) \/ Mishap(m)
  PROVE  \/ /\ dp'.plane = dp.plane /\ dp'.fin = dp.fin
            /\ argo'.cluster = argo.cluster
         \/ /\ dp.plane = "live" /\ dp'.plane = "live" /\ dp'.fin
            /\ argo'.cluster = argo.cluster
         \/ /\ dp.plane # "absent" /\ dp.fin /\ UNCHANGED dp
            /\ argo'.cluster # NoCluster
         \/ /\ dp.plane = "deleting" /\ UNCHANGED dp
            /\ argo'.cluster = NoCluster
         \/ /\ dp.plane = "deleting" /\ dp'.plane = "absent"
            /\ argo.cluster = NoCluster /\ argo'.cluster = argo.cluster
<1> USE DEF PhaseSteps, FinalizeSteps
<1>s. snap[m] \in DPObject /\ dp \in DPObject
  BY DEF GuardInv, TypeOK
<1>g. /\ pc[m] \in PhaseSteps => Guarded(dp)
      /\ pc[m] \in FinalizeSteps => snap[m].plane = "deleting" /\ Leaving(dp)
      /\ NoOrphanRegistration
      /\ pc[m] \in {"finInfra", "finRemove"} => argo.cluster = NoCluster
      /\ pc[m] = "addFin" => snap[m].plane = "live"
      /\ m \in fresh => CopyOf(snap[m], dp)
  BY DEF GuardInv, GuardedPass, StaysDeregistered, FreshCopy, AddsToLive
<1>1. CASE AddFinalizer(m)
  <2>1. WithFinalizer(snap[m]).fin /\ WithFinalizer(snap[m]).plane = "live"
    BY <1>1, <1>s, <1>g, WithFinalizerFacts DEF AddFinalizer
  <2>2. m \in fresh => dp.plane = "live"
    BY <1>1, <1>g DEF AddFinalizer, CopyOf
  <2>3. QED
    BY <1>1, <2>1, <2>2 DEF AddFinalizer, UpdateAndEnd, Store, world
<1>2. CASE RecordRef(m)
  <2>1. m \in fresh => /\ WithRef(snap[m]).plane = dp.plane
                       /\ WithRef(snap[m]).fin = dp.fin
    BY <1>s, <1>g, WithRefFacts DEF CopyOf
  <2>2. QED
    BY <1>2, <2>1 DEF RecordRef, world
<1>3. CASE Register(m)
  BY <1>3, <1>g DEF Register, Guarded
<1>4. CASE Commit(m)
  <2>1. CopyOf(WithStatus(dp, snap[m]), dp)
    BY <1>s, WithStatusFacts
  <2>2. QED
    BY <1>4, <2>1 DEF Commit, UpdateAndEnd, Store, CopyOf, world
<1>5. CASE Deregister(m)
  BY <1>5, <1>g DEF Deregister, Unregistered, Leaving, NoOrphanRegistration
<1>6. CASE RemoveFinalizer(m)
  BY <1>6, <1>g DEF RemoveFinalizer, UpdateAndEnd, Store, NoPlane, CopyOf
<1>7. CASE UNCHANGED <<dp, argo>>
  BY <1>7
<1>8. QED
  BY <1>1, <1>2, <1>3, <1>4, <1>5, <1>6, <1>7
     DEF Reconcile, Phase, Finalize, Mishap, Start, Deliver, Begin, ApplyInfra,
         RegistrationUnseen, Probe,
         CheckAgents, JoinMesh, Observe, DeleteInfra, Stop, SkipInfra,
         CallFails, world

LEMMA EnvironmentLife ==
  ASSUME GuardInv, Environment
  PROVE  /\ argo'.cluster = argo.cluster
         /\ \/ dp'.plane = dp.plane /\ dp'.fin = dp.fin
            \/ dp.plane = "absent" /\ dp'.plane = "live" /\ ~dp'.fin
            \/ dp.plane = "live" /\ dp.fin /\ dp'.plane = "deleting"
            \/ dp.plane = "live" /\ ~dp.fin /\ dp'.plane = "absent"
<1> USE DEF world, control
<1>s. dp \in DPObject
  BY DEF GuardInv, TypeOK
<1>1. CASE CreatePlane
  BY <1>1, CreatedFacts DEF CreatePlane
<1>2. CASE EditPlane
  BY <1>2, <1>s, EditedFacts DEF EditPlane
<1>3. CASE DeletePlane
  BY <1>3, <1>s, MarkedDeletedFacts DEF DeletePlane, NoPlane
<1>4. CASE UNCHANGED <<dp, argo>>
  BY <1>4
<1>5. QED
  BY <1>1, <1>2, <1>3, <1>4
     DEF Environment, UserEdits, SupplyKubeconfig, PublishKubeconfig,
         ClusterUp, ClusterDown, AppsDegrade, AppsRecover, InfraGone,
         CollectOrphan

LEMMA LifeStep == GuardInv /\ [Next]_vars => [Life!LifeNext]_(Life!lifeVars)
<1> SUFFICES ASSUME GuardInv, [Next]_vars
             PROVE  [Life!LifeNext]_(Life!lifeVars)
  OBVIOUS
<1> USE DEF PlaneState, Life!LifeNext, Life!lifeVars
<1>t. dp.plane \in {"absent", "live", "deleting"} /\ dp.fin \in BOOLEAN
  BY DEF GuardInv, TypeOK, DPObject
<1>g. argo.cluster # NoCluster => dp.plane # "absent" /\ dp.fin
  BY DEF GuardInv, NoOrphanRegistration
<1>1. CASE /\ dp'.plane = dp.plane /\ dp'.fin = dp.fin
           /\ argo'.cluster = argo.cluster
  BY <1>1
<1>2. CASE /\ dp.plane = "live" /\ dp'.plane = "live" /\ dp'.fin
           /\ argo'.cluster = argo.cluster
  BY <1>2, <1>t DEF Life!Guard
<1>3. CASE /\ dp.plane # "absent" /\ dp.fin /\ UNCHANGED dp
           /\ argo'.cluster # NoCluster
  BY <1>3, <1>t DEF Life!RegisterCluster
<1>4. CASE /\ dp.plane = "deleting" /\ UNCHANGED dp
           /\ argo'.cluster = NoCluster
  BY <1>4, <1>t DEF Life!DeregisterCluster
<1>5. CASE /\ dp.plane = "deleting" /\ dp'.plane = "absent"
           /\ argo.cluster = NoCluster /\ argo'.cluster = argo.cluster
  BY <1>5 DEF Life!Remove
<1>6. CASE /\ dp.plane = "absent" /\ dp'.plane = "live" /\ ~dp'.fin
           /\ argo'.cluster = argo.cluster
  BY <1>6 DEF Life!Create
<1>7. CASE /\ dp.plane = "live" /\ dp.fin /\ dp'.plane = "deleting"
           /\ argo'.cluster = argo.cluster
  BY <1>7 DEF Life!MarkDeleted
<1>8. CASE /\ dp.plane = "live" /\ ~dp.fin /\ dp'.plane = "absent"
           /\ argo'.cluster = argo.cluster
  BY <1>8 DEF Life!Discard
<1>9. CASE UNCHANGED vars
  BY <1>9 DEF vars, world
<1>10. CASE Next
  BY <1>10, <1>1, <1>2, <1>3, <1>4, <1>5, <1>6, <1>7, <1>8, ManagerLife,
     EnvironmentLife DEF Next
<1>11. QED
  BY <1>9, <1>10

(* A plane is registered only while guarded, deregistered only while being *)
(* deleted, and gone only once deregistered: every behaviour of the        *)
(* controller is one of PlaneLifecycle.                                    *)
THEOREM LifecycleImplemented ==
  ASSUME SharedElection
  PROVE  Spec => ImplementsLifecycle
<1>1. Init => Life!LifeInit
  BY DEF Init, NoPlane, Unregistered, PlaneState, Life!LifeInit
<1>2. QED
  BY GuardInvariant, <1>1, LifeStep, PTL
     DEF Spec, ImplementsLifecycle, Life!LifeSpec

-----------------------------------------------------------------------------
(* What a live plane keeps.                                                *)

KeepsResources ==
  dp.plane = "live" /\ dp'.plane = "live" =>
    /\ argo.cluster # NoCluster => argo'.cluster # NoCluster
    /\ \A k \in ManagedModes : infra[k] = "present" => infra'[k] = "present"

LEMMA KeepsStep ==
  ASSUME GuardInv, [Next]_vars
  PROVE  KeepsResources
<1> USE DEF world, control
<1>t. infra \in [ManagedModes -> InfraState] /\ dp \in DPObject
  BY DEF GuardInv, TypeOK
<1>1. ASSUME NEW m \in Managers, Start(m) \/ Deliver(m) \/ Reconcile(m) \/ Mishap(m)
      PROVE  KeepsResources
  <2>g. /\ pc[m] \in FinalizeSteps =>
             \/ dp.plane = "deleting"
             \/ /\ argo.cluster = NoCluster
                /\ \A k \in ManagedModes : infra[k] # "present"
        /\ snap[m] \in DPObject
        /\ m \in fresh => CopyOf(snap[m], dp)
    BY DEF GuardInv, GuardedPass, FreshCopy, Leaving, Guarded, InfraGuarded,
           NoOrphanRegistration, TypeOK
  <2>1. CASE ApplyInfra(m)
    <3>1. snap[m].mode \in ManagedModes \/ infra' = infra
      BY <1>t, <2>1 DEF ApplyInfra
    <3>2. QED
      BY <1>t, <2>1, <3>1 DEF ApplyInfra, KeepsResources
  <2>2. CASE Register(m)
    BY <2>2 DEF Register, KeepsResources
  <2>3. CASE Deregister(m) \/ DeleteInfra(m)
    <3>1. pc[m] \in FinalizeSteps /\ (UNCHANGED argo \/ UNCHANGED infra)
      BY <2>3 DEF Deregister, DeleteInfra, FinalizeSteps
    <3>2. UNCHANGED dp
      BY <2>3 DEF Deregister, DeleteInfra
    <3>3. QED
      BY <2>g, <3>1, <3>2 DEF KeepsResources
  <2>4. CASE RemoveFinalizer(m)
    <3>1. m \in fresh => dp'.plane = "absent"
      BY <2>4 DEF RemoveFinalizer, UpdateAndEnd, Store, NoPlane
    <3>2. QED
      BY <2>4, <3>1 DEF RemoveFinalizer, KeepsResources
  <2>5. CASE UNCHANGED <<argo, infra>>
    BY <2>5 DEF KeepsResources
  <2>6. QED
    BY <1>1, <2>1, <2>2, <2>3, <2>4, <2>5
       DEF Reconcile, Phase, Finalize, Mishap, Start, Deliver, Begin, AddFinalizer,
           RecordRef, Probe, CheckAgents, JoinMesh, Observe, Commit, Stop,
           SkipInfra, RegistrationUnseen, CallFails
<1>2. ASSUME Environment
      PROVE  KeepsResources
  <2>1. CASE DeletePlane
    BY <1>t, <2>1, MarkedDeletedFacts
       DEF DeletePlane, NoPlane, KeepsResources
  <2>2. CASE InfraGone \/ CollectOrphan
    BY <1>t, <2>2 DEF InfraGone, CollectOrphan, KeepsResources
  <2>3. CASE UNCHANGED <<argo, infra>>
    BY <2>3 DEF KeepsResources
  <2>4. QED
    BY <1>2, <2>1, <2>2, <2>3
       DEF Environment, UserEdits, CreatePlane, EditPlane, SupplyKubeconfig,
           PublishKubeconfig, ClusterUp, ClusterDown, AppsDegrade, AppsRecover
<1>3. CASE UNCHANGED vars
  BY <1>3 DEF vars, KeepsResources
<1>4. QED
  BY <1>1, <1>2, <1>3 DEF Next

(* Neither the registration nor the infrastructure of a live plane goes:   *)
(* finalize cannot act on an object that is not the one it was called for. *)
THEOREM LiveKeeps ==
  ASSUME SharedElection
  PROVE  Spec => LivePlaneKeepsResources
BY GuardInvariant, KeepsStep, PTL
   DEF Spec, LivePlaneKeepsResources, KeepsResources

-----------------------------------------------------------------------------
(* Ready in one piece, whoever else runs.                                  *)

LEMMA MoveReady ==
  ASSUME ReadyInv, TypeOK', NEW m \in Managers, NEW step \in Steps, NEW s,
         GoTo(m, step, s), CurrentCache',
         \/ UNCHANGED dp /\ fresh' \subseteq fresh \cup {m}
         \/ fresh' \subseteq {m},
         step \in {"register", "agents", "mesh", "observe"} =>
           s.conds["Infra"] = "True",
         step \in {"agents", "mesh", "observe"} =>
           s.conds["Registered"] = "True",
         step \in {"mesh", "observe"} => s.conds["Agents"] = "True",
         step = "mesh" => s.mesh,
         step = "observe" => s.conds["Mesh"] = CondFrom(s.mesh),
         m \in fresh' =>
           /\ step \notin {"down", "idle"} /\ CopyOf(s, dp')
           /\ \/ s.conds["Ready"] = dp'.conds["Ready"]
              \/ /\ step = "commit"
                 /\ \/ s.conds["Ready"] = "False"
                    \/ AllPhasesTrue(s) /\ s.ogen = s.gen
  PROVE  ReadyInv'
<1>1. /\ pc'[m] = step /\ snap'[m] = s
      /\ \A n \in Managers : n # m => pc'[n] = pc[n] /\ snap'[n] = snap[n]
  BY DEF ReadyInv, TypeOK, GoTo
<1>2. \A n \in fresh' : n # m => n \in fresh /\ UNCHANGED dp
  OBVIOUS
<1>3. fresh' \subseteq Managers
  BY DEF TypeOK
<1>4. FreshCopy'
  BY <1>1, <1>2, <1>3 DEF ReadyInv, FreshCopy
<1>5. ConditionsOK'
  BY <1>1, <1>2 DEF ReadyInv, ConditionsOK
<1>6. QED
  BY <1>4, <1>5 DEF ReadyInv

LEMMA OtherReady ==
  ASSUME ReadyInv, TypeOK', UNCHANGED <<pc, snap>>,
         UNCHANGED <<dp, fresh>> \/ fresh' = {},
         UNCHANGED <<dp, cache, current>> \/ current' = {}
  PROVE  ReadyInv'
<1>1. FreshCopy'
  BY DEF ReadyInv, FreshCopy
<1>2. ConditionsOK'
  BY DEF ReadyInv, ConditionsOK
<1>3. CurrentCache'
  BY DEF ReadyInv, CurrentCache
<1>4. QED
  BY <1>1, <1>2, <1>3 DEF ReadyInv

LEMMA InitReady == Init => ReadyInv
<1> SUFFICES ASSUME Init PROVE ReadyInv
  OBVIOUS
<1>1. fresh = {} /\ current = {} /\ \A m \in Managers : pc[m] = "down"
  BY DEF Init
<1>2. QED
  BY <1>1, InitType DEF ReadyInv, FreshCopy, CurrentCache, ConditionsOK

LEMMA ManagerReady ==
  ASSUME ReadyInv, TypeOK', NEW m \in Managers,
         Start(m) \/ Deliver(m) \/ Reconcile(m) \/ Mishap(m)
  PROVE  ReadyInv'
<1> USE DEF PhaseSteps, FinalizeSteps, Steps, informer
<1>s. snap[m] \in DPObject /\ cache[m] \in DPObject /\ dp \in DPObject /\ pc[m] \in Steps
  BY DEF ReadyInv, TypeOK
<1>i. /\ pc[m] \in {"register", "agents", "mesh", "observe"} =>
           snap[m].conds["Infra"] = "True"
      /\ pc[m] \in {"agents", "mesh", "observe"} =>
           snap[m].conds["Registered"] = "True"
      /\ pc[m] \in {"mesh", "observe"} => snap[m].conds["Agents"] = "True"
      /\ pc[m] = "mesh" => snap[m].mesh
      /\ pc[m] = "observe" => snap[m].conds["Mesh"] = CondFrom(snap[m].mesh)
      /\ m \in fresh =>
           /\ CopyOf(snap[m], dp) /\ pc[m] \notin {"down", "idle"}
           /\ pc[m] # "commit" => snap[m].conds["Ready"] = dp.conds["Ready"]
      /\ m \in current => cache[m] = dp
  BY DEF ReadyInv, ConditionsOK, FreshCopy, CurrentCache
<1>c. ASSUME UNCHANGED cache, current' \subseteq current,
             UNCHANGED dp \/ current' = {}
      PROVE  CurrentCache'
  BY <1>c DEF ReadyInv, CurrentCache
<1>f. /\ "Infra" \in Conditions /\ "Registered" \in Conditions /\ "Obs" \in Conditions
      /\ "True" \in CondStatus /\ "False" \in CondStatus
      /\ CondFrom(TRUE) \in CondStatus /\ CondFrom(FALSE) \in CondStatus
      /\ {"Infra", "Agents"} \subseteq GatingPhases
  BY DEF Conditions, CondStatus, CondFrom, GatingPhases
(* The end of a pass, and a phase that goes straight to the status write.  *)
<1>e. ASSUME NEW step \in {"down", "idle"}, GoTo(m, step, NoPlane),
             m \notin fresh',
             \/ UNCHANGED dp /\ fresh' \subseteq fresh
             \/ fresh' = {},
             CurrentCache'
      PROVE  ReadyInv'
  BY <1>e, MoveReady
<1>u. ASSUME NEW new, UpdateAndEnd(m, new)
      PROVE  ReadyInv'
  <2>1. CurrentCache'
    BY <1>c, <1>u DEF UpdateAndEnd, Store
  <2>2. QED
    BY <1>e, <1>u, <2>1 DEF UpdateAndEnd, EndPass, Store
<1>h. ASSUME NEW s, GoTo(m, "commit", s), CopyOf(s, snap[m]),
             \/ s.conds["Ready"] = "False"
             \/ s.conds["Ready"] = snap[m].conds["Ready"],
             pc[m] # "commit", UNCHANGED <<dp, fresh, cache, current>>
      PROVE  ReadyInv'
  <2>1. m \in fresh => CopyOf(s, dp)
    BY <1>h, <1>i, CopyTransitive
  <2>2. QED
    BY <1>c, <1>h, <1>i, <2>1, MoveReady
<1>x. ASSUME NEW c \in Conditions, pc[m] # "commit",
             GoTo(m, "commit", Failed(snap[m], c)), UNCHANGED <<dp, fresh, cache, current>>
      PROVE  ReadyInv'
  BY <1>h, <1>s, <1>x, FailedFacts
<1>1. CASE Start(m)
  <2>1. GoTo(m, "idle", snap[m]) /\ UNCHANGED <<dp, snap, fresh>>
    BY <1>1 DEF Start, GoTo, ReadyInv, TypeOK
  <2>2. m \notin fresh
    BY <1>1, <1>i DEF Start
  <2>3. CurrentCache'
    BY <1>1 DEF Start, ListWatch, ReadyInv, TypeOK, CurrentCache
  <2>4. QED
    BY <2>1, <2>2, <2>3, MoveReady
<1>2. CASE Begin(m)
  <2> DEFINE step == FirstStep(cache[m])
  <2>1. step \in {"finArgo", "addFin", "probe", "applyInfra"}
    BY DEF FirstStep
  <2>2. /\ GoTo(m, step, cache[m]) /\ UNCHANGED <<dp, cache, current>>
        /\ fresh' = fresh \cup (current \cap {m}) /\ pc[m] = "idle"
    BY <1>2 DEF Begin
  <2>3. m \in fresh' => cache[m] = dp
    BY <1>i, <2>2
  <2>4. CurrentCache'
    BY <1>c, <2>2
  <2> HIDE DEF step
  <2>5. QED
    BY <2>1, <2>2, <2>3, <2>4, MoveReady DEF CopyOf
<1>3. CASE AddFinalizer(m)
  BY <1>3, <1>u DEF AddFinalizer
<1>4. ASSUME GoTo(m, AfterApply(snap[m]), snap[m]), pc[m] = "applyInfra",
             UNCHANGED <<dp, fresh, cache, current>>
      PROVE  ReadyInv'
  <2>1. AfterApply(snap[m]) \in {"recordRef", "probe"}
    BY DEF AfterApply
  <2>2. QED
    BY <1>4, <1>c, <1>i, <2>1, MoveReady
<1>5. CASE ApplyInfra(m) \/ SkipInfra(m)
  BY <1>4, <1>5 DEF ApplyInfra, SkipInfra
<1>6. CASE RecordRef(m)
  <2>1. CASE m \in fresh
    <3>1. /\ dp' = WithRef(snap[m]) /\ fresh' = {m}
          /\ GoTo(m, "probe", WithRef(snap[m]))
          /\ UNCHANGED cache /\ current' = {}
      BY <1>6, <2>1 DEF RecordRef
    <3>2. QED
      BY <1>c, <3>1, MoveReady DEF CopyOf
  <2>2. CASE m \notin fresh
    BY <1>6, <1>f, <1>x, <2>2 DEF RecordRef
  <2>3. QED
    BY <2>1, <2>2
<1>7. CASE Probe(m)
  <2> DEFINE t == SetCond(snap[m], "Infra", "True")
  <2>1. /\ CopyOf(t, snap[m]) /\ t.conds["Infra"] = "True"
        /\ t.conds["Ready"] = snap[m].conds["Ready"]
    BY <1>s, SetCondFacts DEF Conditions, CondStatus, CondFrom
  <2>2. m \in fresh => CopyOf(t, dp)
    BY <1>i, <2>1, CopyTransitive
  <2>3. pc[m] = "probe" /\ UNCHANGED <<dp, fresh, cache, current>>
    BY <1>7 DEF Probe, world
  <2>4. \/ GoTo(m, "register", t)
        \/ GoTo(m, "commit", Failed(snap[m], "Infra"))
        \/ GoTo(m, "commit", Held(snap[m], "Infra"))
    BY <1>7 DEF Probe
  <2>5. CASE GoTo(m, "register", t)
    <3> HIDE DEF t
    <3>1. QED
      BY <1>c, <1>i, <2>1, <2>2, <2>3, <2>5, MoveReady
  <2>6. CASE GoTo(m, "commit", Held(snap[m], "Infra"))
    BY <1>s, <1>f, <1>h, <2>3, <2>6, HeldFacts
  <2>7. QED
    BY <1>f, <1>x, <2>3, <2>4, <2>5, <2>6
<1>8. CASE Register(m)
  <2> DEFINE t == SetCond(snap[m], "Registered", "True")
  <2>1. /\ CopyOf(t, snap[m]) /\ t.conds["Registered"] = "True"
        /\ t.conds["Ready"] = snap[m].conds["Ready"]
        /\ t.conds["Infra"] = snap[m].conds["Infra"]
    BY <1>s, SetCondFacts DEF Conditions, CondStatus, CondFrom
  <2>2. m \in fresh => CopyOf(t, dp)
    BY <1>i, <2>1, CopyTransitive
  <2>3. pc[m] = "register" /\ UNCHANGED <<dp, fresh, cache, current>>
    BY <1>8 DEF Register
  <2>4. \/ GoTo(m, "agents", t)
        \/ GoTo(m, "commit", Failed(snap[m], "Registered"))
    BY <1>8 DEF Register
  <2>5. CASE GoTo(m, "agents", t)
    <3> HIDE DEF t
    <3>1. QED
      BY <1>c, <1>i, <2>1, <2>2, <2>3, <2>5, MoveReady
  <2>6. QED
    BY <1>f, <1>x, <2>3, <2>4, <2>5
<1>9. CASE CheckAgents(m)
  <2> DEFINE t == SetCond(snap[m], "Agents", "True")
             u == SetCond(t, "Mesh", CondFrom(FALSE))
  <2>1. /\ t \in DPObject /\ CopyOf(t, snap[m]) /\ t.conds["Agents"] = "True"
        /\ \A c \in {"Infra", "Registered", "Ready"} :
             t.conds[c] = snap[m].conds[c]
    BY <1>s, SetCondFacts DEF Conditions, CondStatus, CondFrom
  <2>2. /\ CopyOf(u, t) /\ u.conds["Mesh"] = CondFrom(FALSE)
        /\ \A c \in {"Infra", "Registered", "Agents", "Ready"} :
             u.conds[c] = t.conds[c]
    <3> HIDE DEF t
    <3>1. QED
      BY <2>1, SetCondFacts DEF Conditions, CondStatus, CondFrom
  <2>3. CopyOf(u, snap[m])
    BY <2>1, <2>2, CopyTransitive
  <2>4. m \in fresh => CopyOf(t, dp) /\ CopyOf(u, dp)
    BY <1>i, <2>1, <2>3, CopyTransitive
  <2>5. pc[m] = "agents" /\ UNCHANGED <<dp, fresh, cache, current>>
    BY <1>9 DEF CheckAgents, world
  <2>6. \/ snap[m].mesh /\ GoTo(m, "mesh", t)
        \/ ~snap[m].mesh /\ GoTo(m, "observe", u)
        \/ GoTo(m, "commit", Held(snap[m], "Agents"))
    BY <1>9 DEF CheckAgents
  <2> HIDE DEF t, u
  <2>7. CASE snap[m].mesh /\ GoTo(m, "mesh", t)
    <3>1. t.mesh
      BY <2>1, <2>7 DEF CopyOf
    <3>2. QED
      BY <1>c, <1>i, <2>1, <2>4, <2>5, <2>7, <3>1, MoveReady
  <2>8. CASE ~snap[m].mesh /\ GoTo(m, "observe", u)
    <3>1. u.conds["Mesh"] = CondFrom(u.mesh)
      BY <1>s, <2>2, <2>3, <2>8 DEF CopyOf, CondFrom
    <3>2. QED
      BY <1>c, <1>i, <2>1, <2>2, <2>4, <2>5, <2>8, <3>1, MoveReady
  <2>9. CASE GoTo(m, "commit", Held(snap[m], "Agents"))
    BY <1>s, <1>f, <1>h, <2>5, <2>9, HeldFacts
  <2>10. QED
    BY <2>6, <2>7, <2>8, <2>9
<1>10. CASE JoinMesh(m)
  <2> DEFINE t == SetCond(snap[m], "Mesh", CondFrom(TRUE))
  <2>1. /\ CopyOf(t, snap[m]) /\ t.conds["Mesh"] = CondFrom(TRUE)
        /\ \A c \in {"Infra", "Registered", "Agents", "Ready"} :
             t.conds[c] = snap[m].conds[c]
    BY <1>s, SetCondFacts DEF Conditions, CondStatus, CondFrom
  <2>2. m \in fresh => CopyOf(t, dp)
    BY <1>i, <2>1, CopyTransitive
  <2>3. /\ pc[m] = "mesh" /\ UNCHANGED <<dp, fresh, cache, current>>
        /\ GoTo(m, "observe", t)
    BY <1>10 DEF JoinMesh
  <2>4. t.conds["Mesh"] = CondFrom(t.mesh)
    BY <1>i, <2>1, <2>3 DEF CopyOf, CondFrom
  <2> HIDE DEF t
  <2>5. QED
    BY <1>c, <1>i, <2>1, <2>2, <2>3, <2>4, MoveReady
<1>11. CASE Observe(m)
  <2> DEFINE t == Aggregated(snap[m])
  <2>1. pc[m] = "observe" /\ UNCHANGED <<dp, fresh, cache, current>>
    BY <1>11 DEF Observe
  <2>2. /\ CopyOf(t, snap[m]) /\ t.ogen = snap[m].gen
        /\ t.conds["Obs"] = "True"
        /\ \A c \in {"Infra", "Registered", "Agents", "Mesh"} :
             t.conds[c] = snap[m].conds[c]
    BY <1>s, AggregatedFacts DEF Conditions
  <2>3. AllPhasesTrue(t) /\ t.ogen = t.gen
    BY <1>i, <2>1, <2>2 DEF AllPhasesTrue, GatingPhases, CopyOf
  <2>4. m \in fresh => CopyOf(t, dp)
    BY <1>i, <2>2, CopyTransitive
  <2>5. \/ GoTo(m, "commit", t)
        \/ GoTo(m, "commit", Failed(snap[m], "Obs"))
    BY <1>11 DEF Observe
  <2> HIDE DEF t
  <2>6. CASE GoTo(m, "commit", t)
    BY <1>c, <2>1, <2>3, <2>4, <2>6, MoveReady
  <2>7. QED
    BY <1>f, <1>x, <2>1, <2>5, <2>6
<1>12. CASE Commit(m)
  BY <1>12, <1>u DEF Commit
<1>13. ASSUME NEW step \in {"finInfra", "finRemove"},
              GoTo(m, step, snap[m]), pc[m] \in FinalizeSteps,
              UNCHANGED <<dp, fresh, cache, current>>
       PROVE  ReadyInv'
  BY <1>13, <1>c, <1>i, MoveReady
<1>14. CASE Deregister(m) \/ DeleteInfra(m)
  BY <1>13, <1>14 DEF Deregister, DeleteInfra
<1>15. CASE RemoveFinalizer(m)
  BY <1>15, <1>u DEF RemoveFinalizer
<1>16. CASE Stop(m)
  <2>1. CurrentCache'
    BY <1>16 DEF Stop, ReadyInv, TypeOK, CurrentCache
  <2>2. QED
    BY <1>e, <1>16, <2>1 DEF Stop
<1>17. CASE CallFails(m)
  <2>1. CASE pc[m] \in PhaseSteps \ {"commit"}
    BY <1>17, <1>x, <2>1, PhaseConditionType DEF CallFails
  <2>2. CASE pc[m] \in FinalizeSteps \cup {"addFin", "commit"}
    BY <1>17, <1>c, <1>e, <2>2 DEF CallFails, EndPass
  <2>3. QED
    BY <1>17, <2>1, <2>2 DEF CallFails
<1>18. CASE Deliver(m)
  <2>1. UNCHANGED <<dp, pc, snap, fresh>>
    BY <1>18 DEF Deliver
  <2>2. CurrentCache'
    BY <1>18 DEF Deliver, ListWatch, ReadyInv, TypeOK, CurrentCache
  <2>3. FreshCopy' /\ ConditionsOK'
    BY <2>1 DEF ReadyInv, FreshCopy, ConditionsOK
  <2>4. QED
    BY <2>2, <2>3 DEF ReadyInv
<1>19. CASE RegistrationUnseen(m)
  BY <1>s, <1>f, <1>h, <1>19, HeldFacts DEF RegistrationUnseen
<1>20. QED
  BY <1>1, <1>2, <1>3, <1>5, <1>6, <1>7, <1>8, <1>9, <1>10, <1>11, <1>12,
     <1>14, <1>15, <1>16, <1>17, <1>18, <1>19 DEF Reconcile, Phase, Finalize, Mishap

LEMMA EnvironmentReady ==
  ASSUME ReadyInv, TypeOK', Environment
  PROVE  ReadyInv'
BY OtherReady
   DEF Environment, UserEdits, CreatePlane, EditPlane, DeletePlane,
       SupplyKubeconfig, PublishKubeconfig, ClusterUp, ClusterDown,
       AppsDegrade, AppsRecover, InfraGone, CollectOrphan, control, informer

BecomesReady ==
  dp.conds["Ready"] # "True" /\ dp'.conds["Ready"] = "True" =>
    AllPhasesTrue(dp') /\ dp'.ogen = dp'.gen

(* Only the status write of a pass turns the plane Ready.                  *)
LEMMA BecomesStep ==
  ASSUME ReadyInv, [Next]_vars
  PROVE  BecomesReady
<1>s. dp \in DPObject /\ snap \in [Managers -> DPObject]
  BY DEF ReadyInv, TypeOK
<1>1. ASSUME NEW m \in Managers, Start(m) \/ Deliver(m) \/ Reconcile(m) \/ Mishap(m)
      PROVE  BecomesReady
  <2>f. m \in fresh =>
          /\ CopyOf(snap[m], dp)
          /\ \/ snap[m].conds["Ready"] = dp.conds["Ready"]
             \/ pc[m] = "commit" /\ snap[m].conds["Ready"] = "False"
             \/ /\ pc[m] = "commit"
                /\ AllPhasesTrue(snap[m]) /\ snap[m].ogen = snap[m].gen
    BY DEF ReadyInv, FreshCopy, ConditionsOK
  <2>1. CASE UNCHANGED dp
    BY <2>1 DEF BecomesReady
  <2>2. CASE m \in fresh /\ AddFinalizer(m)
    <3>1. UNCHANGED dp \/ dp'.conds["Ready"] = dp.conds["Ready"]
      BY <1>s, <2>2, <2>f, WithFinalizerFacts DEF AddFinalizer, UpdateAndEnd, Store
    <3>2. QED
      BY <3>1 DEF BecomesReady
  <2>3. CASE m \in fresh /\ RecordRef(m)
    <3>1. dp'.conds["Ready"] = dp.conds["Ready"]
      BY <1>s, <2>3, <2>f, WithRefFacts DEF RecordRef
    <3>2. QED
      BY <3>1 DEF BecomesReady
  <2>4. CASE m \in fresh /\ Commit(m)
    <3>1. dp' = WithStatus(dp, snap[m])
      BY <2>4 DEF Commit, UpdateAndEnd, Store
    <3>2. /\ dp'.conds = snap[m].conds /\ dp'.ogen = snap[m].ogen
          /\ CopyOf(dp', dp)
      BY <1>s, <3>1, WithStatusFacts
    <3>3. QED
      BY <2>4, <2>f, <3>2 DEF BecomesReady, AllPhasesTrue, CopyOf
  <2>5. CASE m \in fresh /\ RemoveFinalizer(m)
    <3>1. dp'.conds["Ready"] = "Unknown"
      BY <2>5 DEF RemoveFinalizer, UpdateAndEnd, Store, NoPlane, Unreported,
                  Conditions
    <3>2. QED
      BY <3>1 DEF BecomesReady
  <2>6. QED
    BY <1>1, <2>1, <2>2, <2>3, <2>4, <2>5
       DEF Reconcile, Phase, Finalize, Mishap, Start, Deliver, Begin, AddFinalizer,
           ApplyInfra, RecordRef, Probe, Register, CheckAgents, JoinMesh,
           Observe, Commit, Deregister, DeleteInfra, RemoveFinalizer, Stop,
           SkipInfra, RegistrationUnseen, CallFails, UpdateAndEnd, Store
<1>2. ASSUME Environment
      PROVE  BecomesReady
  <2>n. Unreported["Ready"] = "Unknown"
    BY DEF Unreported, Conditions
  <2>1. CASE CreatePlane
    <3>1. dp'.conds = Unreported
      BY <2>1, CreatedFacts DEF CreatePlane
    <3>2. QED
      BY <2>n, <3>1 DEF BecomesReady
  <2>2. CASE EditPlane
    <3>1. dp'.conds = dp.conds
      BY <1>s, <2>2, EditedFacts DEF EditPlane
    <3>2. QED
      BY <3>1 DEF BecomesReady
  <2>3. CASE DeletePlane
    <3>1. dp'.conds \in {dp.conds, Unreported}
      BY <1>s, <2>3, MarkedDeletedFacts DEF DeletePlane, NoPlane
    <3>2. QED
      BY <2>n, <3>1 DEF BecomesReady
  <2>4. CASE UNCHANGED dp
    BY <2>4 DEF BecomesReady
  <2>5. QED
    BY <1>2, <2>1, <2>2, <2>3, <2>4
       DEF Environment, UserEdits, SupplyKubeconfig, PublishKubeconfig,
           ClusterUp, ClusterDown, AppsDegrade, AppsRecover, InfraGone,
           CollectOrphan
<1>3. CASE UNCHANGED vars
  BY <1>3 DEF vars, BecomesReady
<1>4. QED
  BY <1>1, <1>2, <1>3 DEF Next

LEMMA ReadyInvariant == Spec => []ReadyInv
<1>1. ReadyInv /\ [Next]_vars => ReadyInv'
  <2> SUFFICES ASSUME ReadyInv, [Next]_vars PROVE ReadyInv'
    OBVIOUS
  <2>1. TypeOK'
    BY ManagerType, EnvironmentType, StutterType DEF ReadyInv, Next
  <2>2. CASE UNCHANGED vars
    BY <2>1, <2>2, OtherReady DEF vars, control, informer
  <2>3. CASE Next
    BY <2>1, <2>3, ManagerReady, EnvironmentReady DEF Next
  <2>4. QED
    BY <2>2, <2>3
<1>2. QED
  BY InitReady, <1>1, PTL DEF Spec

(* The status that first says Ready is whole: every gating phase True, the *)
(* mesh as the stored spec asks, the stored generation observed.  Needs no *)
(* election: the API server refuses a pass that an edit or another manager *)
(* overtook.                                                               *)
THEOREM ReadyIsWhole == Spec => BecomesReadyWhole
BY ReadyInvariant, BecomesStep, PTL DEF Spec, BecomesReadyWhole, BecomesReady

-----------------------------------------------------------------------------
(* The observed generation.                                                *)

(* With one manager running, its step is right if what it leads to is.     *)
LEMMA MoveEdit ==
  ASSUME EditInv, GuardInv', NEW m \in Managers, NEW step \in Steps, NEW s,
         pc[m] # "down" \/ step # "down",
         GoTo(m, step, s),
         dp'.ogen <= dp'.gen, dp'.edit <= dp'.gen,
         PassKnows(step, s, dp', argo'),
         step # "down" /\ Observed(dp') => cache'[m].edit = dp'.edit,
         m \in fresh' => /\ WritesObserved(step, s, dp', argo')
                         /\ cache'[m].edit = dp'.edit,
         ObservedNotAhead'
  PROVE  EditInv'
<1>1. /\ pc'[m] = step /\ snap'[m] = s
      /\ \A n \in Managers : n # m => pc'[n] = "down"
  BY DEF EditInv, GuardInv, TypeOK, OneRunning, GoTo
<1>2. fresh' \subseteq {m}
  BY <1>1 DEF GuardInv, TypeOK, FreshCopy
<1>3. \A n \in Managers : n # m => PassKnows(pc'[n], snap'[n], dp', argo')
  BY <1>1 DEF PassKnows, PhaseSteps
<1>4. EditsOK'
  BY <1>1, <1>2, <1>3 DEF EditsOK
<1>5. QED
  BY <1>4 DEF EditInv

(* Somebody else's write to the object is not yet observed.                *)
LEMMA OtherEdit ==
  ASSUME EditInv, GuardInv', UNCHANGED <<pc, snap, argo, cache>>,
         \/ UNCHANGED <<dp, fresh>>
         \/ /\ fresh' = {} /\ ~Observed(dp')
            /\ dp'.ogen <= dp'.gen /\ dp'.edit <= dp'.gen
  PROVE  EditInv'
<1>1. CASE UNCHANGED <<dp, fresh>>
  BY <1>1 DEF EditInv, EditsOK, ObservedNotAhead
<1>2. CASE /\ fresh' = {} /\ ~Observed(dp')
           /\ dp'.ogen <= dp'.gen /\ dp'.edit <= dp'.gen
  <2>1. \A m \in Managers : PassKnows(pc'[m], snap'[m], dp', argo')
    BY <1>2 DEF EditInv, EditsOK, PassKnows
  <2>2. EditsOK'
    BY <1>2, <2>1 DEF EditsOK
  <2>3. ObservedNotAhead'
    BY <1>2 DEF ObservedNotAhead, Observed
  <2>4. QED
    BY <2>2, <2>3 DEF EditInv
<1>3. QED
  BY <1>1, <1>2

LEMMA InitEdit == Init => EditInv
<1> SUFFICES ASSUME Init PROVE EditInv
  OBVIOUS
<1>1. /\ \A m \in Managers : pc[m] = "down"
      /\ fresh = {} /\ dp.plane = "absent"
      /\ dp.ogen = 0 /\ dp.gen = 0 /\ dp.edit = 0
  BY DEF Init, NoPlane
<1>2. QED
  BY <1>1, InitGuard
     DEF EditInv, EditsOK, PassKnows, Observed, ObservedNotAhead, PhaseSteps

LEMMA ManagerEdit ==
  ASSUME EditInv, GuardInv', NEW m \in Managers,
         Start(m) \/ Deliver(m) \/ Reconcile(m) \/ Mishap(m)
  PROVE  EditInv'
<1> USE DEF PhaseSteps, FinalizeSteps, Steps, informer
<1>s. /\ snap[m] \in DPObject /\ cache[m] \in DPObject /\ dp \in DPObject
      /\ pc[m] \in Steps
  BY DEF EditInv, GuardInv, TypeOK
<1>n. /\ snap[m].gen \in Nat /\ snap[m].ogen \in Nat /\ snap[m].edit \in Nat
      /\ dp.gen \in Nat /\ dp.ogen \in Nat /\ dp.edit \in Nat
  BY <1>s DEF DPObject
<1>g. /\ PassKnows(pc[m], snap[m], dp, argo) /\ ObservedNotAhead
      /\ dp.ogen <= dp.gen /\ dp.edit <= dp.gen
      /\ pc[m] # "down" /\ Observed(dp) => cache[m].edit = dp.edit
      /\ m \in fresh =>
           /\ WritesObserved(pc[m], snap[m], dp, argo)
           /\ cache[m].edit = dp.edit
           /\ CopyOf(snap[m], dp) /\ pc[m] \notin {"down", "idle"}
      /\ m \in current => cache[m] = dp
  BY DEF EditInv, EditsOK, GuardInv, FreshCopy, CurrentCache
<1>k. UNCHANGED <<dp, argo>> => ObservedNotAhead'
  BY <1>g DEF ObservedNotAhead
(* The end of a pass that leaves what is observed as it was, ...           *)
<1>e. ASSUME NEW step \in {"down", "idle"}, NEW s, pc[m] # "down",
             GoTo(m, step, s), m \notin fresh',
             cache' = cache \/ step = "down", UNCHANGED argo,
             dp'.ogen <= dp'.gen, dp'.edit <= dp'.gen,
             Observed(dp') => Observed(dp) /\ dp'.edit = dp.edit
      PROVE  EditInv'
  <2>1. PassKnows(step, s, dp', argo')
    BY <1>e DEF PassKnows
  <2>2. ObservedNotAhead'
    BY <1>e, <1>g DEF ObservedNotAhead, Observed
  <2>3. QED
    BY <1>e, <1>g, <2>1, <2>2, MoveEdit
(* ... a phase that changes conditions only, a phase that fails.           *)
<1>p. ASSUME NEW step \in PhaseSteps, NEW s,
             pc[m] \in PhaseSteps \ {"commit"}, GoTo(m, step, s),
             CopyOf(s, snap[m]), s.ogen = snap[m].ogen,
             step \in {"agents", "mesh", "observe"} =>
               pc[m] \in {"agents", "mesh", "observe"},
             UNCHANGED <<dp, fresh, cache, argo>>
      PROVE  EditInv'
  <2>1. PassKnows(step, s, dp', argo')
    BY <1>p, <1>g DEF PassKnows, CopyOf
  <2>2. m \in fresh => WritesObserved(step, s, dp', argo')
    BY <1>p, <1>g DEF WritesObserved
  <2>3. QED
    BY <1>p, <1>g, <1>k, <2>1, <2>2, MoveEdit
<1>x. ASSUME NEW c \in Conditions, pc[m] \in PhaseSteps \ {"commit"},
             GoTo(m, "commit", Failed(snap[m], c)),
             UNCHANGED <<dp, fresh, cache, argo>>
      PROVE  EditInv'
  BY <1>p, <1>s, <1>x, FailedFacts
<1>h. ASSUME NEW c \in GatingPhases, pc[m] \in PhaseSteps \ {"commit"},
             GoTo(m, "commit", Held(snap[m], c)),
             UNCHANGED <<dp, fresh, cache, argo>>
      PROVE  EditInv'
  BY <1>p, <1>s, <1>h, HeldFacts
<1>f. /\ "Infra" \in Conditions /\ "Registered" \in Conditions
      /\ "Obs" \in Conditions /\ {"Infra", "Agents"} \subseteq GatingPhases
  BY DEF Conditions, GatingPhases
<1>1. CASE Start(m)
  <2>1. /\ GoTo(m, "idle", snap[m]) /\ cache'[m] = dp
        /\ UNCHANGED <<dp, argo, fresh>>
    BY <1>1 DEF Start, ListWatch, GoTo, world, EditInv, GuardInv, TypeOK
  <2>2. PassKnows("idle", snap[m], dp', argo') /\ m \notin fresh'
    BY <1>1, <1>g, <2>1 DEF PassKnows, Start
  <2>3. QED
    BY <1>g, <1>k, <2>1, <2>2, MoveEdit
<1>2. CASE Deliver(m)
  <2>1. /\ GoTo(m, pc[m], snap[m]) /\ cache'[m] = dp /\ pc[m] # "down"
        /\ UNCHANGED <<dp, argo, fresh>>
    BY <1>2 DEF Deliver, ListWatch, GoTo, world, EditInv, GuardInv, TypeOK
  <2>2. QED
    BY <1>s, <1>g, <1>k, <2>1, MoveEdit
<1>3. CASE Begin(m)
  <2> DEFINE c == cache[m]
             step == FirstStep(c)
  <2>1. step \in {"finArgo", "addFin", "probe", "applyInfra"}
    BY DEF FirstStep
  <2>2. /\ GoTo(m, step, c) /\ UNCHANGED <<dp, argo, cache>> /\ pc[m] = "idle"
        /\ fresh' = fresh \cup (current \cap {m})
    BY <1>3 DEF Begin, world
  <2>3. PassKnows(step, c, dp', argo')
    BY <1>g, <2>1, <2>2 DEF PassKnows
  <2>4. m \in fresh' => c = dp
    BY <1>g, <2>2
  <2>5. m \in fresh' => WritesObserved(step, c, dp', argo')
    BY <2>2, <2>4 DEF WritesObserved
  <2>6. /\ Observed(dp') => cache'[m].edit = dp'.edit
        /\ m \in fresh' => cache'[m].edit = dp'.edit
    BY <1>g, <2>2, <2>4
  <2> HIDE DEF step, c
  <2>7. QED
    BY <1>g, <1>k, <2>1, <2>2, <2>3, <2>5, <2>6, MoveEdit
<1>4. CASE AddFinalizer(m)
  <2>1. /\ GoTo(m, "idle", NoPlane) /\ pc[m] = "addFin"
        /\ m \notin fresh' /\ UNCHANGED <<argo, cache>>
        /\ \/ UNCHANGED dp
           \/ m \in fresh /\ dp' = WithFinalizer(snap[m])
    BY <1>4 DEF AddFinalizer, UpdateAndEnd, Store, EndPass, world
  <2>2. /\ dp'.gen = dp.gen /\ dp'.ogen = dp.ogen
        /\ dp'.edit = dp.edit /\ dp'.plane = dp.plane
    BY <1>s, <1>g, <2>1, WithFinalizerFacts DEF CopyOf, WritesObserved
  <2>3. QED
    BY <1>e, <1>g, <2>1, <2>2 DEF Observed
<1>5. CASE ApplyInfra(m) \/ SkipInfra(m)
  <2>1. AfterApply(snap[m]) \in {"recordRef", "probe"}
    BY DEF AfterApply
  <2>2. QED
    BY <1>5, <1>p, <2>1 DEF ApplyInfra, SkipInfra, CopyOf, world
<1>6. CASE RecordRef(m)
  <2>1. CASE m \in fresh
    <3> DEFINE s == WithRef(snap[m])
    <3>1. /\ dp' = s /\ fresh' = {m} /\ UNCHANGED <<argo, cache>>
          /\ GoTo(m, "probe", s) /\ pc[m] = "recordRef"
      BY <1>6, <2>1 DEF RecordRef, world
    <3>2. /\ dp'.gen = dp.gen + 1 /\ dp'.ogen = dp.ogen
          /\ dp'.edit = dp.edit /\ dp'.plane = dp.plane
      BY <1>s, <1>g, <2>1, <3>1, WithRefFacts DEF WritesObserved, CopyOf
    <3>3. /\ ObservedNotAhead' /\ dp'.ogen <= dp'.gen /\ dp'.edit <= dp'.gen
          /\ cache'[m].edit = dp'.edit
      BY <1>n, <1>g, <2>1, <3>1, <3>2 DEF ObservedNotAhead
    <3>4. PassKnows("probe", s, dp', argo') /\ WritesObserved("probe", s, dp', argo')
      BY <3>1 DEF PassKnows, WritesObserved
    <3> HIDE DEF s
    <3>5. QED
      BY <3>1, <3>3, <3>4, MoveEdit
  <2>2. CASE m \notin fresh
    BY <1>6, <1>f, <1>x, <2>2 DEF RecordRef, world
  <2>3. QED
    BY <2>1, <2>2
<1>7. CASE Probe(m)
  <2> DEFINE t == SetCond(snap[m], "Infra", "True")
  <2>1. CopyOf(t, snap[m]) /\ t.ogen = snap[m].ogen
    BY <1>s, SetCondFacts DEF Conditions, CondStatus
  <2>2. pc[m] = "probe" /\ UNCHANGED <<dp, fresh, cache, argo>>
    BY <1>7 DEF Probe, world
  <2>3. \/ GoTo(m, "register", t)
        \/ GoTo(m, "commit", Failed(snap[m], "Infra"))
        \/ GoTo(m, "commit", Held(snap[m], "Infra"))
    BY <1>7 DEF Probe
  <2> HIDE DEF t
  <2>4. QED
    BY <1>f, <1>h, <1>p, <1>x, <2>1, <2>2, <2>3
<1>8. CASE Register(m)
  <2> DEFINE c == kubeconfig[SecretOf(snap[m].mode)]
             t == SetCond(snap[m], "Registered", "True")
  <2>1. pc[m] = "register" /\ UNCHANGED <<dp, fresh, cache>>
    BY <1>8 DEF Register
  <2>2. CASE c = NoCluster
    BY <1>8, <1>f, <1>x, <2>1, <2>2 DEF Register
  <2>3. CASE c # NoCluster
    <3>1. /\ GoTo(m, "agents", t)
          /\ argo'.cluster # NoCluster /\ argo'.edit = snap[m].edit
      BY <1>8, <2>3 DEF Register
    <3>2. t.edit = snap[m].edit /\ t.ogen = snap[m].ogen
      BY <1>s, SetCondFacts DEF Conditions, CondStatus, CopyOf
    <3> HIDE DEF t
    <3>3. PassKnows("agents", t, dp', argo')
      BY <1>g, <2>1, <3>1, <3>2 DEF PassKnows
    <3>4. m \in fresh => WritesObserved("agents", t, dp', argo')
      BY <1>g, <2>1, <3>2 DEF WritesObserved
    <3>5. ObservedNotAhead'
      BY <1>g, <2>1, <3>1 DEF PassKnows, Observed, ObservedNotAhead
    <3>6. QED
      BY <1>g, <2>1, <3>1, <3>3, <3>4, <3>5, MoveEdit
  <2>4. QED
    BY <2>2, <2>3
<1>9. CASE CheckAgents(m)
  <2> DEFINE t == SetCond(snap[m], "Agents", "True")
             u == SetCond(t, "Mesh", CondFrom(FALSE))
  <2>1. t \in DPObject /\ CopyOf(t, snap[m]) /\ t.ogen = snap[m].ogen
    BY <1>s, SetCondFacts DEF Conditions, CondStatus
  <2>2. CopyOf(u, t) /\ u.ogen = t.ogen
    <3> HIDE DEF t
    <3>1. QED
      BY <2>1, SetCondFacts DEF Conditions, CondStatus, CondFrom
  <2>3. pc[m] = "agents" /\ UNCHANGED <<dp, fresh, cache, argo>>
    BY <1>9 DEF CheckAgents, world
  <2>4. \/ GoTo(m, "mesh", t)
        \/ GoTo(m, "observe", u)
        \/ GoTo(m, "commit", Held(snap[m], "Agents"))
    BY <1>9 DEF CheckAgents
  <2> HIDE DEF t, u
  <2>5. CopyOf(u, snap[m])
    BY <2>1, <2>2, CopyTransitive
  <2>6. QED
    BY <1>f, <1>h, <1>p, <2>1, <2>2, <2>3, <2>4, <2>5
<1>10. CASE JoinMesh(m)
  <2> DEFINE t == SetCond(snap[m], "Mesh", CondFrom(TRUE))
  <2>1. CopyOf(t, snap[m]) /\ t.ogen = snap[m].ogen
    BY <1>s, SetCondFacts DEF Conditions, CondStatus, CondFrom
  <2>2. /\ pc[m] = "mesh" /\ UNCHANGED <<dp, fresh, cache, argo>>
        /\ GoTo(m, "observe", t)
    BY <1>10 DEF JoinMesh
  <2> HIDE DEF t
  <2>3. QED
    BY <1>p, <2>1, <2>2
<1>11. CASE Observe(m)
  <2> DEFINE t == Aggregated(snap[m])
  <2>1. pc[m] = "observe" /\ UNCHANGED <<dp, fresh, cache, argo>>
    BY <1>11 DEF Observe
  <2>2. t.edit = snap[m].edit /\ t.ogen = t.gen
    BY <1>s, AggregatedFacts DEF CopyOf
  <2>3. \/ GoTo(m, "commit", t)
        \/ GoTo(m, "commit", Failed(snap[m], "Obs"))
    BY <1>11 DEF Observe
  <2> HIDE DEF t
  <2>4. CASE GoTo(m, "commit", t)
    <3>1. PassKnows("commit", t, dp', argo') /\ WritesObserved("commit", t, dp', argo')
      BY <1>g, <2>1, <2>2 DEF PassKnows, WritesObserved
    <3>2. QED
      BY <1>g, <1>k, <2>1, <2>4, <3>1, MoveEdit
  <2>5. QED
    BY <1>f, <1>x, <2>1, <2>3, <2>4
<1>12. CASE Commit(m)
  <2>1. /\ GoTo(m, "idle", NoPlane) /\ pc[m] = "commit"
        /\ m \notin fresh' /\ UNCHANGED <<argo, cache>>
    BY <1>12 DEF Commit, UpdateAndEnd, EndPass, world
  <2>2. CASE m \notin fresh
    <3>1. UNCHANGED dp
      BY <1>12, <2>2 DEF Commit, UpdateAndEnd
    <3>2. QED
      BY <1>e, <1>g, <2>1, <3>1
  <2>3. CASE m \in fresh
    <3>1. CopyOf(dp', dp) /\ dp'.ogen = snap[m].ogen
      BY <1>12, <1>s, <2>3, WithStatusFacts DEF Commit, UpdateAndEnd, Store
    <3>2. \/ dp'.ogen = dp.ogen
          \/ /\ dp'.ogen = dp.gen
             /\ argo.cluster # NoCluster /\ argo.edit = dp.edit
      BY <1>g, <2>1, <2>3, <3>1 DEF WritesObserved, CopyOf
    <3>3. ObservedNotAhead' /\ dp'.ogen <= dp'.gen /\ dp'.edit <= dp'.gen
      BY <1>n, <1>g, <2>1, <3>1, <3>2 DEF ObservedNotAhead, CopyOf
    <3>4. PassKnows("idle", NoPlane, dp', argo') /\ cache'[m].edit = dp'.edit
      BY <1>g, <2>1, <2>3, <3>1 DEF PassKnows, CopyOf
    <3>5. QED
      BY <2>1, <3>3, <3>4, MoveEdit
  <2>4. QED
    BY <2>2, <2>3
<1>13. ASSUME NEW step \in {"finInfra", "finRemove"}, pc[m] \in FinalizeSteps,
              GoTo(m, step, snap[m]), UNCHANGED <<dp, fresh, cache>>,
              ObservedNotAhead'
       PROVE  EditInv'
  <2>1. /\ PassKnows(step, snap[m], dp', argo')
        /\ WritesObserved(step, snap[m], dp', argo')
    BY DEF PassKnows, WritesObserved
  <2>2. QED
    BY <1>13, <1>g, <2>1, MoveEdit
<1>14. CASE Deregister(m)
  <2>1. /\ pc[m] = "finArgo" /\ UNCHANGED <<dp, fresh, cache>>
        /\ \E step \in {"finInfra", "finRemove"} : GoTo(m, step, snap[m])
    BY <1>14 DEF Deregister
  <2>2. Leaving(dp)
    BY <2>1 DEF EditInv, GuardInv, GuardedPass
  <2>3. ~Observed(dp)
    BY <1>g, <2>2
       DEF Leaving, Observed, ObservedNotAhead, EditInv, GuardInv,
           NoOrphanRegistration
  <2>4. ObservedNotAhead'
    BY <2>1, <2>3 DEF Observed, ObservedNotAhead
  <2>5. QED
    BY <1>13, <2>1, <2>4
<1>15. CASE DeleteInfra(m)
  BY <1>13, <1>15, <1>k DEF DeleteInfra
<1>16. CASE RemoveFinalizer(m)
  <2>1. /\ GoTo(m, "idle", NoPlane) /\ pc[m] = "finRemove"
        /\ m \notin fresh' /\ UNCHANGED <<argo, cache>>
        /\ UNCHANGED dp \/ dp' = NoPlane
    BY <1>16 DEF RemoveFinalizer, UpdateAndEnd, Store, EndPass
  <2>2. /\ dp'.ogen <= dp'.gen /\ dp'.edit <= dp'.gen
        /\ Observed(dp') => Observed(dp) /\ dp'.edit = dp.edit
    BY <1>g, <2>1 DEF Observed, NoPlane
  <2>3. QED
    BY <1>e, <2>1, <2>2
<1>17. CASE Stop(m)
  BY <1>17, <1>e, <1>g DEF Stop, world
<1>18. CASE RegistrationUnseen(m)
  BY <1>18, <1>f, <1>h DEF RegistrationUnseen, world
<1>19. CASE CallFails(m)
  <2>1. UNCHANGED <<dp, argo, cache>>
    BY <1>19 DEF CallFails, world
  <2>2. CASE pc[m] \in PhaseSteps \ {"commit"}
    BY <1>19, <1>x, <2>1, <2>2, PhaseConditionType DEF CallFails
  <2>3. CASE pc[m] \in FinalizeSteps \cup {"addFin", "commit"}
    BY <1>19, <1>e, <1>g, <2>1, <2>3 DEF CallFails, EndPass
  <2>4. QED
    BY <1>19, <2>2, <2>3 DEF CallFails
<1>20. QED
  BY <1>1, <1>2, <1>3, <1>4, <1>5, <1>6, <1>7, <1>8, <1>9, <1>10, <1>11,
     <1>12, <1>14, <1>15, <1>16, <1>17, <1>18, <1>19
     DEF Reconcile, Phase, Finalize, Mishap

LEMMA EnvironmentEdit ==
  ASSUME EditInv, GuardInv', Environment
  PROVE  EditInv'
<1> USE DEF world, control, informer
<1>s. /\ dp \in DPObject /\ dp.gen \in Nat /\ dp.ogen \in Nat /\ dp.edit \in Nat
      /\ dp.ogen <= dp.gen /\ dp.edit <= dp.gen
  BY DEF EditInv, GuardInv, EditsOK, TypeOK, DPObject
<1>1. CASE CreatePlane
  <2>1. dp'.gen = 1 /\ dp'.edit = 1 /\ dp'.ogen = 0 /\ fresh' = {}
    BY <1>1, CreatedFacts DEF CreatePlane
  <2>2. QED
    BY <1>1, <2>1, OtherEdit DEF CreatePlane, Observed
<1>2. CASE EditPlane
  <2>1. /\ dp'.gen = dp.gen + 1 /\ dp'.edit = dp.gen + 1
        /\ dp'.ogen = dp.ogen /\ fresh' = {}
    BY <1>2, <1>s, EditedFacts DEF EditPlane
  <2>2. ~Observed(dp') /\ dp'.ogen <= dp'.gen /\ dp'.edit <= dp'.gen
    BY <1>s, <2>1 DEF Observed
  <2>3. QED
    BY <1>2, <2>1, <2>2, OtherEdit DEF EditPlane
<1>3. CASE DeletePlane
  <2>1. CASE dp.fin
    <3>1. /\ dp'.plane = "deleting" /\ dp'.gen = dp.gen + 1
          /\ dp'.ogen = dp.ogen /\ dp'.edit = dp.edit /\ fresh' = {}
      BY <1>3, <1>s, <2>1, MarkedDeletedFacts DEF DeletePlane
    <3>2. ~Observed(dp') /\ dp'.ogen <= dp'.gen /\ dp'.edit <= dp'.gen
      BY <1>s, <3>1 DEF Observed
    <3>3. QED
      BY <1>3, <3>1, <3>2, OtherEdit DEF DeletePlane
  <2>2. CASE ~dp.fin
    <3>1. /\ dp'.plane = "absent" /\ dp'.gen = 0 /\ dp'.ogen = 0
          /\ dp'.edit = 0 /\ fresh' = {}
      BY <1>3, <2>2 DEF DeletePlane, NoPlane
    <3>2. QED
      BY <1>3, <3>1, OtherEdit DEF DeletePlane, Observed
  <2>3. QED
    BY <2>1, <2>2
<1>4. CASE UNCHANGED <<dp, argo, control>>
  BY <1>4, OtherEdit
<1>5. QED
  BY <1>1, <1>2, <1>3, <1>4
     DEF Environment, UserEdits, SupplyKubeconfig, PublishKubeconfig,
         ClusterUp, ClusterDown, AppsDegrade, AppsRecover, InfraGone,
         CollectOrphan

(* A live plane whose status reports the last edit as observed carries a   *)
(* registration with the labels of that edit, whatever lagging cache the   *)
(* passes read from.                                                       *)
THEOREM ObservedIsRegistered ==
  ASSUME SharedElection
  PROVE  Spec => []ObservedNotAhead
<1>1. EditInv /\ GuardInv' /\ [Next]_vars => EditInv'
  <2> SUFFICES ASSUME EditInv, GuardInv', [Next]_vars PROVE EditInv'
    OBVIOUS
  <2>1. CASE UNCHANGED vars
    BY <2>1, OtherEdit DEF vars, world, control, informer
  <2>2. CASE Next
    BY <2>2, ManagerEdit, EnvironmentEdit DEF Next
  <2>3. QED
    BY <2>1, <2>2
<1>2. EditInv => ObservedNotAhead
  BY DEF EditInv
<1>3. QED
  BY InitEdit, GuardInvariant, <1>1, <1>2, PTL DEF Spec
=============================================================================
