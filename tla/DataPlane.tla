----------------------------- MODULE DataPlane -----------------------------
(***************************************************************************)
(* The DataPlane controller (platform/controllers/dataplane): one          *)
(* cluster-scoped DataPlane object, the controller managers that reconcile *)
(* it, and the objects they keep for it: the Crossplane CompositeCluster   *)
(* or vcluster, the ArgoCD cluster secret, the clustermesh job and the     *)
(* observability hub config.                                               *)
(*                                                                         *)
(* Every API call of a reconcile is a step of its own, so users, Crossplane*)
(* and other managers act between any two of them.  A manager reads the    *)
(* object from its informer cache, which may lag behind the API server, at *)
(* the start of the pass and works on that copy (snap); the API server     *)
(* refuses to write a copy that is not the stored version, which "fresh"   *)
(* records.                                                                *)
(***************************************************************************)
EXTENDS Naturals, FiniteSets

CONSTANTS
  Managers,         \* processes that run the controller
  Elected,          \* those that share the leader-election lease
  AdoptedClusters,  \* clusters a user's own kubeconfig may point at
  NoCluster,        \* no cluster: an absent kubeconfig or registration
  MaxEdits,         \* bound on edits and deletions by users
  MaxFaults         \* bound on crashes, API faults and outages

ASSUME ConstantsAssumption ==
  /\ Elected \subseteq Managers
  /\ AdoptedClusters \cap {"composite", "vcluster"} = {}
  /\ NoCluster \notin AdoptedClusters \cup {"composite", "vcluster"}
  /\ MaxEdits \in Nat /\ MaxFaults \in Nat

VARIABLES
  dp,           \* the stored DataPlane object
  infra,        \* per managed mode: the CompositeCluster / vcluster object
  kubeconfig,   \* per secret: the cluster its kubeconfig points at
  reachable,    \* clusters whose API server answers
  appsHealthy,  \* every ArgoCD Application targeting the plane is Healthy
  argo,         \* the ArgoCD cluster secret
  meshJob,      \* the clustermesh connect job exists
  wired,        \* clusters holding the observability-hub ConfigMap
  pc,           \* per manager: the next call of its reconcile
  snap,         \* per manager: its in-memory copy of the object
  kube,         \* per manager: the cluster its data-plane client talks to
  fresh,        \* managers whose copy is the stored version
  cache,        \* per manager: the object in its informer cache
  current,      \* managers whose cache holds the stored version
  edits,        \* edits and deletions so far
  faults        \* faults so far

world == <<infra, kubeconfig, reachable, appsHealthy, argo, meshJob, wired>>
informer == <<cache, current>>
control == <<pc, snap, kube, fresh, informer>>
bounds == <<edits, faults>>
vars == <<dp, world, control, bounds>>

-----------------------------------------------------------------------------
(* Values.                                                                 *)

ManagedModes == {"composite", "vcluster"}
Modes == ManagedModes \cup {"adopt"}
Clusters == ManagedModes \cup AdoptedClusters
SecretNames == {"managed", "adopt"}    \* <dp>-kubeconfig, kubeconfigSecretRef

Conditions == {"Infra", "Registered", "Agents", "Mesh", "Obs", "Ready"}
CondStatus == {"Unknown", "True", "False"}
Unreported == [c \in Conditions |-> "Unknown"]

DPObject ==
  [plane : {"absent", "live", "deleting"},  \* deletionTimestamp unset / set
   fin   : BOOLEAN,                         \* carries our finalizer
   mode  : Modes,
   mesh  : BOOLEAN,
   gen   : Nat,                             \* metadata.generation
   edit  : Nat,                             \* generation of the last edit
   ref   : BOOLEAN,                         \* compositeRef recorded
   conds : [Conditions -> CondStatus],
   ogen  : Nat]                             \* status.observedGeneration

NoPlane == [plane |-> "absent", fin |-> FALSE, mode |-> "adopt",
            mesh |-> FALSE, gen |-> 0, edit |-> 0, ref |-> FALSE,
            conds |-> Unreported, ogen |-> 0]

(* "orphaned": its owner is gone and the garbage collector will delete it. *)
InfraState == {"none", "present", "orphaned", "terminating"}
(* The cluster secret: its server, and the edit its labels were taken from.*)
Registration == [cluster : Clusters \cup {NoCluster}, edit : Nat]
Unregistered == [cluster |-> NoCluster, edit |-> 0]

FinalizeSteps == {"finArgo", "finInfra", "finRemove"}
PhaseSteps == {"applyInfra", "recordRef", "probe", "register", "agents",
               "mesh", "observe", "commit"}
Steps == {"down", "idle", "addFin"} \cup FinalizeSteps \cup PhaseSteps

TypeOK ==
  /\ dp \in DPObject
  /\ infra \in [ManagedModes -> InfraState]
  /\ kubeconfig \in [SecretNames -> Clusters \cup {NoCluster}]
  /\ reachable \subseteq Clusters
  /\ appsHealthy \in BOOLEAN
  /\ argo \in Registration
  /\ meshJob \in BOOLEAN
  /\ wired \subseteq Clusters
  /\ pc \in [Managers -> Steps]
  /\ snap \in [Managers -> DPObject]
  /\ kube \in [Managers -> Clusters \cup {NoCluster}]
  /\ fresh \subseteq Managers
  /\ cache \in [Managers -> DPObject]
  /\ current \subseteq Managers
  /\ edits \in 0..MaxEdits /\ faults \in 0..MaxFaults

Init ==
  /\ dp = NoPlane
  /\ infra = [k \in ManagedModes |-> "none"]
  /\ kubeconfig = [s \in SecretNames |-> NoCluster]
  /\ reachable = {}
  /\ appsHealthy = TRUE
  /\ argo = Unregistered
  /\ meshJob = FALSE
  /\ wired = {}
  /\ pc = [m \in Managers |-> "down"]
  /\ snap = [m \in Managers |-> NoPlane]
  /\ kube = [m \in Managers |-> NoCluster]
  /\ fresh = {}
  /\ cache = [m \in Managers |-> NoPlane]
  /\ current = {}
  /\ edits = 0 /\ faults = 0

Edit == /\ edits < MaxEdits
        /\ edits' = edits + 1
        /\ UNCHANGED faults
Fault == /\ faults < MaxFaults
         /\ faults' = faults + 1
         /\ UNCHANGED edits

-----------------------------------------------------------------------------
(* Helpers on a copy s of the object and on a manager's pass.              *)

SecretOf(mode) == IF mode = "adopt" THEN "adopt" ELSE "managed"
CondFrom(enabled) == IF enabled THEN "True" ELSE "False"
SetCond(s, c, v) == [s EXCEPT !.conds = [@ EXCEPT ![c] = v]]

(* Fault: the reason of the condition written as its status.               *)
HeldByReason(s, c) == SetCond(s, c, "Provisioning")

(* A hard error (fail) also takes the aggregate Ready down; a phase that   *)
(* is merely not there yet (progress) leaves Ready as it was.              *)
Failed(s, c) == SetCond(SetCond(s, c, "False"), "Ready", "False")
Held(s, c) == SetCond(s, c, "False")

(* Writes to the object: the finalizer, the composite reference on the     *)
(* spec (a new generation), the status.                                    *)
WithFinalizer(s) == [s EXCEPT !.fin = TRUE]
WithRef(s) == [s EXCEPT !.ref = TRUE, !.gen = @ + 1]
WithStatus(d, s) == [d EXCEPT !.conds = s.conds, !.ogen = s.ogen]

GoTo(m, step, s) == /\ pc' = [pc EXCEPT ![m] = step]
                    /\ snap' = [snap EXCEPT ![m] = s]

(* The pass is over: the copy is dropped, the request is queued again.     *)
EndPass(m) == /\ GoTo(m, "idle", NoPlane)
              /\ kube' = [kube EXCEPT ![m] = NoCluster]

(* A write that changes nothing makes no new version.                      *)
Store(new) == /\ dp' = new
              /\ current' = IF new = dp THEN current ELSE {}

(* Fault: a forced write, without the version that was read.               *)
ForceAndEnd(m, new) ==
  EndPass(m) /\ Store(new) /\ fresh' = {} /\ UNCHANGED cache

(* Write new over the stored object, the last write of the pass: refused   *)
(* with a conflict, or not found, when the copy is stale.                  *)
UpdateAndEnd(m, new) ==
  /\ EndPass(m)
  /\ IF m \in fresh
       THEN Store(new) /\ fresh' = IF new = dp THEN fresh \ {m} ELSE {}
       ELSE UNCHANGED <<dp, current, fresh>>
  /\ UNCHANGED cache

-----------------------------------------------------------------------------
(* The managers.                                                           *)

(* The cache is filled before the first reconcile ...                      *)
ListWatch(m) == /\ cache' = [cache EXCEPT ![m] = dp]
                /\ current' = current \cup {m}

(* Fault: the manager runs without leader election.                        *)
StartUnelected(m) ==
  /\ pc[m] = "down"
  /\ pc' = [pc EXCEPT ![m] = "idle"]
  /\ ListWatch(m)
  /\ UNCHANGED <<dp, world, snap, kube, fresh, bounds>>

(* Managers that share the lease run one at a time.                        *)
Start(m) ==
  /\ pc[m] = "down"
  /\ m \in Elected => \A n \in Elected : pc[n] = "down"
  /\ pc' = [pc EXCEPT ![m] = "idle"]
  /\ ListWatch(m)
  /\ UNCHANGED <<dp, world, snap, kube, fresh, bounds>>

(* ... and follows the API server, at its own pace.                        *)
Deliver(m) ==
  /\ pc[m] # "down" /\ m \notin current
  /\ ListWatch(m)
  /\ UNCHANGED <<dp, world, pc, snap, kube, fresh, bounds>>

(* A crash, an eviction, a lost lease, the CLI exiting.                    *)
Stop(m) ==
  /\ pc[m] # "down"
  /\ Fault
  /\ GoTo(m, "down", NoPlane)
  /\ kube' = [kube EXCEPT ![m] = NoCluster]
  /\ fresh' = fresh \ {m}
  /\ cache' = [cache EXCEPT ![m] = NoPlane]
  /\ current' = current \ {m}
  /\ UNCHANGED <<dp, world>>

(* Fault: the phases start before the finalizer is on the object.          *)
FirstStepUnguarded(d) ==
  CASE d.plane = "deleting"                  -> "finArgo"
    [] d.plane = "live" /\ d.mode = "adopt"  -> "probe"
    [] OTHER                                 -> "applyInfra"

FirstStep(d) ==
  CASE d.plane = "deleting"                              -> "finArgo"
    [] d.plane = "live" /\ ~d.fin                        -> "addFin"
    [] d.plane = "live" /\ d.fin /\ d.mode = "adopt"     -> "probe"
    [] OTHER                                             -> "applyInfra"

(* Fault: objects being deleted are filtered out.                          *)
BeginLive(m) ==
  /\ pc[m] = "idle"
  /\ cache[m].plane = "live"
  /\ GoTo(m, FirstStep(cache[m]), cache[m])
  /\ fresh' = fresh \cup (current \cap {m})
  /\ UNCHANGED <<dp, world, kube, informer, bounds>>

(* Reconcile starts: read the object from the cache and choose the way.    *)
Begin(m) ==
  /\ pc[m] = "idle"
  /\ cache[m].plane # "absent"
  /\ GoTo(m, FirstStep(cache[m]), cache[m])
  /\ fresh' = fresh \cup (current \cap {m})
  /\ UNCHANGED <<dp, world, kube, informer, bounds>>

AddFinalizer(m) ==
  /\ pc[m] = "addFin"
  /\ UpdateAndEnd(m, WithFinalizer(snap[m]))
  /\ UNCHANGED <<world, bounds>>

AfterApply(s) == IF s.mode = "composite" /\ ~s.ref THEN "recordRef" ELSE "probe"

(* Server-side apply of the CompositeCluster or vcluster, owned by the     *)
(* DataPlane.  An object already being deleted stays so.                   *)
ApplyInfra(m) ==
  LET k == snap[m].mode IN
  /\ pc[m] = "applyInfra"
  /\ infra' = [infra EXCEPT ![k] =
                 IF @ = "terminating" THEN @
                 ELSE IF dp.plane = "absent" THEN "orphaned" ELSE "present"]
  /\ GoTo(m, AfterApply(snap[m]), snap[m])
  /\ UNCHANGED <<dp, kubeconfig, reachable, appsHealthy, argo, meshJob,
                 wired, kube, fresh, informer, bounds>>

(* The kind is not installed: the apply is skipped, the pass goes on.      *)
SkipInfra(m) ==
  /\ pc[m] = "applyInfra"
  /\ Fault
  /\ GoTo(m, AfterApply(snap[m]), snap[m])
  /\ UNCHANGED <<dp, world, kube, fresh, informer>>

(* Record the composite on the spec once; the write bumps the generation   *)
(* and the response becomes the manager's copy.                            *)
RecordRef(m) ==
  /\ pc[m] = "recordRef"
  /\ IF m \in fresh
       THEN /\ dp' = WithRef(snap[m])
            /\ fresh' = {m} /\ current' = {}
            /\ GoTo(m, "probe", WithRef(snap[m]))
       ELSE /\ GoTo(m, "commit", Failed(snap[m], "Infra"))
            /\ UNCHANGED <<dp, fresh, current>>
  /\ UNCHANGED <<world, kube, cache, bounds>>

(* Load the kubeconfig and ask the cluster for its version.  An adopted    *)
(* cluster that is missing or silent is an error, a managed one is still   *)
(* being provisioned.                                                      *)
Probe(m) ==
  LET s == snap[m]
      c == kubeconfig[SecretOf(s.mode)] IN
  /\ pc[m] = "probe"
  /\ IF c \in reachable
       THEN /\ GoTo(m, "register", SetCond(s, "Infra", "True"))
            /\ kube' = [kube EXCEPT ![m] = c]
       ELSE /\ GoTo(m, "commit", IF s.mode = "adopt" THEN Failed(s, "Infra")
                                                     ELSE Held(s, "Infra"))
            /\ UNCHANGED kube
  /\ UNCHANGED <<dp, world, fresh, informer, bounds>>

(* Fault: an existing cluster secret is left as it is.                     *)
RegisterOnce(m) ==
  LET s == snap[m]
      c == kubeconfig[SecretOf(s.mode)] IN
  /\ pc[m] = "register"
  /\ IF c # NoCluster
       THEN /\ argo' = IF argo.cluster = NoCluster
                         THEN [cluster |-> c, edit |-> s.edit] ELSE argo
            /\ GoTo(m, "agents", SetCond(s, "Registered", "True"))
       ELSE /\ GoTo(m, "commit", Failed(s, "Registered"))
            /\ UNCHANGED argo
  /\ UNCHANGED <<dp, infra, kubeconfig, reachable, appsHealthy, meshJob, wired,
                 kube, fresh, informer, bounds>>

(* Re-read the kubeconfig secret and apply the ArgoCD cluster secret with  *)
(* the labels of the copy.                                                 *)
Register(m) ==
  LET s == snap[m]
      c == kubeconfig[SecretOf(s.mode)] IN
  /\ pc[m] = "register"
  /\ IF c # NoCluster
       THEN /\ argo' = [cluster |-> c, edit |-> s.edit]
            /\ GoTo(m, "agents", SetCond(s, "Registered", "True"))
       ELSE /\ GoTo(m, "commit", Failed(s, "Registered"))
            /\ UNCHANGED argo
  /\ UNCHANGED <<dp, infra, kubeconfig, reachable, appsHealthy, meshJob, wired,
                 kube, fresh, informer, bounds>>

(* Fault: a plane without mesh keeps the MeshJoined it had.                *)
CheckAgentsOnly(m) ==
  LET t == SetCond(snap[m], "Agents", "True") IN
  /\ pc[m] = "agents"
  /\ IF argo.cluster # NoCluster /\ appsHealthy
       THEN GoTo(m, IF snap[m].mesh THEN "mesh" ELSE "observe", t)
       ELSE GoTo(m, "commit", Held(snap[m], "Agents"))
  /\ UNCHANGED <<dp, world, kube, fresh, informer, bounds>>

(* The agents are ready when the registration is visible and every         *)
(* Application targeting the plane is Healthy.  MeshJoined of a plane      *)
(* without mesh is reported False on the way.                              *)
CheckAgents(m) ==
  LET s == snap[m]
      t == SetCond(s, "Agents", "True") IN
  /\ pc[m] = "agents"
  /\ IF argo.cluster # NoCluster /\ appsHealthy
       THEN IF s.mesh THEN GoTo(m, "mesh", t)
                      ELSE GoTo(m, "observe", SetCond(t, "Mesh", CondFrom(FALSE)))
       ELSE GoTo(m, "commit", Held(s, "Agents"))
  /\ UNCHANGED <<dp, world, kube, fresh, informer, bounds>>

JoinMesh(m) ==
  /\ pc[m] = "mesh"
  /\ meshJob' = TRUE
  /\ GoTo(m, "observe", SetCond(snap[m], "Mesh", CondFrom(TRUE)))
  /\ UNCHANGED <<dp, infra, kubeconfig, reachable, appsHealthy, argo, wired,
                 kube, fresh, informer, bounds>>

Aggregated(s) == LET t == SetCond(SetCond(s, "Obs", "True"), "Ready", "True")
                 IN [t EXCEPT !.ogen = t.gen]

(* Write the hub ConfigMap through the client of phase 1, then aggregate.  *)
Observe(m) ==
  /\ pc[m] = "observe"
  /\ IF kube[m] \in reachable
       THEN /\ wired' = wired \cup {kube[m]}
            /\ GoTo(m, "commit", Aggregated(snap[m]))
       ELSE /\ GoTo(m, "commit", Failed(snap[m], "Obs"))
            /\ UNCHANGED wired
  /\ UNCHANGED <<dp, infra, kubeconfig, reachable, appsHealthy, argo, meshJob,
                 kube, fresh, informer, bounds>>

(* Status().Update, the end of every pass that went through the phases.    *)
Commit(m) ==
  /\ pc[m] = "commit"
  /\ UpdateAndEnd(m, WithStatus(dp, snap[m]))
  /\ UNCHANGED <<world, bounds>>

(* Fault: the registration of a provisioned plane is left to go with it.   *)
DeregisterAdopted(m) ==
  /\ pc[m] = "finArgo"
  /\ argo' = IF snap[m].mode = "adopt" THEN Unregistered ELSE argo
  /\ GoTo(m, IF snap[m].mode # "adopt" THEN "finInfra" ELSE "finRemove", snap[m])
  /\ UNCHANGED <<dp, infra, kubeconfig, reachable, appsHealthy, meshJob, wired,
                 kube, fresh, informer, bounds>>

(* finalize: deregister from ArgoCD, ...                                   *)
Deregister(m) ==
  /\ pc[m] = "finArgo"
  /\ argo' = Unregistered
  /\ GoTo(m, IF snap[m].mode # "adopt" THEN "finInfra" ELSE "finRemove", snap[m])
  /\ UNCHANGED <<dp, infra, kubeconfig, reachable, appsHealthy, meshJob, wired,
                 kube, fresh, informer, bounds>>

(* ... delete the infra of the mode the copy names, ...                    *)
DeleteInfra(m) ==
  LET k == snap[m].mode IN
  /\ pc[m] = "finInfra"
  /\ infra' = [infra EXCEPT ![k] = IF @ = "none" THEN @ ELSE "terminating"]
  /\ GoTo(m, "finRemove", snap[m])
  /\ UNCHANGED <<dp, kubeconfig, reachable, appsHealthy, argo, meshJob, wired,
                 kube, fresh, informer, bounds>>

(* What the object owned and nobody deleted is left to garbage collection. *)
Disowned == [k \in ManagedModes |->
               IF infra[k] = "present" THEN "orphaned" ELSE infra[k]]

(* ... and remove the finalizer, which removes the object.                 *)
RemoveFinalizer(m) ==
  /\ pc[m] = "finRemove"
  /\ UpdateAndEnd(m, NoPlane)
  /\ infra' = IF m \in fresh THEN Disowned ELSE infra
  /\ UNCHANGED <<kubeconfig, reachable, appsHealthy, argo, meshJob, wired,
                 bounds>>

(* The next API call fails.  In a phase that is a hard error of the phase; *)
(* anywhere else the request is queued again.                              *)
PhaseCondition(step) ==
  CASE step \in {"applyInfra", "recordRef", "probe"} -> "Infra"
    [] step = "register" -> "Registered"
    [] step = "agents"   -> "Agents"
    [] step = "mesh"     -> "Mesh"
    [] OTHER             -> "Obs"

(* The cluster secret just applied is not in the cache yet.                *)
RegistrationUnseen(m) ==
  /\ pc[m] = "agents"
  /\ Fault
  /\ GoTo(m, "commit", Held(snap[m], "Agents"))
  /\ UNCHANGED <<dp, world, kube, fresh, informer>>

CallFails(m) ==
  /\ Fault
  /\ \/ /\ pc[m] \in PhaseSteps \ {"commit"}
        /\ GoTo(m, "commit", Failed(snap[m], PhaseCondition(pc[m])))
        /\ UNCHANGED <<kube, fresh>>
     \/ /\ pc[m] \in FinalizeSteps \cup {"addFin", "commit"}
        /\ EndPass(m)
        /\ fresh' = fresh \ {m}
  /\ UNCHANGED <<dp, world, informer>>

-----------------------------------------------------------------------------
(* Users, Crossplane, the vcluster operator, the clusters.  Any write to   *)
(* the object by somebody else makes every copy and every cache stale.     *)

Created(mode, mesh) == [NoPlane EXCEPT !.plane = "live", !.mode = mode,
                                       !.mesh = mesh, !.gen = 1, !.edit = 1]
Edited(d, mode, mesh) == [d EXCEPT !.mode = mode, !.mesh = mesh,
                                   !.gen = @ + 1, !.edit = d.gen + 1]
MarkedDeleted(d) == [d EXCEPT !.plane = "deleting", !.gen = @ + 1]

CreatePlane ==
  /\ dp.plane = "absent"
  /\ \E mode \in Modes, mesh \in BOOLEAN :
       dp' = Created(mode, mesh)
  /\ fresh' = {} /\ current' = {}
  /\ UNCHANGED <<world, pc, snap, kube, cache, bounds>>

(* Any field of the spec may be edited: mode and mesh, or (same mode and   *)
(* mesh) a placement label, the hub or the profile.                        *)
EditPlane ==
  /\ dp.plane # "absent"
  /\ Edit
  /\ \E mode \in Modes, mesh \in BOOLEAN :
       dp' = Edited(dp, mode, mesh)
  /\ fresh' = {} /\ current' = {}
  /\ UNCHANGED <<world, pc, snap, kube, cache>>

(* With the finalizer the object is only marked; without it, it is gone.   *)
DeletePlane ==
  /\ dp.plane = "live"
  /\ Edit
  /\ IF dp.fin
       THEN /\ dp' = MarkedDeleted(dp)
            /\ UNCHANGED infra
       ELSE /\ dp' = NoPlane
            /\ infra' = Disowned
  /\ fresh' = {} /\ current' = {}
  /\ UNCHANGED <<kubeconfig, reachable, appsHealthy, argo, meshJob, wired,
                 pc, snap, kube, cache>>

UserEdits == CreatePlane \/ EditPlane \/ DeletePlane

(* The user supplies, replaces or removes the adopted kubeconfig.          *)
SupplyKubeconfig ==
  /\ Edit
  /\ \E c \in AdoptedClusters \cup {NoCluster} :
       kubeconfig' = [kubeconfig EXCEPT !["adopt"] = c]
  /\ UNCHANGED <<dp, infra, reachable, appsHealthy, argo, meshJob, wired, control>>

(* Both operators publish under <dp>-kubeconfig; overwriting the other's   *)
(* counts as a fault.                                                      *)
PublishKubeconfig ==
  /\ \E k \in ManagedModes :
       /\ infra[k] = "present"
       /\ kubeconfig["managed"] # k
       /\ kubeconfig' = [kubeconfig EXCEPT !["managed"] = k]
  /\ \/ kubeconfig["managed"] = NoCluster /\ UNCHANGED bounds
     \/ kubeconfig["managed"] # NoCluster /\ Fault
  /\ UNCHANGED <<dp, infra, reachable, appsHealthy, argo, meshJob, wired, control>>

ClusterUp ==
  /\ \E c \in Clusters \ reachable :
       /\ c \in ManagedModes => infra[c] = "present"
       /\ reachable' = reachable \cup {c}
  /\ UNCHANGED <<dp, infra, kubeconfig, appsHealthy, argo, meshJob, wired,
                 control, bounds>>

ClusterDown ==
  /\ Fault
  /\ \E c \in reachable : reachable' = reachable \ {c}
  /\ UNCHANGED <<dp, infra, kubeconfig, appsHealthy, argo, meshJob, wired, control>>

AppsDegrade ==
  /\ appsHealthy
  /\ Fault
  /\ appsHealthy' = FALSE
  /\ UNCHANGED <<dp, infra, kubeconfig, reachable, argo, meshJob, wired, control>>

AppsRecover ==
  /\ ~appsHealthy
  /\ appsHealthy' = TRUE
  /\ UNCHANGED <<dp, infra, kubeconfig, reachable, argo, meshJob, wired,
                 control, bounds>>

(* The cluster behind a deleted object goes, with the kubeconfig it        *)
(* published.                                                              *)
InfraGone ==
  /\ \E k \in ManagedModes :
       /\ infra[k] = "terminating"
       /\ infra' = [infra EXCEPT ![k] = "none"]
       /\ kubeconfig' = IF kubeconfig["managed"] = k
                          THEN [kubeconfig EXCEPT !["managed"] = NoCluster]
                          ELSE kubeconfig
       /\ reachable' = reachable \ {k}
       /\ wired' = wired \ {k}
  /\ UNCHANGED <<dp, appsHealthy, argo, meshJob, control, bounds>>

CollectOrphan ==
  /\ \E k \in ManagedModes :
       /\ infra[k] = "orphaned"
       /\ infra' = [infra EXCEPT ![k] = "terminating"]
  /\ UNCHANGED <<dp, kubeconfig, reachable, appsHealthy, argo, meshJob, wired,
                 control, bounds>>

Environment == \/ UserEdits \/ SupplyKubeconfig \/ PublishKubeconfig
               \/ ClusterUp \/ ClusterDown \/ AppsDegrade \/ AppsRecover
               \/ InfraGone \/ CollectOrphan

-----------------------------------------------------------------------------

Phase(m) == \/ ApplyInfra(m) \/ RecordRef(m) \/ Probe(m) \/ Register(m)
            \/ CheckAgents(m) \/ JoinMesh(m) \/ Observe(m) \/ Commit(m)
Finalize(m) == Deregister(m) \/ DeleteInfra(m) \/ RemoveFinalizer(m)
Reconcile(m) == Begin(m) \/ AddFinalizer(m) \/ Phase(m) \/ Finalize(m)
Mishap(m) == Stop(m) \/ SkipInfra(m) \/ RegistrationUnseen(m) \/ CallFails(m)

Next == \/ \E m \in Managers : Start(m) \/ Deliver(m) \/ Reconcile(m) \/ Mishap(m)
        \/ Environment

(* The watch catches up, the work queue and RequeueAfter keep a running    *)
(* manager going and the Deployment restarts a stopped replica; nothing    *)
(* obliges users, clusters or operators to act, nor anybody to run the CLI *)
(* again.                                                                  *)
Fairness == /\ \A m \in Elected : WF_vars(Start(m))
            /\ \A m \in Managers : WF_vars(Deliver(m)) /\ WF_vars(Reconcile(m))

Spec == Init /\ [][Next]_vars
FairSpec == Spec /\ Fairness

-----------------------------------------------------------------------------
(* Properties.                                                             *)

(* No two managers can run at the same time: they all share the lease.     *)
SharedElection == \A m, n \in Managers : m # n => {m, n} \subseteq Elected

(* Teardown leaves no ArgoCD registration behind: a cluster secret exists  *)
(* only while the object that asked for it exists and carries the          *)
(* finalizer that will remove it, whatever crash, edit or deletion falls   *)
(* between two calls of a pass.                                            *)
NoOrphanRegistration ==
  argo.cluster # NoCluster => dp.plane # "absent" /\ dp.fin

(* Teardown leaves no infrastructure behind either: a composite or vcluster*)
(* that nobody is deleting belongs to a plane that exists and carries the  *)
(* finalizer, also after its mode was edited and finalize deletes only the *)
(* infrastructure of the mode its copy names.                              *)
Guarded(d) == d.plane # "absent" /\ d.fin
InfraGuarded == \A k \in ManagedModes : infra[k] = "present" => Guarded(dp)

(* status.observedGeneration never runs ahead of the work: a live plane    *)
(* that reports to have observed the last edit is registered with the      *)
(* labels of that edit, whatever stale copy a later pass works from.       *)
ObservedNotAhead ==
  dp.plane = "live" /\ dp.ogen >= dp.edit =>
    argo.cluster # NoCluster /\ argo.edit = dp.edit

(* A plane turns Ready in one piece: the status that first says so has     *)
(* every gating phase True, reports the mesh the stored spec asks for and  *)
(* the stored generation.  A pass overtaken by an edit cannot publish.     *)
GatingPhases == {"Infra", "Registered", "Agents", "Obs"}
AllPhasesTrue(d) == /\ \A c \in GatingPhases : d.conds[c] = "True"
                    /\ d.conds["Mesh"] = CondFrom(d.mesh)
BecomesReadyWhole ==
  [][dp.conds["Ready"] # "True" /\ dp'.conds["Ready"] = "True" =>
       AllPhasesTrue(dp') /\ dp'.ogen = dp'.gen]_vars

(* Nothing of a live plane is taken away: neither its registration nor its *)
(* infrastructure goes while the object stays live, also when it was       *)
(* deleted and created again under the same name.                          *)
LivePlaneKeepsResources ==
  [][dp.plane = "live" /\ dp'.plane = "live" =>
       /\ argo.cluster # NoCluster => argo'.cluster # NoCluster
       /\ \A k \in ManagedModes : infra[k] = "present" => infra'[k] = "present"]_vars

(* A deleted plane eventually goes: crashes and API faults only delay the  *)
(* removal of the finalizer.                                               *)
TeardownCompletes == dp.plane = "deleting" ~> dp.plane = "absent"

(* Once the cluster of a live plane stays reachable through its kubeconfig *)
(* and its Applications stay Healthy, the plane becomes and stays Ready    *)
(* with every phase reported, for the current generation, registered with  *)
(* the cluster its kubeconfig names, and that cluster is wired to the hub. *)
Healthy ==
  /\ dp.plane = "live"
  /\ kubeconfig[SecretOf(dp.mode)] \in reachable
  /\ appsHealthy
Converged ==
  /\ dp.conds["Ready"] = "True" /\ AllPhasesTrue(dp)
  /\ dp.ogen = dp.gen
  /\ argo.cluster = kubeconfig[SecretOf(dp.mode)]
  /\ argo.cluster \in wired
Converges == <>[]Healthy => <>[]Converged

(* The life of one plane implements PlaneLifecycle: registered only while  *)
(* guarded, deregistered only while deleting, gone only when deregistered. *)
PlaneState == IF dp.plane = "live"
                THEN IF dp.fin THEN "guarded" ELSE "bare"
                ELSE dp.plane
Life == INSTANCE PlaneLifecycle WITH plane <- PlaneState,
                                     registered <- argo.cluster # NoCluster
ImplementsLifecycle == Life!LifeSpec
=============================================================================
