--------------------------- MODULE AdharPlatform ---------------------------
(***************************************************************************)
(* The AdharPlatform controller (platform/controllers/adharplatform): one  *)
(* AdharPlatform object, the runs of "adhar up" and the in-cluster manager *)
(* that reconcile it, and the cluster they install: core packages, the     *)
(* Crossplane control plane, the GitOps repositories and ApplicationSets.  *)
(*                                                                         *)
(* A manifest is one object, landed or not.  Each manifest, each           *)
(* repository and each write of the status is a step of its own: users,    *)
(* operators and the other managers act between any two.                   *)
(***************************************************************************)
EXTENDS Naturals, FiniteSets

CONSTANTS
  Managers,    \* processes that run the controller
  Pods,        \* the in-cluster ones: no stack directory, never exit
  OnKind,      \* provider kind: gateway node ports are pinned
  HAMode,      \* CloudNativePG before Gitea
  MaxRuns,     \* bound on runs of the CLI
  MaxFaults,   \* bound on crashes, API faults and outages
  Removable,   \* what somebody may delete from the cluster
  MaxRemovals  \* bound on such deletions

ASSUME ConstantsAssumption ==
  /\ Pods \subseteq Managers
  /\ OnKind \in BOOLEAN /\ HAMode \in BOOLEAN
  /\ MaxRuns \in Nat /\ MaxFaults \in Nat
  /\ Removable \subseteq {"argocd", "gitea", "crossplane", "appset", "workload"}
  /\ MaxRemovals \in Nat

VARIABLES
  platform,    \* the stored AdharPlatform: created, status flags
  landed,      \* manifests whose objects are in the cluster
  kinds,       \* kinds that operators register late and that are there
  up,          \* deployments with ready replicas
  service,     \* the Service Cilium generates for the gateway
  repos,       \* per GitOps repository: what its main branch holds
  pc,          \* per manager: the next step of its reconcile
  snap,        \* per manager: the status flags of its copy
  fresh,       \* managers whose copy is the stored version
  cache,       \* per manager: the object in its informer cache
  current,     \* managers whose cache holds the stored version
  submitted,   \* CLI runs that have written the object
  handedOver,  \* the in-cluster manager is deployed
  runs, faults, removals  \* counted against the bounds

cluster == <<landed, kinds, up, service, repos>>
informer == <<cache, current>>
process == <<pc, snap, fresh, submitted, handedOver>>
bounds == <<runs, faults, removals>>
vars == <<platform, cluster, informer, process, bounds>>

Clis == Managers \ Pods

-----------------------------------------------------------------------------
(* Values.                                                                 *)

CoreFlags == {"argocd", "gateway", "gitea", "crossplane", "controlPlane"}
Flags == CoreFlags \cup {"repositories"}
Platform == [created : BOOLEAN, flags : SUBSET Flags]
NoPlatform == [created |-> FALSE, flags |-> {}]

Packages == {"gatewayAPI", "cilium", "gateway", "cnpg", "giteaDB", "argocd",
             "gitea", "crossplane"}
(* The embedded control-plane configuration: XRDs, Compositions and        *)
(* Functions, provider packages, their configurations, Operations.         *)
Configuration == {"definitions", "providers", "providerConfigs", "operations"}
(* The ApplicationSets of the platform (with the repository credentials)   *)
(* and of the workload clusters.                                           *)
Stack == {"appset", "workload"}
Objects == Packages \cup Configuration \cup Stack \cup {"classConfig"}

(* Kinds that appear only after their operator runs.                       *)
LateKinds == {"classConfig", "crossplane", "provider"}
KindOf(c) == IF c = "providerConfigs" THEN "provider" ELSE "crossplane"

Deployments == {"argocd", "gitea", "crossplane", "cnpg"}
CoreDeployments == {"argocd", "gitea", "crossplane"}
Repositories == {"packages", "environments"}
Contents == {"none", "empty", "seeded"}
Services == {"none", "loadBalancer", "nodePort", "pinned"}

(* The order of a pass.                                                    *)
Then ==
  [gatewayAPI |-> "cilium", cilium |-> "gateway",
   gateway |-> IF OnKind THEN "pin" ELSE IF HAMode THEN "cnpg" ELSE "argocd",
   pin |-> IF HAMode THEN "cnpg" ELSE "argocd",
   cnpg |-> "giteaDB", giteaDB |-> "argocd", argocd |-> "gitea",
   gitea |-> "crossplane", crossplane |-> "definitions",
   definitions |-> "providers", providers |-> "providerConfigs",
   providerConfigs |-> "operations",
   create |-> "packages", packages |-> "environments",
   environments |-> "record", record |-> "appset", appset |-> "workload",
   workload |-> "decide"]

Ends == {"post", "postExit"}
Steps == DOMAIN Then \cup Ends \cup
         {"operations", "down", "idle", "enter", "decide", "exit"}

TypeOK ==
  /\ platform \in Platform
  /\ landed \subseteq Objects /\ kinds \subseteq LateKinds
  /\ up \subseteq Deployments /\ service \in Services
  /\ repos \in [Repositories -> Contents]
  /\ pc \in [Managers -> Steps]
  /\ snap \in [Managers -> SUBSET Flags]
  /\ fresh \subseteq Managers
  /\ cache \in [Managers -> Platform] /\ current \subseteq Managers
  /\ submitted \subseteq Clis /\ handedOver \in BOOLEAN
  /\ runs \in 0..MaxRuns /\ faults \in 0..MaxFaults
  /\ removals \in 0..MaxRemovals

Init ==
  /\ platform = NoPlatform
  /\ landed = {} /\ kinds = {} /\ up = {} /\ service = "none"
  /\ repos = [r \in Repositories |-> "none"]
  /\ pc = [m \in Managers |-> "down"]
  /\ snap = [m \in Managers |-> {}]
  /\ fresh = {}
  /\ cache = [m \in Managers |-> NoPlatform]
  /\ current = {} /\ submitted = {} /\ handedOver = FALSE
  /\ runs = 0 /\ faults = 0 /\ removals = 0

Fault == /\ faults < MaxFaults
         /\ faults' = faults + 1
         /\ UNCHANGED <<runs, removals>>

-----------------------------------------------------------------------------
(* Processes.                                                              *)

GoTo(m, step) == pc' = [pc EXCEPT ![m] = step]
Learn(m, flags) == snap' = [snap EXCEPT ![m] = @ \cup flags]

ListWatch(m) == /\ cache' = [cache EXCEPT ![m] = platform]
                /\ current' = current \cup {m}

(* "adhar up" starts a manager of its own; the in-cluster manager exists   *)
(* once a run handed over, and its Deployment restarts it.                 *)
Start(m) ==
  /\ pc[m] = "down"
  /\ IF m \in Pods
       THEN handedOver /\ UNCHANGED runs
       ELSE runs < MaxRuns /\ runs' = runs + 1
  /\ GoTo(m, "idle")
  /\ ListWatch(m)
  /\ submitted' = submitted \ {m}
  /\ UNCHANGED <<platform, cluster, snap, fresh, handedOver, faults,
                 removals>>

(* The CLI writes the object only after its controllers run.               *)
Submit(m) ==
  /\ m \in Clis \ submitted
  /\ pc[m] # "down"
  /\ submitted' = submitted \cup {m}
  /\ platform' = [platform EXCEPT !.created = TRUE]
  /\ fresh' = {} /\ current' = {}
  /\ UNCHANGED <<cluster, cache, pc, snap, handedOver, bounds>>

Deliver(m) ==
  /\ pc[m] # "down" /\ m \notin current
  /\ ListWatch(m)
  /\ UNCHANGED <<platform, cluster, process, bounds>>

Halt(m) == /\ GoTo(m, "down")
           /\ snap' = [snap EXCEPT ![m] = {}]
           /\ fresh' = fresh \ {m}
           /\ cache' = [cache EXCEPT ![m] = NoPlatform]
           /\ current' = current \ {m}
           /\ UNCHANGED <<platform, cluster>>

Crash(m) == /\ pc[m] # "down"
            /\ Fault
            /\ Halt(m)
            /\ UNCHANGED <<submitted, handedOver>>

(* A run whose context is cancelled goes on as one that succeeded: it      *)
(* deploys the in-cluster manager (on kind when asked to).  One cancelled  *)
(* before it wrote the object fails instead.                               *)
EndRun(m) == /\ Halt(m)
             /\ handedOver' = (handedOver \/ m \in submitted)
             /\ UNCHANGED submitted

(* The user interrupts the CLI.                                            *)
Interrupt(m) == /\ m \in Clis /\ pc[m] # "down"
                /\ Fault
                /\ EndRun(m)

(* The controller cancels the context of the CLI.                          *)
Exit(m) == /\ pc[m] = "exit"
           /\ EndRun(m)
           /\ UNCHANGED bounds

-----------------------------------------------------------------------------
(* A pass.                                                                 *)

Begin(m) ==
  /\ pc[m] = "idle"
  /\ cache[m].created
  /\ snap' = [snap EXCEPT ![m] = cache[m].flags]
  /\ fresh' = IF m \in current THEN fresh \cup {m} ELSE fresh
  /\ GoTo(m, "enter")
  /\ UNCHANGED <<platform, cluster, informer, submitted, handedOver, bounds>>

(* Fault: the ApplicationSets are not looked at.                           *)
AlreadyRunning == CoreDeployments \subseteq up

(* isPlatformAlreadyDeployed: core deployments ready, any ApplicationSet.  *)
AlreadyDeployed == /\ CoreDeployments \subseteq up
                   /\ {"appset", "workload"} \cap landed # {}

(* Fault: the whole stack is applied only until the repositories exist.    *)
StackStepOnce(m, flags) == IF m \in Pods \/ "repositories" \in flags
                             THEN "decide" ELSE "create"

(* applyPlatformStack runs only where there is a stack directory.          *)
StackStep(m, flags) == IF m \in Pods THEN "decide"
                       ELSE IF "repositories" \in flags THEN "appset" ELSE "create"

(* The fast path of a CLI that finds the platform deployed, the core       *)
(* packages until every flag is set, then the stack.                       *)
Enter(m) ==
  /\ pc[m] = "enter"
  /\ GoTo(m, IF m \in Clis /\ "controlPlane" \in snap[m] /\ AlreadyDeployed
               THEN "postExit"
             ELSE IF ~(CoreFlags \subseteq snap[m]) THEN "gatewayAPI"
             ELSE StackStep(m, snap[m]))
  /\ UNCHANGED <<platform, cluster, informer, snap, fresh, submitted,
                 handedOver, bounds>>

passive == <<platform, kinds, up, service, repos, informer, fresh, submitted,
             handedOver>>

(* Fault: every package is a flag of the status.                           *)
FlagsOfAny(p) == {p}
FlagsOf(p) == {p} \cap Flags

(* A core package: its manifests and, at the end, its flag.                *)
InstallPackage(m) ==
  /\ pc[m] \in {"gatewayAPI", "cilium", "cnpg", "argocd", "gitea"}
  /\ landed' = landed \cup {pc[m]}
  /\ Learn(m, FlagsOf(pc[m]))
  /\ GoTo(m, Then[pc[m]])
  /\ UNCHANGED <<passive, bounds>>

(* The manifest of the gateway holds a CiliumGatewayClassConfig, skipped   *)
(* while its kind is missing.  Off kind there is no port to pin.           *)
InstallGateway(m) ==
  /\ pc[m] = "gateway"
  /\ landed' = landed \cup {"gateway"} \cup (kinds \cap {"classConfig"})
  /\ Learn(m, IF OnKind THEN {} ELSE {"gateway"})
  /\ GoTo(m, Then["gateway"])
  /\ UNCHANGED <<passive, bounds>>

(* A Service that is no NodePort yet is left to a later pass.              *)
PinNodePorts(m) ==
  /\ pc[m] = "pin"
  /\ IF service \in {"nodePort", "pinned"}
       THEN service' = "pinned" /\ Learn(m, {"gateway"})
       ELSE UNCHANGED <<service, snap>>
  /\ GoTo(m, Then["pin"])
  /\ UNCHANGED <<platform, landed, kinds, up, repos, informer, fresh,
                 submitted, handedOver, bounds>>

(* Fault: an operator that does not answer in time is passed over.         *)
InstallDatabaseLater(m) ==
  /\ pc[m] = "giteaDB"
  /\ landed' = IF "cnpg" \in up THEN landed \cup {"giteaDB"} ELSE landed
  /\ GoTo(m, Then["giteaDB"])
  /\ UNCHANGED <<passive, snap, bounds>>

(* The operator of CloudNativePG must answer before its database lands.    *)
InstallDatabase(m) ==
  /\ pc[m] = "giteaDB"
  /\ IF "cnpg" \in up
       THEN landed' = landed \cup {"giteaDB"} /\ GoTo(m, Then["giteaDB"])
       ELSE UNCHANGED landed /\ GoTo(m, "post")
  /\ UNCHANGED <<passive, snap, bounds>>

(* Available once applied, ready or not; a control plane that was applied  *)
(* is not applied again.                                                   *)
InstallCrossplane(m) ==
  /\ pc[m] = "crossplane"
  /\ landed' = landed \cup {"crossplane"}
  /\ Learn(m, {"crossplane"})
  /\ GoTo(m, IF "controlPlane" \in snap[m] THEN StackStep(m, snap[m]) ELSE "definitions")
  /\ UNCHANGED <<passive, bounds>>

(* One directory of the configuration.  applyManifest skips objects whose  *)
(* kind is not registered without an error.                                *)
Configure(m) ==
  /\ pc[m] \in Configuration
  /\ landed' = IF KindOf(pc[m]) \in kinds THEN landed \cup {pc[m]} ELSE landed
  /\ IF pc[m] = "operations"
       THEN Learn(m, {"controlPlane"}) /\ GoTo(m, StackStep(m, snap[m]))
       ELSE UNCHANGED snap /\ GoTo(m, Then[pc[m]])
  /\ UNCHANGED <<passive, bounds>>

(* setupGitOpsRepositories: wait for Gitea, create, force-push.            *)
CreateRepositories(m) ==
  /\ pc[m] = "create"
  /\ IF "gitea" \in up
       THEN /\ repos' = [r \in Repositories |->
                           IF repos[r] = "none" THEN "empty" ELSE repos[r]]
            /\ GoTo(m, Then["create"])
       ELSE UNCHANGED repos /\ GoTo(m, "post")
  /\ UNCHANGED <<platform, landed, kinds, up, service, informer, snap, fresh,
                 submitted, handedOver, bounds>>

(* Fault: a failed push is logged and the pass goes on.                    *)
PopulateBestEffort(m) ==
  /\ pc[m] \in Repositories
  /\ repos' = IF "gitea" \in up THEN [repos EXCEPT ![pc[m]] = "seeded"] ELSE repos
  /\ GoTo(m, Then[pc[m]])
  /\ UNCHANGED <<platform, landed, kinds, up, service, informer, snap, fresh,
                 submitted, handedOver, bounds>>

Populate(m) ==
  /\ pc[m] \in Repositories
  /\ IF "gitea" \in up
       THEN repos' = [repos EXCEPT ![pc[m]] = "seeded"] /\ GoTo(m, Then[pc[m]])
       ELSE UNCHANGED repos /\ GoTo(m, "post")
  /\ UNCHANGED <<platform, landed, kinds, up, service, informer, snap, fresh,
                 submitted, handedOver, bounds>>

(* A write that changes nothing makes no new version.                      *)
Store(m, new) ==
  /\ platform' = new
  /\ IF new = platform THEN fresh' = fresh \ {m} /\ UNCHANGED current
                       ELSE fresh' = {} /\ current' = {}

(* RepositoriesCreated is persisted at once; a conflict is not fatal.      *)
Record(m) ==
  /\ pc[m] = "record"
  /\ Learn(m, {"repositories"})
  /\ IF m \in fresh THEN Store(m, [platform EXCEPT !.flags = snap'[m]])
                    ELSE UNCHANGED <<platform, current, fresh>>
  /\ GoTo(m, Then["record"])
  /\ UNCHANGED <<cluster, cache, submitted, handedOver, bounds>>

(* The platform ApplicationSet, the workload one: on every pass.           *)
ApplyStack(m) ==
  /\ pc[m] \in Stack
  /\ landed' = landed \cup {pc[m]}
  /\ GoTo(m, Then[pc[m]])
  /\ UNCHANGED <<passive, snap, bounds>>

(* shouldShutDown, for a CLI whose control plane is applied.               *)
Decide(m) ==
  /\ pc[m] = "decide"
  /\ GoTo(m, IF /\ m \in Clis
                /\ {"controlPlane", "repositories", "gateway"} \subseteq snap[m]
                /\ AlreadyDeployed
               THEN "postExit" ELSE "post")
  /\ UNCHANGED <<platform, cluster, informer, snap, fresh, submitted,
                 handedOver, bounds>>

(* The end of every pass: the latest object with the whole status of the   *)
(* copy.  It is tried again on conflict while the cache lags, not for ever.*)
PostProcess(m) ==
  /\ pc[m] \in Ends
  /\ IF m \in current THEN Store(m, [platform EXCEPT !.flags = snap[m]])
                      ELSE UNCHANGED <<platform, current>> /\ fresh' = fresh \ {m}
  /\ GoTo(m, IF pc[m] = "postExit" THEN "exit" ELSE "idle")
  /\ snap' = [snap EXCEPT ![m] = {}]
  /\ UNCHANGED <<cluster, cache, submitted, handedOver, bounds>>

Pass(m) ==
  \/ Begin(m) \/ Enter(m) \/ InstallPackage(m) \/ InstallGateway(m)
  \/ PinNodePorts(m) \/ InstallDatabase(m) \/ InstallCrossplane(m)
  \/ Configure(m) \/ CreateRepositories(m) \/ Populate(m) \/ Record(m)
  \/ ApplyStack(m) \/ Decide(m) \/ PostProcess(m)

(* An API call fails: fatal to the pass, except that the configuration of  *)
(* the control plane and the ports of the gateway are left to a later one. *)
CallFails(m) ==
  /\ Fault
  /\ \/ /\ pc[m] \in (Packages \cup Repositories \cup Stack \cup {"enter", "create"})
        /\ GoTo(m, "post")
     \/ pc[m] \in Configuration /\ GoTo(m, StackStep(m, snap[m]))
     \/ pc[m] = "pin" /\ GoTo(m, Then["pin"])
     \/ pc[m] = "record" /\ GoTo(m, Then["record"])
     \/ pc[m] = "post" /\ GoTo(m, "idle")
     \/ pc[m] = "postExit" /\ GoTo(m, "exit")
  /\ snap' = [snap EXCEPT ![m] = IF pc[m] \in Ends THEN {}
                                 ELSE IF pc[m] = "record" THEN @ \cup {"repositories"}
                                 ELSE @]
  /\ UNCHANGED <<platform, cluster, informer, fresh, submitted, handedOver>>

-----------------------------------------------------------------------------
(* The cluster and its users.                                              *)

(* Cilium and the Crossplane providers register their kinds at their own   *)
(* pace, Crossplane its own before it is ready.                            *)
RegisterKind ==
  /\ \E k \in {"classConfig", "provider"} \ kinds :
       /\ k = "classConfig" => OnKind /\ "cilium" \in landed
       /\ k = "provider" => "providers" \in landed
       /\ kinds' = kinds \cup {k}
  /\ UNCHANGED <<platform, landed, up, service, repos, informer, process, bounds>>

BringUp ==
  /\ \E d \in (Deployments \cap landed) \ up :
       /\ d = "gitea" /\ HAMode => "giteaDB" \in landed
       /\ up' = up \cup {d}
       /\ kinds' = kinds \cup ({d} \cap {"crossplane"})
  /\ UNCHANGED <<platform, landed, service, repos, informer, process, bounds>>

BringDown ==
  /\ Fault
  /\ \E d \in up : up' = up \ {d}
  /\ UNCHANGED <<platform, landed, kinds, service, repos, informer, process>>

(* Cilium generates the Service: a NodePort only by the class config.      *)
ProgramGateway ==
  /\ OnKind /\ {"cilium", "gateway"} \subseteq landed
  /\ \/ /\ service \in {"none", "loadBalancer"} /\ "classConfig" \in landed
        /\ service' = "nodePort"
     \/ /\ service = "none" /\ "classConfig" \notin landed
        /\ service' = "loadBalancer"
  /\ UNCHANGED <<platform, landed, kinds, up, repos, informer, process, bounds>>

(* Somebody deletes what a manifest had created.                           *)
Remove ==
  /\ removals < MaxRemovals
  /\ removals' = removals + 1
  /\ \E o \in landed \cap Removable :
       landed' = landed \ {o} /\ up' = up \ {o}
  /\ UNCHANGED <<platform, kinds, service, repos, informer, process, runs,
                 faults>>

Environment == \/ RegisterKind \/ BringUp \/ BringDown \/ ProgramGateway
               \/ Remove

-----------------------------------------------------------------------------

Manager(m) == \/ Start(m) \/ Submit(m) \/ Deliver(m) \/ Pass(m) \/ Exit(m)
              \/ CallFails(m) \/ Crash(m) \/ Interrupt(m)

Next == (\E m \in Managers : Manager(m)) \/ Environment

(* A running process goes on, its watch catches up, the Deployment keeps   *)
(* the in-cluster manager running, operators do their work.  Nobody is     *)
(* obliged to run the CLI.                                                 *)
Fairness ==
  /\ \A m \in Managers : /\ WF_vars(Pass(m)) /\ WF_vars(Deliver(m))
                         /\ WF_vars(Submit(m)) /\ WF_vars(Exit(m))
  /\ \A m \in Pods : WF_vars(Start(m))
  /\ WF_vars(RegisterKind) /\ WF_vars(BringUp) /\ WF_vars(ProgramGateway)

Spec == Init /\ [][Next]_vars
FairSpec == Spec /\ Fairness

-----------------------------------------------------------------------------
(* Properties.                                                             *)

Seeded == \A r \in Repositories : repos[r] = "seeded"

(* ArgoCD never generates from repositories that are not there: an         *)
(* ApplicationSet is in the cluster, and RepositoriesCreated recorded, only*)
(* after both repositories were pushed, whatever crash, conflict, stale    *)
(* copy or second run comes between.                                       *)
GitOpsSeeded ==
  {"appset", "workload"} \cap landed # {} \/ "repositories" \in platform.flags
  => Seeded

(* No component that needs the network or the database is installed before *)
(* them, however the installation was interrupted and resumed.             *)
Foundation == {"gatewayAPI", "cilium", "gateway"} \cup
              (IF HAMode THEN {"cnpg", "giteaDB"} ELSE {})
FoundationFirst ==
  /\ CoreDeployments \cap landed # {} => Foundation \subseteq landed
  /\ "cilium" \in landed => "gatewayAPI" \in landed

(* A run of the CLI ends: once its components come up it exits by itself,  *)
(* also when an earlier run was interrupted between any two steps.         *)
RunEnds == \A m \in Clis : pc[m] # "down" ~> pc[m] = "down"

(* The installation is one that PlatformBootstrap describes: above all, a  *)
(* run decides to exit, by the fast path or at the end of a pass, only from*)
(* a whole platform, whatever earlier runs left and whoever acts meanwhile.*)
Exiting == {m \in Clis : pc[m] \in {"postExit", "exit"}}
Boot == INSTANCE PlatformBootstrap WITH
          Runs <- Clis, Components <- CoreDeployments,
          Sources <- Repositories, Generators <- Stack,
          asked <- platform.created, laid <- Foundation \subseteq landed,
          installed <- CoreDeployments \cap landed,
          published <- {r \in Repositories : repos[r] = "seeded"},
          recorded <- "repositories" \in platform.flags,
          generating <- Stack \cap landed, finished <- Exiting
ImplementsBootstrap == Boot!BootSpec

(* Promised by comments, not kept by the code: see the README.             *)

(* Seeding is recorded once and for all: it force-pushes, so it must not be*)
(* repeated over what users committed since.                               *)
RecordKept ==
  [][ "repositories" \in platform.flags => "repositories" \in platform'.flags ]_vars

(* ControlPlaneApplied means that the whole configuration was applied.     *)
ControlPlaneWhole == "controlPlane" \in platform.flags => Configuration \subseteq landed
=============================================================================
