# Adhar control plane: TLA+ models, checks and proofs

Adhar is a CLI and a set of Kubernetes controllers that bring up an internal
developer platform (Cilium, Gateway, ArgoCD, Gitea, Crossplane), seed its
GitOps repositories, attach workload clusters ("data planes") to it and create
clusters on clouds.  This directory models the parts whose correctness depends
on interleavings, crashes, partial failure and stale state, checks them with TLC
and proves the central ones with TLAPS.

## Inventory

| part | source | state | operations | hard behaviour |
|---|---|---|---|---|
| DataPlane controller | `platform/controllers/dataplane` | the DataPlane object (finalizer, generation, `compositeRef`, conditions, observed generation), CompositeCluster / vcluster, ArgoCD cluster secret, mesh job, hub ConfigMap | `Reconcile` in five phases, `finalize`, `fail`, `progress` | a pass is a dozen API calls on one in-memory copy read from a lagging cache; edits, deletions, crashes and other managers fall between any two; conflicts abort the write at the end, not the side effects before it |
| Manager process | `cmd/controller`, `platform/controllers/run.go`, `cmd/up/local.go` | lease, work queue, informer cache | start, stop, elect | the in-cluster manager takes a lease, the CLI's manager does not |
| AdharPlatform controller | `platform/controllers/adharplatform` | status flags per core package, `RepositoriesCreated`, `ControlPlaneApplied`, `shouldShutdown` and `lastFailure` in memory | install core packages, seed repositories, apply ApplicationSets, exit on sync | order of installation, tolerated failures, status written at the end of the pass and lost on error, fast path on restart |
| GitRepository controller | `platform/controllers/gitrepository`, `platform/utils/git_repository.go` | repository in Gitea, its clone in a temp dir of the process, the clone of an upstream source, one lock per URL (`RepoMap`), status `Synced` and URL | find or create the repository, copy content, commit, push, report | commit made but push lost; a dropped commit error; source lock held while the target's is taken; status written from a stale copy |
| CustomPackage controller | `platform/controllers/custompackage` | GitRepository objects, ArgoCD Application and its source URLs, `Synced` | read the package, one repository per directory source, apply the Application | fan-out over stale statuses; sources rewritten before their repository holds anything; shared clones |
| CLI bootstrap | `cmd/up` | stages, progress display, manager goroutine | `adhar up` | cancellation while the manager runs, the exit channel |
| Retry helper | `platform/providers/retry.go` | attempt count, delay | `Retry`, `RetryWithResult`, backoff | jitter and overflow, retryable error classes, cancellation |
| Tenants | `platform/multitenancy` | namespace, RBAC, quota, network policy of a tenant | create, update quota, delete | several creates without rollback: partial failure |
| Credentials, secrets | `platform/credentials`, secrets code of the AdharPlatform controller | generated passwords, rotation annotations | update Gitea / ArgoCD password | password changed in the service before it is stored |
| Cluster commands, cloud providers | `cmd/cluster`, `cmd/up/production.go`, `platform/providers/{digitalocean,civo,gcp,azure,aws,custom}` | machines, networks, subnets, firewalls and SSH keys in a cloud account, keys and `clusters.json` on this computer | create, delete, scale, upgrade a kubeadm cluster | a dozen cloud calls and SSH sessions, any of which may fail, with no rollback; retries over what is left; what is found by tag, name or local file |
| kind provider | `platform/providers/kind` | none | create, delete | calls of the kind library |
| Webhooks, config, domain, stack, k8s, auth, logger | `platform/webhooks`, `platform/config`, ... | none or local | validation, rendering, I/O | sequential code |
| CLI commands | `cmd/get`, `cmd/cluster`, ... | none | list, print | I/O |

How they interact: the CLI creates the kind or cloud cluster through a
provider, starts a manager in its own process (`RunControllers`) and creates the
AdharPlatform object; the AdharPlatform controller installs the core packages,
fills Gitea and applies the manager deployment, whose replicas run the same
controllers under a lease. CustomPackage creates GitRepository objects; both
lock worktrees through one `RepoMap`. The DataPlane controller talks to the
others only through ArgoCD: it writes the cluster secret that ApplicationSets
select on and reads the health of the Applications they generate.  The cluster
commands share the SSH keys and `clusters.json` under `~/.adhar` and, in one cloud account, DigitalOcean's role tags, AWS's sweep of networks, by default GCP's
network and, where one is configured, Azure's resource group.

What makes each part correct:

- DataPlane: no ArgoCD registration without a plane that will remove it; the
  observed generation never ahead of the work; Ready whole when it first
  appears; teardown terminates; a healthy plane converges; nothing is taken
  from a live plane.
- AdharPlatform: the installation order is kept across restarts; the CLI exits
  only when the platform is reachable; a flag is set only for what was done.
- GitRepository: a pass whose commit or push fails does not report the
  repository synced, so that an Application reads none that is empty; the repository comes to hold what its
  source holds; a clone is used by one controller at a time.  That a repository
  reported synced has nothing left to push is not a property of this code: after a
  lost push it does not hold (finding 4).
- CustomPackage: an Application never reads a repository that is not filled, and
  never loses an in-cluster URL; every package settles.
- Clusters: a retried creation makes no second machine and comes to Running; a
  cluster that is Running is whole; a deletion leaves nothing that is its own; no
  kubelet is newer than its control plane; one cluster's commands do not break
  another.
- Retry: at most `MaxAttempts` calls, delays within bounds. Tenants: a repeated
  create completes what a failed one left.

## Modules

| module | what it is |
|---|---|
| `PlaneLifecycle` | abstract: what the finalizer promises about one plane |
| `DataPlane` | the DataPlane controller, its managers and their environment; properties |
| `MCDataPlane` | instances for TLC (symmetry of the replicas) |
| `DataPlaneProofs` | its inductive invariants and theorems |
| `PlatformBootstrap` | abstract: what the installation of the platform promises |
| `AdharPlatform` | the AdharPlatform controller, the runs of `adhar up` and the in-cluster manager; properties |
| `MCAdharPlatform` | instances for TLC |
| `AdharPlatformProofs` | its inductive invariants and theorems |
| `PackageDelivery` | abstract: what is promised of the way from a directory to an Application |
| `GitRepository` | the GitRepository controller, clones, locks, Gitea and the users who write there |
| `CustomPackage` | the CustomPackage controller composed with it in one process (`EXTENDS GitRepository`); properties of both |
| `MCCustomPackage` | instances for TLC |
| `CustomPackageProofs` | their inductive invariants and theorems |
| `Clusters` | create, delete, scale and upgrade of self-managed clusters on six clouds; properties |
| `MCClusters` | instances for TLC |
| `ClustersProofs` | types, and what every step of a command keeps |
| `ClustersSafetyProofs` | one machine per node; a deletion leaves nothing (`EXTENDS ClustersProofs`) |
| `ClustersMembershipProofs` | a running cluster is whole (`EXTENDS ClustersSafetyProofs`) |
| `ClustersVersionsProofs` | no kubelet newer than its control plane (`EXTENDS ClustersMembershipProofs`) |
| `ClustersUpgradeProofs` | control planes are kept, upgrades leave nobody behind (`EXTENDS ClustersVersionsProofs`) |

### DataPlane

One DataPlane object (`dp`), the managers that reconcile it, and what they
write. Every API call of a pass is an action, named after the function that
makes it: `Begin` (`Reconcile`'s `Get` and its dispatch), `AddFinalizer`,
`ApplyInfra` / `RecordRef` / `Probe` (`ensureInfra`), `Register`,
`CheckAgents`, `JoinMesh`, `Observe`, `Commit` (`Status().Update` of
`fail`, `progress` or the end of `Reconcile`), `Deregister`, `DeleteInfra`,
`RemoveFinalizer` (`finalize`). `pc[m]` is the next call of manager `m`,
`snap[m]` the `dp` variable of its pass, `kube[m]` the client `ensureInfra`
returned.

- Optimistic concurrency: a resourceVersion is compared for equality only, so
  the model keeps the set `fresh` of managers whose copy is the stored version
  in place of a counter. A write by a manager outside `fresh` is a conflict.
- Informer cache: `cache[m]` is the version the cache of `m` holds, `current`
  the managers whose cache is up to date. `Begin` reads `cache[m]`; `Deliver`
  is a watch event. Caches of secrets and Applications are not kept apart from
  the objects: `RegistrationUnseen` is the one lag the code itself names.
- Data: placement labels, hub and profile are represented by `edit`, the
  generation of the last user edit: a registration carries the `edit` of the
  copy its labels came from. A kubeconfig is the cluster it points at.
- Environment: users create, edit and delete the plane and its adopted
  kubeconfig; operators publish `<dp>-kubeconfig`; clusters come and go;
  Applications degrade and recover; the garbage collector acts on owner
  references. All of these interleave with every call.

### AdharPlatform

One AdharPlatform object (`platform`: whether it exists, which status flags are
stored), the managers that reconcile it and the cluster they fill. A manager is
a run of the CLI (it has a stack directory, submits the object, exits by
itself) or an in-cluster one (`Pods`: no stack directory, restarted for ever).
`pc[m]` is the next step of the pass of `m`, `snap[m]` the status flags of the
in-memory copy, `cache[m]` what the informer holds; `fresh` and `current` are
as in `DataPlane`.

| action | code |
|---|---|
| `Start`, `Submit`, `Exit`, `Interrupt`, `Crash` | `cmd/up`: `createOrUpdate`, `bootstrapPlatform`; `RunControllers` |
| `Begin`, `Enter` | `Reconcile`: `Get`, the fast path, the gate of the install |
| `InstallPackage`, `InstallGateway`, `PinNodePorts`, `InstallDatabase`, `InstallCrossplane` | `installCorePackagesSync` and its installers, in the order of `Then` |
| `Configure` | `applyControlPlaneConfiguration`, one step per group of directories |
| `CreateRepositories`, `Populate`, `Record`, `ApplyStack` | `applyPlatformStack`, `setupGitOpsRepositories` |
| `Decide`, `PostProcess` | `shouldShutDown`, `postProcessReconcile` |
| `CallFails` | any error return: what the caller does about it, not why |
| `RegisterKind`, `BringUp`, `BringDown`, `ProgramGateway`, `Remove` | operators, kubelet, Cilium and users, outside the repository |

What is abstracted: a manifest is one object that has landed or not; the
configuration of the control plane is four groups, told apart by the kinds they
need; the repository credentials go with the platform ApplicationSet; the
deployments are read in one step. A write of the status counts as a new version
when it changes a flag, so writes that change a condition only are not seen as
conflicts. Left out: the conditions themselves (they follow from the flags),
the static passwords, `ApplyPlatformStack` of the upgrade command, the refresh
annotations at exit and `--no-exit`.

Three exits of the controller are easy to misread, and the model follows the
code: an interrupted CLI cannot be told from one that finished and hands over
as well (`EndRun`); the fast path goes straight to the exit (`Enter`); and an
object whose kind is missing is skipped as if it had been applied
(`Configure`, `InstallGateway`).

### GitRepository and CustomPackage

`git` is the worker of the GitRepository controller with the copy its pass will
write back, `pkg` that of the CustomPackage controller; both run in one process
and share `lock` (an entry of `RepoMap` per URL) and the clones on disk, which a
restart of the process empties.  A tree is a set of files; a changed file is
another member of `Files`.

| action | code |
|---|---|
| `Start`, `Find`, `Create` | `Reconcile`, `reconcileGitRepo`: the cached object, `getRepository`, `createRepository` (which answers no URL) |
| `LockSource`, `CopySource`, `LockTarget`, `CloneTarget`, `Write` | `reconcileRepoContent`, `CloneRemoteRepoToDir`, `clearWorktreeDir`, `writeRepoContents`, `CopyTreeToTree` |
| `Commit`, `Push`, `PushLost` | `addAllAndCommit`, `pushToRemote` |
| `Report`, `CallFails` | `postProcessReconcile`, any error return (the deferred unlocks run) |
| `PkgLock`, `PkgRead` | `getArgoCDAppFile` |
| `PkgSource`, `PkgApply`, `PkgReport` | `reconcileArgoCDSource`, creation or update of the Application, `postProcessReconcile` |
| `Edit`, `PushedByUser`, `DeletedByUser`, `Deliver`, `Restart` | users, the informer, the process |

Two things the model keeps because they are easy to miss: a source in Helm values is
rewritten but not counted when the package is declared synced (`InValues`), and
the copy of an upstream tree only adds files to the target (`Written`), so a
mirror keeps what its source removed; `Converges` therefore speaks of
directories only.  Left out: the GitHub provider, the removal of objects, the
priority between packages and two packages that claim one name; embedded and
local directories are one kind.

### Clusters

Each cluster has at most one command running (`cli`), a sequence of steps that
depends on the cloud (`DigitalOceanCreate` ... `CustomDelete`); `cloud` is
chosen at the start and never changes.  `vm` holds the machines with the key they were
made with, whether they are up, the role tag, the certificate authority of the
cluster they have joined (`ca`) and the version of their kubelet; `parts` the
network, subnets and firewall, `network` standing for the
resource group on Azure; `key` and `file` what this computer knows.
A step is one call to the cloud, or one SSH session; `Stops` ends a command after any
step (an error or an interrupt), `PassOver` is a failed call of a deletion that is
only logged.  Clouds differ in what they look for before they create
(`CreateMachine`: DigitalOcean adopts by name, Azure updates, GCP refuses, Civo
and AWS make another), in what a deletion finds (tag, name, tracker, resource
group) and in what they undo (`Aborts`: AWS alone).

`Mates(c)` are the clusters in one network of GCP or one resource group of Azure:
all of `Names` with `Shares`, else `c` alone.  GCP's network takes its name from
the configuration and defaults to `default-vpc` (`gcp/provider.go:336`), so it is
shared by default; Azure's group is the cluster's own unless `resource_group` is
configured (`azure/provider.go:727`).  What a deletion does not take for the cluster's own is
`Foreign`, chosen in `Init` for each cluster: on GCP a network whose name does not
contain the cluster's, on Azure a group that was there without Adhar's tag.
`DropNetwork` leaves such a network and `DropGroup` such a group, as a success;
`DropGroup` deletes any other with all its clusters (`DeleteGroup`), after which
their commands find nothing (`Lost`, `Vanished`).  GCP's network
and subnet are taken as one: both names come from one configuration, and one that
contains the cluster's name is assumed to come with the other.  Somebody
else's machines in a foreign network or group are not modelled.

| action | code |
|---|---|
| `StartCreate`, `StartDelete`, `StartScale`, `StartUpgrade` | the commands, `ListClusters` (`Listed`) |
| `EnsureKey`, `EnsureNetwork`, `CreateSubnets`, `EnsureFirewall`, `Look`, `CreateMachine`, `Await`, `Save` | the provisioning of each provider |
| `PrepareHost`, `InitMaster`, `JoinWorker`, `Integrate`, `TimesOut` | `KubeadmInitMaster`, `KubeadmJoinWorker`, `WaitForNodePrep`, `prepareHost` |
| `Aborts`, `SweepEmpty` | `cleanupPartialInfrastructure` |
| `Drop...`, `Sweep`, `Untrack`, `Forget`, `Reset` | `DeleteCluster` of each provider, `RemoveClusterState` |
| `Survey`, `Grow`, `JoinNew`, `Shrink` | `scaleComputeWorkers` |
| `UpgradeMaster`, `UpgradeWorker`, `UpgradePassesOver` | `KubeadmUpgradeCluster` and Azure's list of workers |
| `Boots` | the cloud |

What the providers do, as found while modelling, beyond what a property says:

- Civo and AWS do not look for machines of a name, so a retried creation adds a
  second set; `OneMachinePerNode` leaves them out.
- GCP refuses the second machine and the second firewall rule of a name, and lists
  a cluster in `clusters.json` only after its machines: after a failure in between
  the retry always fails and `delete` finds nothing. Its `UpgradeCluster` looks
  for an address that is never stored, and so never runs (`StartUpgrade`).
- GCP's deletion removes network and subnet only where their names contain the
  cluster's; with the default names they stay and the deletion answers success.
- Azure's deletion leaves a resource group without Adhar's tag, machines running, removes
  the cluster's key and its entry in `clusters.json`, and answers success. `NothingLeft` leaves
  this deletion out: there the code does not keep it. In a configured
  `resource_group` it deletes every cluster; `RunningIsWhole`,
  `UpgradedIsWhole` and `RetrySucceeds` say nothing of such a group (`Exposed`).
- Azure's upgrade passes over workers whose public address cannot be read and
  answers success. The model calls this answer `partial`, as it calls a deletion that passed over
  failures `incomplete`; the user sees success in both.
- AWS makes an internet gateway and no route to it (`Routed`), so no SSH session reaches a
  machine and every creation ends in the timeout of `WaitForNodePrep`. After a
  failed creation subnets are looked for by a tag they do not carry, so they and the VPC
  stay. A deletion sweeps every VPC of the account that no instance is in, also
  those another cluster is being created in (`Sweep`, `Lacks`).
- `ScaleNodeGroup` of the other five providers changes nothing. DigitalOcean's
  makes new workers of the default version, not of the cluster's, so `NoSkew` leaves
  those out where the default is above the version asked for.
- The custom provider's reset leaves `kubelet.conf` where it fails, and the next
  creation takes that worker for joined; `RunningIsWhole` leaves it out.

Left out: managed modes (DOKS, Civo, GKE), volumes, load balancers, backups,
add-ons, cost and metrics: single calls.

### Faults

Definitions whose comment starts with "Fault:" or "Mutant of" are not part of the
specification: each is a plausible bug of the definition that follows it, used
to show that a property notices.

## Runs

| run | instance | question | result |
|---|---|---|---|
| `dataplane` | 2 replicas, 1 lease; 1 edit or deletion and 2 faults, or 2 edits | safety, action properties, refinement | holds, 5.1 million states |
| `dataplane_live` | 1 replica, 1 edit, 1 fault, fairness | teardown completes, a healthy plane converges | holds, 723,662 states |
| `dataplane_two` | a CLI manager beside a replica | is the registration still guarded? | violated: finding |
| `platform` | 2 CLI runs and an in-cluster manager, HA mode, 1 fault, 1 removal | repositories before ApplicationSets and record, foundation before components; is `PlatformBootstrap` refined, no exit but from a whole platform? | holds, 10.0 million states |
| `platform_live` | 2 CLI runs on kind, 1 fault, fairness | every run of the CLI ends, also the resuming one | holds, 1.1 million states |
| `platform_control` | CLI | does ControlPlaneApplied mean that all of it was applied? | violated: finding |
| `platform_record` | 1 CLI run, 1 fault | is the seeding recorded once and for all? | violated: finding |
| `repository` | a package over one directory, 1 edit, 2 failing calls, 1 restart, no lost push, fairness | is every Application's repository filled, does it keep its URL, is `PackageDelivery` refined, does all of it converge? | holds, 388,728 states |
| `repository_shared` | a mirror and a package on one upstream repository, lost pushes, users in Gitea, restart | do the locks keep the controllers out of each other's clone, and does none outlive its use? | holds, 5.7 million states |
| `repository_push` | as `repository`, 1 lost push, no restart | does a lost push get repeated? | violated: finding |
| `clusters` | 1 cluster of 2 workers, scaled up to 3, six clouds, 3 faults, fairness | no second machine, whole when Running, nothing left but a foreign network, no version skew, nobody left behind by an upgrade but what Azure passes over, control planes kept and found, retries succeed | holds, 925,766 states |
| `clusters_tags` | 2 DigitalOcean clusters, no faults | can every cluster's control plane be found? | violated: finding |

Bounds. In `dataplane` `MaxEdits` counts edits, deletions and changes of the
adopted kubeconfig, `MaxFaults` crashes, failing calls, outages and
degradations; creation is free, so a plane is deleted and created again within
the bounds. Two replicas are enough for hand-over between a stopped and a
starting one: with a lease only one runs. `WithinBudget` joins two instances in one run:
one edit and two faults cover an edit and a crash inside a pass and a second fault
inside the repair; two edits without a fault cover an edit of the mode followed
by a deletion, after which the garbage collector takes the infrastructure of the first
mode. The invariants the proofs use were also checked with two edits and one fault
(16 million states).
For the platform, `MaxRuns` counts starts of the CLI, `MaxFaults` crashes,
interrupts, failing calls and deployments that go down, `MaxRemovals` deletions
of installed objects. Two runs are what a resumed installation needs; the second
run overlaps the in-cluster manager of the first. Two CLIs at once are left to
the theorems, which hold for any number of them. HA mode is the instance with the longest foundation, kind the
one with the gateway's ports. The theorems remove the bounds.

In the repository runs `MaxEdits` counts changes of a source, `MaxFaults` failing
calls and lost pushes, `MaxOutside` commits and deletions by users in Gitea,
`MaxCrashes` restarts of the process. Two files tell apart an addition, a
removal and a change; the package uses its repository twice, once in Helm
values, so the two ways a source is counted both occur. One edit and a fault are
enough to leave a commit unpushed or a status stale in the middle of a pass; the
theorems hold for any number.
In the cluster runs `MaxFaults` counts failures and interruptions in all commands
together; commands themselves are not bounded, so creations, deletions, scalings
and upgrades follow each other in every order. Three faults allow an interrupted
creation, a failing retry and a failing cleanup. `MaxCopies` bounds the machines
of one name where a cloud makes duplicates: a command that could exceed it is not
started. Version 1 is what is asked for and the default, version 2 the
target of upgrades. `clusters` has one cluster at a time, in a network or group of its
own (`Shares` is FALSE) that may be foreign: two clusters on six clouds do not fit one
run. Clusters meet in four places: DigitalOcean's role tags, which `clusters_tags` shows;
AWS's sweep, checked separately with two clusters and one fault; GCP's network and
Azure's resource group, checked separately with two clusters that share them, one worker
each, one fault and one machine of a name: 374,893 states of GCP and 601,482 of Azure,
in which all invariants and `ControlPlaneKept` hold. In `clusters` the
part of `ControlPlaneKept` about other clusters is therefore not exercised, and
`ControlPlaneFound` is about tags that an interrupted deletion took from what the next creation
takes over; `ControlPlanesStay` proves the first for any clusters, `clusters_tags` refutes the second for two.

Deadlock is checked in the repository and cluster runs. It is not in those of the
planes and the platform: with the bounds used up and no plane, or with the
platform installed and the CLI gone, nothing is left to do.

Fairness: the watch catches up, a reconcile that can take its next call takes
it (the work queue retries on error and every early return requeues), and a
stopped replica starts again (a Deployment). Users, clusters and operators owe
nothing; `Converges` therefore assumes that the plane stays healthy, and only
concludes from there. A CLI manager is never obliged to start.

For the platform, a running process takes its next step, its watch catches up
and the Deployment restarts the in-cluster manager; operators register their
kinds, deployments come up and Cilium programs the gateway, weakly fair each.
Nobody is obliged to run the CLI, to repair what was deleted, or to fault.
`RunEnds` needs the operators: a CLI whose Gitea never comes up waits for ever,
which is what the code does.

For the repositories, both workers and the watch are weakly fair; taking a lock and
starting a pass over a given object are strongly fair, since Go's mutexes hand over
to a waiter after a millisecond and the work queue is first in, first out. Users, failures and
restarts are free. A running cluster command goes on and the cloud starts its
machines; `RetrySucceeds` also assumes that the user runs `create` whenever no
command runs, which is what it is about, and says nothing of a resource group that
the deletion of another cluster may take away.

## What is proved

### DataPlane

`DataPlaneProofs` proves, for every set of managers, every set of adoptable
clusters and every bound:

| theorem | assumes | argument |
|---|---|---|
| `TypeCorrect` | - | one case per action |
| `NoOrphans` | all managers share the lease | `GuardInv` |
| `LifecycleImplemented` | the lease | each step maps to a `PlaneLifecycle` step or a stutter, from `GuardInv` |
| `LiveKeeps` | the lease | each step, from `GuardInv` |
| `ReadyIsWhole` | - | `ReadyInv` |
| `ObservedIsRegistered` | the lease | `EditInv`, on top of `GuardInv` |
| `InfraIsGuarded` | the lease | `GuardInv` |

None of the properties is inductive. `GuardInv` adds what a pass may assume
about the object while it works from a stale copy: a phase runs only while the
plane is guarded (it exists and carries the finalizer), a finalize step only
for a plane that is being deleted or, when its cache lags, for one that has no
finalizer and therefore nothing yet; what a lagging cache may still show; that
a fresh copy agrees with the object; that infrastructure nobody deletes belongs
to a guarded plane. `EditInv` adds what a pass and a cache know of the last
edit once it is observed: the one running manager observed it, so neither its
copy nor its cache is older. `ReadyInv` keeps which conditions the in-memory
status holds at each step; it needs no lease, because the API server refuses
the stale write.

The proofs rest on `ConstantsAssumption` (checked by TLC in every run) and, where
named, on `SharedElection`: any two managers take part in the election. The
model lets a manager start only when every other elected one is down; that a
replica that lost its lease stops before the next one acts is an assumption
about controller-runtime (it exits the process on a lost lease).

### AdharPlatform

`AdharPlatformProofs` proves, for every set of CLI and in-cluster managers,
kind or not, HA or not, and every bound:

| theorem | argument |
|---|---|
| `TypeCorrect` | one case per action |
| `RepositoriesFirst` (`GitOpsSeeded`) | `SeedInv` |
| `InstalledInOrder` (`FoundationFirst`) | `OrderInv` |
| `BootstrapImplemented` (`ImplementsBootstrap`) | each step maps to a `PlatformBootstrap` step or a stutter, from `SeedInv`, `OrderInv` and `BootInv` |

They rest on `ConstantsAssumption` alone: no lease, no bound on managers.

`GitOpsSeeded` is not inductive: a manager is allowed to apply an ApplicationSet
because of what its copy or its place in the pass says, not because of what the
repositories hold. `SeedInv` adds that whoever knows of the repositories knows
of seeded ones: every cached version, every in-memory copy with the flag, and
every manager past the push. That survives stale copies and lost updates,
because a repository once seeded is never emptied; a lost flag only makes a run
push again.

`FoundationFirst` needs to know what a pass has done before the step it is at.
`OrderInv` adds, for each manager and each step of the installation, the
packages that have landed when it gets there. It uses that the foundation is not `Removable`:
what users delete of it is outside the claim.

`PlatformBootstrap` says what the pieces add up to: nothing is installed before the
object exists, Gitea is there when a repository is published, and a run decides
to exit only from a platform that is whole. The decision is the hard part, because
it reads deployments and ApplicationSets, not what its own pass did, and the fast path reads them
before the pass does anything. `BootInv` adds what that leaves to know: before
the object exists no pass runs and no cache holds it, and a deployment that is
up has landed. That the foundation is there follows
from `OrderInv`, that both repositories are filled from `SeedInv`: an
ApplicationSet exists only where they are. The abstract `Lose` is what
users may delete; `Report` lets the record be lost again, which is the finding
of `platform_record`, not a promise.

### GitRepository and CustomPackage

`CustomPackageProofs` proves, for any number of repositories, sources, packages
and bounds:

| theorem | assumes | argument |
|---|---|---|
| `TypeCorrect` (`TypeOK`) | - | `TypeInv`: also that a worker past the start has an object, and a clone once it writes |
| `DirectoriesExclusive` (`OneInDirectory`) | - | `LockInv`: who is in a stage holds the lock of the clone it uses |
| `NoEmptyApplication` (`AppSeeded`) | `~PushFails`, `MaxOutside = 0` | `SourcesInv`, `UrlInv` on top of `ContentInv` |
| `UrlsNotForgotten` (`UrlKept`) | `MaxOutside = 0` | `SourcesInv`, `KeptInv` |
| `NoLockLeftBehind` (`LocksComeFree`) | - | `LeaseInv` |
| `DeliveryImplemented` (`ImplementsDelivery`) | `~PushFails`, `MaxOutside = 0` | each step maps to a `PackageDelivery` step or a stutter, from `DeliveryInv` |

`AppSeeded` is not inductive. `ContentInv` says what a pass may assume of
the clone it works in: it is based on the remote's last commit (`CloneCurrent`), so that
no push is refused. That is where the assumptions come from: `repository_push`
shows what a lost push does, and a commit by a user in Gitea makes every later push
a refused one. On top of it, `AppSeeded` needs that a URL, in a status, in the cache
or in the copy of a pass, is known only of a repository that is full; `UrlKept` that no
copy or cached status is behind the Application in it.

`LocksComeFree` is the other half of `DirectoriesExclusive`: not only does who is in
a stage hold the lock, nobody holds one anywhere else. `LeaseInv` says which keys
each worker holds at each of its stages; the one place where two locks are held
is the copy from an upstream clone into the repository's own, whose keys differ
(`NamesApart`). It assumes nothing of pushes, users or restarts.

`DeliveryInv` joins the invariants above with `SettledInv`: a package
that is reported synced, or is about to be, has every source it counts announced, and a later
pass over it finds it synced again. The refinement says that the
order of two controllers that only read each other's lagging objects is that of
one sequence: make, fill, announce, read, settle, and never back. The same assumptions hold as for `AppSeeded`, and for the
same reason: a user who deletes a repository takes it back.

### Clusters

Five modules, each on top of the one before, prove for every set of clusters
and of clouds, any number of workers, versions, copies and faults:

| theorem | invariant | argument |
|---|---|---|
| `TypeCorrect` (`TypeOK`) | `TypeInv` | one lemma per action |
| `NoSecondMachine` (`OneMachinePerNode`) | `SafeInv` | `Unique`, `Looked` |
| `DeletedIsGone` (`NothingLeft`) | `SafeInv` | `Cleared`, `Gone` |
| `RunningClusterIsWhole` (`RunningIsWhole`) | `MemberInv` | `Rooted`, `NewOnes`, `Joining`, `Running` |
| `FoundWhenAlone` (`ControlPlaneFound`), with one cluster in the account | `MemberInv`, `LabelInv` | `Tagged`, `Emptied` |
| `NoneNewer` (`NoSkew`) | `VersionInv` | `Ahead`, `Based`, `Prepared`, `Upgrading` |
| `ControlPlanesStay` (`ControlPlaneKept`) | `UpgradeInv` | `Distinct`, `Powered`, `Grown` |
| `NoneLeftBehind` (`UpgradedIsWhole`) | `UpgradeInv` | `Caught`, `Risen`, `Knows` |

They assume the named assumptions of `Clusters` about its constants, `Shares` being
either; `FoundWhenAlone` alone also that `Names` has one element. What each leaves out is
in its statement: `DeletedIsGone` a foreign network on GCP and the deletion on Azure that finds a foreign group;
`RunningClusterIsWhole` hosts of the user and a shared resource group;
`NoneLeftBehind` Civo, a shared resource group and Azure's workers in an upgrade that could not
read an address; `ControlPlanesStay` deletions, in a shared group those of all its clusters.

- `TypeInv` needs more than types: that the machines of a cluster are finitely
  many, so that a copy and a key that are in use nowhere exist; that each
  command is at a step of its own program on its cloud, so that there is a step
  to go on with; and that there is a key wherever machines are made.
- `OneMachinePerNode` depends on what DigitalOcean's creation saw before it
  made the first machine. `Looked` says that this list is still true of the
  machines that are not made yet: only the command itself adds machines, because one
  command runs on a cluster at a time, and nothing that runs beside it but the
  cloud and the sweeps of other clusters touches this cluster. Without the look
  (`LookAway`), a retry makes a second machine.
- `NothingLeft` follows from `Done`, which lists for each step of each
  deletion what is gone when it gets there without having missed a call. It uses `Proper`,
  which part of an infrastructure exists on which cloud, and that clusters in one
  resource group agree on whether it is foreign (`Neighbours`).
- `RunningIsWhole` is about members of one control plane, not about machines.
  Where machines of an earlier creation are taken over, `Rooted` says that every
  authority any machine has joined is that of the control plane, which is
  never replaced alone; elsewhere `NewOnes` says that a creation lets in only
  machines it made. `Joining` then keeps, between `init` and the end, that the
  workers before `next` have joined the authority the join command is for.
  A mate's deletion empties a cluster whole (`Razed`), never in part.
- `ControlPlaneFound` fails where clusters share an account (`clusters_tags`), and holds for
  one alone: `Emptied` says that a deletion comes to the tags when no droplet is
  left, so that a creation that takes over what an interrupted deletion left finds its control
  plane with the tag (`Tagged`). The theorem and the finding together say that
  the sharing of the tags is the only cause.
- `NoSkew` compares two machines that different commands made. `VersionInv`
  compares each with the specification instead: no control plane is below the
  version asked for (`Based`; hosts of the user have no version until they are prepared,
  hence `Prepared`), and a machine above it has an upgraded control plane before
  it (`Ahead`), which stays there: scaling down deletes no control plane, and of
  the two clouds whose deletions take machines one by one GCP upgrades nothing
  and Civo is outside the property.
- `ControlPlaneKept` is about every step of every command, those of other clusters in the
  account included, and of deletions in another resource group or in GCP's shared network. A scaling chooses its victims by the absence of a role tag
  that other clusters' deletions remove, so it may choose a control plane; what
  keeps it is that the same scaling then finds no control plane to survey and gives up (`Survey`). `UpgradeInv` adds
  that a reference names one machine (`Distinct`), that what has joined a cluster is up
  (`Powered`) and that scaling makes workers only (`Grown`).
- `UpgradedIsWhole` needs that what `KubeadmUpgradeCluster` lists as workers is all
  that is left: `Caught` says that while workers are upgraded, every member not at the target is
  among those still listed. Azure lists them from `clusters.json`, so `Knows`
  follows what this computer remembers of the cluster. An upgrade that could not read every address
  is told apart by `missed` (`Passed`), and still has the control plane at the target.

Only model-checked are `TeardownCompletes`, both `Converges`, `RunEnds`,
`PackageSettles` and `RetrySucceeds`: liveness, with its fairness, is out of this
prover's reach. The findings are counterexamples, which the runs show. Every
invariant, action property and refinement that a passing run checks is a theorem.

## Findings

1. `dataplane/register.go:83`: a manager outside the election (`adhar up` beside
   the in-cluster replica) leaves an orphaned registration (`dataplane_two`).
2. `adharplatform/helpers.go:99`: objects whose kind is not registered yet are
   skipped silently; ControlPlaneApplied is set and the provider configurations
   are never applied (`platform_control`).
3. `adharplatform/controller.go:794`: the status written at the end of a pass is
   a whole copy from its start; the record that the repositories are seeded can
   be lost, and the next run of the CLI force-pushes over them
   (`platform_record`).
4. `gitrepository/controller.go:329`: after a lost push the commit stays in the
   clone on disk, the next pass finds a clean worktree and reports the
   repository synced (`repository_push`).
5. `digitalocean/compute.go:555`: deleting a cluster deletes the role tags all
   clusters of the account share; the others' control planes are not found any
   more (`clusters_tags`). With one cluster in the account it does not happen (`FoundWhenAlone`).

Met while modelling, and not kept as runs: Ready next to a condition that fell
back to waiting (`dataplane/conditions.go:66`); the other mode's kubeconfig taken
after an edit of the mode (`dataplane/infra.go:131`); the fast path that exits before the gateway's node
ports are pinned (`adharplatform/controller.go:152`); flags that gate the install
for ever, so that nothing brings back what is deleted (`adharplatform/controller.go:163`);
the network that GCP's deletions leave by default (`gcp/provider.go:1378`); the
untagged resource group that Azure's leave with its machines (`azure/provider.go:1347`), although
`DeleteCluster` is said to delete "all associated Azure resources" (`azure/provider.go:1303`), and
the configured one that they take from every cluster in it (`azure/provider.go:1336`); the workers Azure's upgrade
passes over (`azure/provider.go:2324`); and what else the providers do, listed under "Clusters" above.

## Not modelled, and why

- Tenants and the retry helper: libraries that no command or controller calls
  yet; short sequential code.
- Managed clusters (DOKS, Civo, GKE), volumes, load balancers, backups, add-ons,
  cost and metrics of the providers: single calls whose state is the cloud's. The
  kind provider: calls of a library.
- AWS `UpdateCluster` and `CleanupAllOrphanedResources`: no command calls them.
- The GitHub provider of GitRepository, and the removal of repositories and
  packages: the code leaves it to the garbage collector.
- Webhooks, configuration, domain, stack resolver, authentication, the remaining
  commands, progress display: sequential code, rendering or I/O, better served by
  unit tests. Generated deep copies.
- Static passwords: off by default; the order of service and secret is a
  hazard without a model.

Most of the repository is of these kinds: the definitions stand for about a
tenth of its lines, which are those where steps interleave or fail half way.

## Plan

Done: DataPlane with its lifecycle, AdharPlatform with its runs, GitRepository
with CustomPackage, the cluster commands on six clouds, an abstract
specification for each of the three controllers, and the proofs above. To come:

1. The hand-over of an interrupted `adhar up` (the in-cluster manager needs
   seeded repositories), the upgrade's second push, the password rotation.
2. Names claimed by two packages; the removal of packages.
3. Tenants with partial failure; retry as a function against its definition.
