---- MODULE Clusters ----
(***************************************************************************)
(* The cluster commands (cmd/cluster, cmd/up/production.go) over the cloud *)
(* providers (platform/providers): `create` provisions virtual machines    *)
(* and joins them into a Kubernetes cluster with kubeadm, `delete` takes   *)
(* all of it away, `scale` and `upgrade` change what runs.  A command is a *)
(* sequence of calls to a cloud and of commands over SSH; it can stop      *)
(* after any of them, and the user may then run it again.  Six clouds are  *)
(* modelled: what each does differently is in the tables below.            *)
(* Machine 0 of a cluster is its control plane, machines 1..Workers its    *)
(* workers, the ones above were added by `scale`.                          *)
(***************************************************************************)
EXTENDS Naturals, FiniteSets

CONSTANTS
    Names,       \* clusters, all in one account of one cloud
    Clouds,      \* the clouds considered
    Shares,      \* whether they share one network on GCP, one resource group on Azure
    Workers,     \* how many workers the specification of a cluster asks for
    MostWorkers, \* the largest number of workers `scale` is asked for
    Asked,       \* the Kubernetes version of the specification
    Default,     \* KubeadmDefaultK8sMinor
    Target,      \* the version `upgrade` is asked for
    MaxCopies,   \* bound on the machines of one name
    MaxFaults    \* bound on the calls that fail and the commands interrupted

ASSUME CloudsAssumption ==
    Clouds \subseteq {"digitalocean", "civo", "gcp", "azure", "aws", "custom"}
ASSUME SharesAssumption == Shares \in BOOLEAN
ASSUME WorkersAssumption ==
    Workers \in Nat \ {0} /\ MostWorkers \in Nat /\ MostWorkers >= Workers
ASSUME VersionsAssumption ==
    /\ Asked \in Nat \ {0} /\ Default \in Nat \ {0} /\ Target \in Nat
    /\ Asked <= Target /\ Default <= Target
ASSUME LimitsAssumption == MaxCopies \in Nat \ {0} /\ MaxFaults \in Nat

Nodes == 0..(Workers + MostWorkers)
Copies == 1..MaxCopies
Keys == 1..(Cardinality(Nodes) * MaxCopies + 3)     \* enough for one that nobody uses
Absent == 0                                         \* no key, no version, no cluster

Machine == [node : Nodes, copy : Copies, key : Keys, up : BOOLEAN, role : BOOLEAN,
            ca : Keys \cup {Absent}, version : Nat]
\* What a command remembers of a machine: addr is whether it has its address.
Ref == [node : Nodes, copy : Copies, addr : BOOLEAN]

VARIABLES
    cloud,       \* the cloud of this account
    key,         \* the SSH key of each cluster under ~/.adhar/clusters
    registered,  \* the key registered with the cloud under the cluster's name
    parts,       \* which of network, subnets (AWS alone) and firewall exist, and
                 \* whether the place they are in is foreign (see Foreign)
    vm,          \* the machines of each cluster
    file,        \* clusters.json under ~/.adhar/state: the machines it lists, by cluster
    cli,         \* the command running on each cluster
    said,        \* what the last one answered
    faults       \* failures and interruptions so far

account == <<registered, parts, vm>>
vars == <<cloud, key, registered, parts, vm, file, cli, said, faults>>

NoTracker == {}
Trackers == [Names -> SUBSET Nodes]
Ops == {"none", "create", "abort", "delete", "scale", "upgrade"}
NoCommand == [op |-> "none", at |-> "done", next |-> 0, want |-> 0, mine |-> {}, seen |-> {},
              token |-> Absent, missed |-> FALSE, mem |-> [c \in Names |-> NoTracker]]

-----------------------------------------------------------------------------
(* What the clouds do differently *)

Registers == cloud \in {"digitalocean", "civo", "aws"}   \* keys are registered by name
Tracks == cloud \in {"gcp", "azure"}              \* clusters.json says what exists

\* The clusters in one network of GCP, which takes its name from the configuration and
\* is there for whoever comes next, or in one resource group of Azure: by default GCP's
\* network is shared and Azure's group is not.
Mates(c) == IF Shares /\ Tracks THEN Names ELSE {c}
\* Whether deleting a cluster deletes others: those in its resource group.
Exposed == cloud = "azure" /\ Shares

\* What DeleteCluster leaves, taking it for somebody else's: on GCP a network (with
\* its subnet) whose name does not contain the cluster's, on Azure a resource
\* group that was there without Adhar's tag.
Foreign(c) == "foreign" \in parts[c]
Standing(c) == \E d \in Mates(c) : "network" \in parts[d]

\* What follows each step of CreateCluster and of DeleteCluster, from the start.
DigitalOceanCreate ==
    [start |-> "key", key |-> "network", network |-> "firewall", firewall |-> "look",
     look |-> "machine", machine |-> "init", init |-> "join", join |-> "integrate",
     integrate |-> "done"]
\* Mutant of DigitalOceanDelete: the role tags go first, while there are droplets.
DigitalOceanUntags ==
    [start |-> "dropTags", dropTags |-> "dropDroplets", dropDroplets |-> "dropFirewall",
     dropFirewall |-> "dropNetwork", dropNetwork |-> "dropKey", dropKey |-> "forget",
     forget |-> "done"]
DigitalOceanDelete ==
    [start |-> "dropDroplets", dropDroplets |-> "dropFirewall", dropFirewall |-> "dropNetwork",
     dropNetwork |-> "dropTags", dropTags |-> "dropKey", dropKey |-> "forget",
     forget |-> "done"]
CivoCreate ==
    [start |-> "key", key |-> "network", network |-> "firewall", firewall |-> "machine",
     machine |-> "init", init |-> "join", join |-> "done"]
\* Mutant of CivoDelete: the registered key stays.
CivoKeepsKey ==
    [start |-> "dropInstances", dropInstances |-> "dropFirewall",
     dropFirewall |-> "dropNetwork", dropNetwork |-> "forget", forget |-> "done"]
CivoDelete ==
    [start |-> "dropInstances", dropInstances |-> "dropFirewall",
     dropFirewall |-> "dropNetwork", dropNetwork |-> "dropKey", dropKey |-> "forget",
     forget |-> "done"]
GcpCreate ==
    [start |-> "network", network |-> "firewall", firewall |-> "key", key |-> "machine",
     machine |-> "save", save |-> "init", init |-> "join", join |-> "done"]
GcpDelete ==
    [start |-> "dropTracked", dropTracked |-> "dropFirewall", dropFirewall |-> "dropNetwork",
     dropNetwork |-> "untrack", untrack |-> "forget", forget |-> "done"]
AzureCreate ==
    [start |-> "network", network |-> "firewall", firewall |-> "key", key |-> "machine",
     machine |-> "save", save |-> "init", init |-> "join", join |-> "done"]
AzureDelete ==
    [start |-> "dropGroup", dropGroup |-> "untrack", untrack |-> "forget", forget |-> "done"]
AwsCreate ==
    [start |-> "network", network |-> "subnets", subnets |-> "firewall", firewall |-> "key",
     key |-> "machine", machine |-> "init", init |-> "join", join |-> "done"]
\* AWS alone takes its infrastructure away again when it cannot be completed.
AwsAbort ==
    [dropDroplets |-> "dropFirewall", dropFirewall |-> "sweepEmpty", sweepEmpty |-> "done"]
AwsDelete ==
    [start |-> "dropDroplets", dropDroplets |-> "dropFirewall",
     dropFirewall |-> "dropSubnets", dropSubnets |-> "sweep", sweep |-> "dropKey",
     dropKey |-> "forget", forget |-> "done"]
CustomCreate == [start |-> "prepare", prepare |-> "init", init |-> "join", join |-> "done"]
CustomDelete == [start |-> "reset", reset |-> "done"]

Program(op) ==
    CASE op = "create" -> (CASE cloud = "digitalocean" -> DigitalOceanCreate
                             [] cloud = "civo" -> CivoCreate [] cloud = "gcp" -> GcpCreate
                             [] cloud = "azure" -> AzureCreate [] cloud = "aws" -> AwsCreate
                             [] OTHER -> CustomCreate)
      [] op = "delete" -> (CASE cloud = "digitalocean" -> DigitalOceanDelete
                             [] cloud = "civo" -> CivoDelete [] cloud = "gcp" -> GcpDelete
                             [] cloud = "azure" -> AzureDelete [] cloud = "aws" -> AwsDelete
                             [] OTHER -> CustomDelete)
      [] op = "abort" -> AwsAbort
      [] op = "scale" -> [start |-> "survey"]
      [] OTHER -> [start |-> "upgradeMaster"]

\* What ListClusters finds, from which the commands take the cluster's ID.
Listed(c) ==
    CASE Registers -> vm[c] # {}
      [] cloud = "gcp" -> file[c] # NoTracker
      [] cloud = "azure" -> file[c] # NoTracker \/ vm[c] # {}
      [] OTHER -> \E m \in vm[c] : m.node = 0 /\ m.ca # Absent

-----------------------------------------------------------------------------
(* Machines and keys *)

RefTo(m) == [node |-> m.node, copy |-> m.copy, addr |-> m.up]
IsOf(m, r) == m.node = r.node /\ m.copy = r.copy

\* AWS's network has an internet gateway and no route to it.
Routed == cloud # "aws"

\* The machines SSH reaches through references: they have an address and were
\* made with the key this computer holds.
Reached(c, refs) ==
    {m \in vm[c] : Routed /\ m.up /\ m.key = key[c] /\ \E r \in refs : IsOf(m, r) /\ r.addr}

Change(c, m, n) == vm' = [vm EXCEPT ![c] = (@ \ {m}) \cup {n}]

\* A key, or a certificate authority, that is in use nowhere.
Fresh(k, used) == k \notin used /\ \A j \in Keys : j < k => j \in used
UsedKeys(c) == {key[c], registered[c]} \cup {m.key : m \in vm[c]}
UsedCAs(c) == {m.ca : m \in vm[c]}

\* EnsureClusterSSHKey: the key of this computer, made when there is none.
EnsureLocalKey(c) ==
    IF key[c] # Absent THEN UNCHANGED key
    ELSE \E k \in Keys : Fresh(k, UsedKeys(c)) /\ key' = [key EXCEPT ![c] = k]

\* A new machine carries the key registered with the cloud, or the local one.
Made(c, n, k, version) ==
    [node |-> n, copy |-> k, key |-> IF Registers THEN registered[c] ELSE key[c],
     up |-> FALSE, role |-> n = 0, ca |-> Absent, version |-> version]

\* The cloud makes one more machine: its reference is what the command keeps.
Provision(c, n, version) ==
    \E k \in Copies :
        /\ Fresh(k, {m.copy : m \in {x \in vm[c] : x.node = n}})
        /\ vm' = [vm EXCEPT ![c] = @ \cup {Made(c, n, k, version)}]
        /\ cli' = [cli EXCEPT ![c].at = "await",
                              ![c].mine = @ \cup {[node |-> n, copy |-> k, addr |-> TRUE]}]

-----------------------------------------------------------------------------
(* Commands *)

At(c, step) == cli[c].at = step

Answer(op) == CASE op = "create" -> "running" [] op = "abort" -> "failed"
                [] op = "delete" -> "deleted" [] op = "scale" -> "scaled"
                [] OTHER -> "upgraded"

End(c, answer) == /\ cli' = [cli EXCEPT ![c] = NoCommand]
                  /\ said' = [said EXCEPT ![c] = answer]

\* The command, now as `me` says, goes to another step; or is done.  For GCP
\* alone are the failures a deletion passed over an error in the end; the others
\* answer success, which "incomplete" and "partial" tell from one without failures.
GoTo(c, me, step) ==
    IF step = "done"
    THEN End(c, IF ~me.missed \/ me.op \notin {"delete", "upgrade"} THEN Answer(me.op)
                ELSE IF cloud = "gcp" THEN "failed"
                ELSE IF me.op = "delete" THEN "incomplete" ELSE "partial")
    ELSE /\ cli' = [cli EXCEPT ![c] = [me EXCEPT !.at = step, !.next = 0]]
         /\ UNCHANGED said

Proceed(c, me) == GoTo(c, me, Program(me.op)[me.at])

\* Loops over 0..last, one round a step.
Loop(c, me, last) ==
    IF me.next < last
    THEN cli' = [cli EXCEPT ![c] = [me EXCEPT !.next = @ + 1]] /\ UNCHANGED said
    ELSE Proceed(c, me)

Fault == faults < MaxFaults /\ faults' = faults + 1

\* The user runs a command.  The provider reads clusters.json when it is made.
Start(c, op, want) ==
    /\ cli[c].op = "none"
    /\ cli' = [cli EXCEPT ![c] = [NoCommand EXCEPT !.op = op, !.at = Program(op).start,
                                                    !.want = want, !.mem = file]]
    /\ said' = [said EXCEPT ![c] = "nothing"]
    /\ UNCHANGED <<cloud, key, account, file, faults>>

\* The bound on machines of one name, for the commands that can make another.
Room(c, nodes) == \A n \in nodes : Cardinality({m \in vm[c] : m.node = n}) < MaxCopies

StartCreate(c) == /\ Start(c, "create", 0)
                  /\ cloud \in {"civo", "aws"} => Room(c, 0..Workers)

\* A tracked cluster only: without a tracker DeleteCluster answers an error.
StartDelete(c) == /\ Listed(c) /\ (Tracks => file[c] # NoTracker)
                  /\ Start(c, "delete", 0)
\* The others' ScaleNodeGroup changes no self-managed cluster.
StartScale(c, want) == /\ cloud = "digitalocean" /\ Listed(c) /\ Room(c, Nodes \ 0..Workers)
                       /\ Start(c, "scale", want)
\* GCP's looks for the address of the control plane where none is ever stored.
StartUpgrade(c) == /\ Listed(c) /\ cloud # "gcp" /\ (Tracks => file[c] # NoTracker)
                   /\ Start(c, "upgrade", 0)

\* A call fails and the command returns its error, or the command is
\* interrupted: neither undoes anything.  The failures a command passes over are
\* other actions.
Stops(c) ==
    /\ cli[c].op # "none" /\ Fault /\ End(c, "failed")
    /\ UNCHANGED <<cloud, key, account, file>>

\* The cloud starts a machine.
Boots(c) ==
    \E m \in vm[c] :
        /\ ~m.up /\ Change(c, m, [m EXCEPT !.up = TRUE])
        /\ UNCHANGED <<cloud, key, registered, parts, file, cli, said, faults>>

-----------------------------------------------------------------------------
(* CreateCluster *)

\* Adhar's key for the cluster, registered unless one of its name already is.
EnsureKey(c) ==
    /\ At(c, "key") /\ EnsureLocalKey(c)
    /\ registered' = [registered EXCEPT ![c] =
                        IF Registers /\ @ = Absent THEN key'[c] ELSE @]
    /\ Proceed(c, cli[c])
    /\ UNCHANGED <<cloud, parts, vm, file, faults>>

\* A step of an AWS creation whose network or subnets somebody else's command
\* has swept away meanwhile: the cloud refuses it.
Lacks(c) == cloud = "aws" /\ cli[c].op = "create" /\
    CASE cli[c].at \in {"subnets", "firewall"} -> "network" \notin parts[c]
      [] cli[c].at = "machine" -> ~({"subnets", "firewall"} \subseteq parts[c])
      [] OTHER -> FALSE

\* The same where a mate's deletion has taken the network or the resource group.
Lost(c) == IF cloud = "gcp" THEN ~Standing(c) ELSE cloud = "azure" /\ "network" \notin parts[c]

\* AWS makes another network each time, the other clouds one of a name.
EnsureNetwork(c) ==
    /\ At(c, "network")
    /\ parts' = [parts EXCEPT ![c] = @ \cup {"network"}]
    /\ Proceed(c, cli[c])
    /\ UNCHANGED <<cloud, key, registered, vm, file, faults>>

CreateSubnets(c) ==
    /\ At(c, "subnets") /\ ~Lacks(c)
    /\ parts' = [parts EXCEPT ![c] = @ \cup {"subnets"}]
    /\ Proceed(c, cli[c])
    /\ UNCHANGED <<cloud, key, registered, vm, file, faults>>

\* GCP inserts its rules without looking for them.
EnsureFirewall(c) ==
    /\ At(c, "firewall") /\ ~Lacks(c)
    /\ IF Lost(c) \/ (cloud = "gcp" /\ "firewall" \in parts[c])
       THEN End(c, "failed") /\ UNCHANGED parts
       ELSE /\ parts' = [parts EXCEPT ![c] = @ \cup {"firewall"}]
            /\ Proceed(c, cli[c])
    /\ UNCHANGED <<cloud, key, registered, vm, file, faults>>

\* Mutant of Look: nothing is taken over.
LookAway(c) ==
    /\ At(c, "look") /\ Proceed(c, cli[c])
    /\ UNCHANGED <<cloud, key, account, file, faults>>

\* DigitalOcean lists the droplets the cluster already has.
Look(c) ==
    /\ At(c, "look")
    /\ Proceed(c, [cli[c] EXCEPT !.seen = {RefTo(m) : m \in vm[c]}])
    /\ UNCHANGED <<cloud, key, account, file, faults>>

\* The next machine of the specification.  DigitalOcean takes over one of that
\* name, by what it saw of it; Azure updates it; GCP refuses a second one.
CreateMachine(c) ==
    /\ At(c, "machine") /\ ~Lacks(c)
    /\ LET n == cli[c].next
           known == IF cloud = "digitalocean" THEN {r \in cli[c].seen : r.node = n}
                    ELSE IF cloud = "azure" THEN {[RefTo(m) EXCEPT !.addr = TRUE] :
                                                    m \in {x \in vm[c] : x.node = n}}
                    ELSE {}
       IN IF known # {}
          THEN /\ \E r \in known : Loop(c, [cli[c] EXCEPT !.mine = @ \cup {r}], Workers)
               /\ UNCHANGED vm
          ELSE IF Lost(c) \/ (cloud = "gcp" /\ \E m \in vm[c] : m.node = n)
          THEN End(c, "failed") /\ UNCHANGED vm
          ELSE Provision(c, n, Asked) /\ UNCHANGED said
    /\ UNCHANGED <<cloud, key, registered, parts, file, faults>>

\* A machine that a mate's deletion has taken while the command waits for it.
Vanished(c) == \E r \in cli[c].mine : r.addr /\ \A m \in vm[c] : ~IsOf(m, r)

\* The command polls until the machine it made is active and has its address.
Await(c) ==
    /\ At(c, "await") /\ ~Vanished(c)
    /\ \A m \in vm[c] : (\E r \in cli[c].mine : IsOf(m, r) /\ r.addr) => m.up
    /\ IF cli[c].op = "create"
       THEN Loop(c, [cli[c] EXCEPT !.at = "machine"], Workers)
       ELSE cli' = [cli EXCEPT ![c].at = "joinNew"] /\ UNCHANGED said
    /\ UNCHANGED <<cloud, key, account, file, faults>>

\* The infrastructure of an AWS cluster fails: cleanupPartialInfrastructure.  What
\* the call that failed was to make may be there.
Aborts(c) ==
    /\ cloud = "aws" /\ cli[c].op = "create"
    /\ cli[c].at \in {"network", "subnets", "firewall", "key", "machine", "await"}
    /\ IF Lacks(c) THEN UNCHANGED <<parts, faults>>
       ELSE /\ Fault
            /\ \E made \in SUBSET ({cli[c].at} \cap {"network", "subnets", "firewall"}) :
                 parts' = [parts EXCEPT ![c] = @ \cup made]
    /\ cli' = [cli EXCEPT ![c] = [NoCommand EXCEPT !.op = "abort", !.at = "dropDroplets"]]
    /\ UNCHANGED <<cloud, key, registered, vm, file, said>>

\* GCP and Azure list what they made in clusters.json, over what it holds now.
Save(c) ==
    /\ At(c, "save")
    /\ LET mem == [cli[c].mem EXCEPT ![c] = 0..Workers]
       IN file' = mem /\ Proceed(c, [cli[c] EXCEPT !.mem = mem])
    /\ UNCHANGED <<cloud, key, account, faults>>

\* clusters.json cannot be written: logged, and the creation goes on.
SaveFails(c) ==
    /\ At(c, "save") /\ Fault /\ Proceed(c, cli[c])
    /\ UNCHANGED <<cloud, key, account, file>>

\* prepareHost of the custom provider: the hosts are there, and are prepared once.
PrepareHost(c) ==
    /\ At(c, "prepare")
    /\ \E m \in vm[c] :
         /\ m.node = cli[c].next
         /\ Change(c, m, IF m.version = Absent THEN [m EXCEPT !.version = Asked] ELSE m)
         /\ Loop(c, [cli[c] EXCEPT !.mine = @ \cup {RefTo(m)}], Workers)
    /\ UNCHANGED <<cloud, key, registered, parts, file, faults>>

\* WaitForNodePrep polls a machine that never lets this command in.
Unreachable(c, node) == \E r \in cli[c].mine :
    r.node = node /\ (~r.addr \/ ~Routed \/ ~ \E m \in vm[c] : IsOf(m, r) /\ m.key = key[c])

\* Mutant of InitMaster: not skipped where admin.conf exists, where kubeadm init
\* then starts over.
InitAgain(c) ==
    /\ At(c, "init")
    /\ \E m \in Reached(c, cli[c].mine), k \in Keys :
         /\ m.node = 0 /\ Fresh(k, UsedCAs(c) \cup {Absent})
         /\ Change(c, m, [m EXCEPT !.ca = k])
         /\ Proceed(c, [cli[c] EXCEPT !.token = k])
    /\ UNCHANGED <<cloud, key, registered, parts, file, faults>>

\* Mutant of InitMaster: kubeadm init refuses where admin.conf exists.
InitRefused(c) ==
    /\ At(c, "init")
    /\ \E m \in Reached(c, cli[c].mine) :
         /\ m.node = 0
         /\ IF m.ca # Absent THEN UNCHANGED vm /\ End(c, "failed")
            ELSE \E k \in Keys : /\ Fresh(k, UsedCAs(c) \cup {Absent})
                                 /\ Change(c, m, [m EXCEPT !.ca = k])
                                 /\ Proceed(c, [cli[c] EXCEPT !.token = k])
    /\ UNCHANGED <<cloud, key, registered, parts, file, faults>>

\* KubeadmInitMaster: skipped where admin.conf exists; then the join command.
InitMaster(c) ==
    /\ At(c, "init")
    /\ \E m \in Reached(c, cli[c].mine) :
         /\ m.node = 0
         /\ IF m.ca # Absent THEN UNCHANGED vm /\ Proceed(c, [cli[c] EXCEPT !.token = m.ca])
            ELSE \E k \in Keys : /\ Fresh(k, UsedCAs(c) \cup {Absent})
                                 /\ Change(c, m, [m EXCEPT !.ca = k])
                                 /\ Proceed(c, [cli[c] EXCEPT !.token = k])
    /\ UNCHANGED <<cloud, key, registered, parts, file, faults>>

\* KubeadmJoinWorker: skipped where kubelet.conf exists.
JoinWorker(c) ==
    /\ At(c, "join")
    /\ \E m \in Reached(c, cli[c].mine) :
         /\ m.node = cli[c].next + 1
         /\ Change(c, m, IF m.ca # Absent THEN m ELSE [m EXCEPT !.ca = cli[c].token])
         /\ Loop(c, cli[c], Workers - 1)
    /\ UNCHANGED <<cloud, key, registered, parts, file, faults>>

\* installDOCloudIntegration, on the control plane.
Integrate(c) ==
    /\ At(c, "integrate") /\ Proceed(c, cli[c])
    /\ UNCHANGED <<cloud, key, account, file, faults>>

\* The machine whose turn it is does not answer: the command gives up.
TimesOut(c) ==
    /\ \/ At(c, "await") /\ Vanished(c)
       \/ At(c, "init") /\ Unreachable(c, 0)
       \/ At(c, "join") /\ Unreachable(c, cli[c].next + 1)
       \/ At(c, "joinNew") /\ \E r \in cli[c].mine : Unreachable(c, r.node)
    /\ End(c, "failed")
    /\ UNCHANGED <<cloud, key, account, file, faults>>

-----------------------------------------------------------------------------
(* DeleteCluster *)

\* DigitalOcean and AWS delete the machines with the cluster's tag, all at once.
DropDroplets(c) ==
    /\ At(c, "dropDroplets")
    /\ vm' = [vm EXCEPT ![c] = {}]
    /\ Proceed(c, cli[c])
    /\ UNCHANGED <<cloud, key, registered, parts, file, faults>>

\* Civo deletes the instances with its tag one after another.
DropInstances(c) ==
    /\ At(c, "dropInstances")
    /\ \/ /\ vm[c] = {} /\ Proceed(c, cli[c]) /\ UNCHANGED vm
       \/ /\ \E m \in vm[c] : vm' = [vm EXCEPT ![c] = @ \ {m}]
          /\ UNCHANGED <<cli, said>>
    /\ UNCHANGED <<cloud, key, registered, parts, file, faults>>

\* GCP deletes the instances its tracker names; one it does not find is an error.
DropTracked(c) ==
    /\ At(c, "dropTracked")
    /\ LET found == {m \in vm[c] : m.node = cli[c].next}
       IN /\ vm' = [vm EXCEPT ![c] = @ \ found]
          /\ Loop(c, [cli[c] EXCEPT !.missed = @ \/ found = {}], Workers)
    /\ UNCHANGED <<cloud, key, registered, parts, file, faults>>

\* AWS deletes no security group and no subnet that a machine is in.
Held(c) == cloud = "aws" /\ vm[c] # {}

\* For GCP a rule that is gone is an error, like any other.
DropFirewall(c) ==
    /\ At(c, "dropFirewall")
    /\ parts' = [parts EXCEPT ![c] = IF Held(c) THEN @ ELSE @ \ {"firewall"}]
    /\ Proceed(c, [cli[c] EXCEPT !.missed = @ \/ (cloud = "gcp" /\ "firewall" \notin parts[c])])
    /\ UNCHANGED <<cloud, key, registered, vm, file, faults>>

\* No cloud removes a network that machines are in, GCP none that has rules.
DropNetwork(c) ==
    /\ At(c, "dropNetwork")
    /\ LET used == \E d \in Mates(c) : vm[d] # {} \/ (cloud = "gcp" /\ "firewall" \in parts[d])
       IN IF Foreign(c)
          THEN Proceed(c, cli[c]) /\ UNCHANGED parts
          ELSE /\ parts' = [d \in Names |-> IF d \in Mates(c) /\ ~used
                                           THEN parts[d] \ {"network"} ELSE parts[d]]
               /\ Proceed(c, [cli[c] EXCEPT !.missed =
                                @ \/ used \/ (cloud = "gcp" /\ ~Standing(c))])
    /\ UNCHANGED <<cloud, key, registered, vm, file, faults>>

DropSubnets(c) ==
    /\ At(c, "dropSubnets")
    /\ parts' = [parts EXCEPT ![c] = IF Held(c) THEN @ ELSE @ \ {"subnets"}]
    /\ Proceed(c, cli[c])
    /\ UNCHANGED <<cloud, key, registered, vm, file, faults>>

\* AWS's networks carry no name of a cluster: all of the account are deleted
\* with what is in them, those that machines are in excepted.
Sweep(c) ==
    /\ At(c, "sweep")
    /\ parts' = [d \in Names |-> IF vm[d] = {} THEN {} ELSE parts[d]]
    /\ Proceed(c, cli[c])
    /\ UNCHANGED <<cloud, key, registered, vm, file, faults>>

\* The same after a failed creation: those that are empty.  It looks for a tag
\* that subnets do not carry, and deletes none of them before.
SweepEmpty(c) ==
    /\ At(c, "sweepEmpty")
    /\ parts' = [d \in Names |-> IF parts[d] = {"network"} /\ vm[d] = {} THEN {} ELSE parts[d]]
    /\ Proceed(c, cli[c])
    /\ UNCHANGED <<cloud, key, registered, vm, file, faults>>

\* The cluster's tag, and the two role tags that all clusters share: deleting
\* a tag takes it off every droplet.
DropTags(c) ==
    /\ At(c, "dropTags")
    /\ vm' = [d \in Names |-> {[m EXCEPT !.role = FALSE] : m \in vm[d]}]
    /\ Proceed(c, cli[c])
    /\ UNCHANGED <<cloud, key, registered, parts, file, faults>>

DropKey(c) ==
    /\ At(c, "dropKey")
    /\ registered' = [registered EXCEPT ![c] = Absent]
    /\ Proceed(c, cli[c])
    /\ UNCHANGED <<cloud, key, parts, vm, file, faults>>

\* A call of a deletion fails: it is logged, or not even that (a list that
\* fails), and the deletion goes on.
PassOver(c) ==
    /\ Fault
    /\ \/ cli[c].at \in {"dropTracked", "dropFirewall", "dropNetwork", "dropTags", "dropKey",
                        "dropSubnets", "sweep", "sweepEmpty", "dropGroup", "untrack", "reset"}
       \/ cli[c].at = "dropDroplets" /\ cloud = "aws"
    /\ LET me == [cli[c] EXCEPT !.missed = TRUE]
       IN IF cli[c].at \in {"dropTracked", "reset"} THEN Loop(c, me, Workers)
          ELSE Proceed(c, me)
    /\ UNCHANGED <<cloud, key, account, file>>

\* A resource group and all that is in it.
DeleteGroup(c) ==
    /\ parts' = [d \in Names |-> IF d \in Mates(c) THEN {} ELSE parts[d]]
    /\ vm' = [d \in Names |-> IF d \in Mates(c) THEN {} ELSE vm[d]]

\* Azure deletes the resource group, whoever else is in it; one that it does not
\* find is logged, and so is one without Adhar's tag, which it leaves as it is.
DropGroup(c) ==
    /\ At(c, "dropGroup")
    /\ IF ~Foreign(c) /\ Standing(c)
       THEN DeleteGroup(c) /\ Proceed(c, cli[c])
       ELSE /\ Proceed(c, [cli[c] EXCEPT !.missed = @ \/ ~Foreign(c)])
            /\ UNCHANGED <<parts, vm>>
    /\ UNCHANGED <<cloud, key, registered, file, faults>>

\* The deletion of the group fails, or its end is not seen: an error, and still
\* the deferred RemoveClusterState runs.
DropGroupFails(c) ==
    /\ At(c, "dropGroup") /\ Fault /\ ~Foreign(c) /\ Standing(c)
    /\ DeleteGroup(c) \/ UNCHANGED <<parts, vm>>
    /\ key' = [key EXCEPT ![c] = Absent]
    /\ End(c, "failed")
    /\ UNCHANGED <<cloud, registered, file>>

Untrack(c) ==
    /\ At(c, "untrack")
    /\ file' = [cli[c].mem EXCEPT ![c] = NoTracker]
    /\ Proceed(c, cli[c])
    /\ UNCHANGED <<cloud, key, account, faults>>

\* RemoveClusterState.
Forget(c) ==
    /\ At(c, "forget")
    /\ key' = [key EXCEPT ![c] = Absent]
    /\ Proceed(c, cli[c])
    /\ UNCHANGED <<cloud, account, file, faults>>

\* kubeadm reset of the custom provider's hosts: workers first, master last.
Reset(c) ==
    /\ At(c, "reset")
    /\ \E m \in vm[c] :
         /\ m.node = (IF cli[c].next < Workers THEN cli[c].next + 1 ELSE 0)
         /\ Change(c, m, [m EXCEPT !.ca = Absent])
    /\ Loop(c, cli[c], Workers)
    /\ UNCHANGED <<cloud, key, registered, parts, file, faults>>

-----------------------------------------------------------------------------
(* ScaleNodeGroup and UpgradeCluster *)

\* Mutant of Others: every droplet of the cluster counts as a worker.
OthersToo(c) == vm[c]

\* The droplets with the shared role tag are control planes, the others workers.
Masters(c) == {m \in vm[c] : m.role}
Others(c) == vm[c] \ Masters(c)
Serves(c, m) == Routed /\ m.up /\ m.key = key[c] /\ m.ca # Absent

\* scaleComputeWorkers counts the droplets and asks the control plane for a
\* join command.
Survey(c) ==
    /\ At(c, "survey")
    /\ LET me == cli[c]
           count == Cardinality(Others(c))
           grows == me.want > count
       IN /\ IF key[c] = Absent \/ \A m \in Masters(c) : ~m.up THEN End(c, "failed")
             ELSE IF me.want = count THEN End(c, "scaled")
             ELSE IF ~grows
             THEN GoTo(c, [me EXCEPT !.seen = {RefTo(m) : m \in Others(c)}], "shrink")
             ELSE \E m \in Masters(c) :
                    IF ~Serves(c, m) THEN End(c, "failed")
                    ELSE /\ cli' = [cli EXCEPT ![c] = [me EXCEPT
                               !.at = "grow", !.next = count + 1, !.token = m.ca]]
                         /\ UNCHANGED said
          /\ registered' = [registered EXCEPT ![c] =
                              IF grows /\ @ = Absent THEN key[c] ELSE @]
          /\ parts' = [parts EXCEPT ![c] = IF grows THEN @ \cup {"network"} ELSE @]
    /\ UNCHANGED <<cloud, key, vm, file, faults>>

\* Mutant of Grow: one round too many.
GrowOneMore(c) ==
    /\ At(c, "grow")
    /\ IF cli[c].next > cli[c].want + 1 THEN End(c, "scaled") /\ UNCHANGED vm
       ELSE Provision(c, Workers + cli[c].next, Default) /\ UNCHANGED said
    /\ UNCHANGED <<cloud, key, registered, parts, file, faults>>

\* One more droplet, prepared for the default version.
Grow(c) ==
    /\ At(c, "grow")
    /\ IF cli[c].next > cli[c].want THEN End(c, "scaled") /\ UNCHANGED vm
       ELSE Provision(c, Workers + cli[c].next, Default) /\ UNCHANGED said
    /\ UNCHANGED <<cloud, key, registered, parts, file, faults>>

\* kubeadm refuses a node whose name the cluster already has.
JoinNew(c) ==
    /\ At(c, "joinNew")
    /\ \E m \in Reached(c, cli[c].mine) :
         IF \E o \in vm[c] \ {m} : o.node = m.node /\ o.ca = cli[c].token
         THEN End(c, "failed") /\ UNCHANGED vm
         ELSE /\ Change(c, m, [m EXCEPT !.ca = cli[c].token])
              /\ cli' = [cli EXCEPT ![c].at = "grow", ![c].next = @ + 1, ![c].mine = {}]
              /\ UNCHANGED said
    /\ UNCHANGED <<cloud, key, registered, parts, file, faults>>

\* The last droplets of the list are deleted: the cloud orders it as it likes.
Shrink(c) ==
    /\ At(c, "shrink")
    /\ \E r \in cli[c].seen :
         /\ vm' = [vm EXCEPT ![c] = {m \in @ : ~IsOf(m, r)}]
         /\ IF Cardinality(cli[c].seen) = cli[c].want + 1 THEN End(c, "scaled")
            ELSE cli' = [cli EXCEPT ![c].seen = @ \ {r}] /\ UNCHANGED said
    /\ UNCHANGED <<cloud, key, registered, parts, file, faults>>

\* Mutant of UpgradeWorkersOf: only the workers of the specification.
UpgradeSpecified(c) == {m \in Others(c) : m.up /\ m.node <= Workers}

\* The control plane of an upgrade, and its workers: those with an address.
ControlPlanes(c) == {m \in Masters(c) : m.up /\ (cloud # "azure" \/ m.node = 0)}
UpgradeWorkersOf(c) == {m \in Others(c) : m.up /\ (cloud = "azure" => m.node \in cli[c].mem[c])}

\* Mutant of UpgradeMaster: the control plane is left for last, the workers first.
UpgradeMasterLater(c) ==
    /\ At(c, "upgradeMaster")
    /\ \/ /\ \A m \in ControlPlanes(c) : ~Serves(c, m)
          /\ End(c, "failed")
       \/ \E m \in ControlPlanes(c) :
            /\ Serves(c, m)
            /\ GoTo(c, [cli[c] EXCEPT !.seen = {RefTo(w) : w \in UpgradeWorkersOf(c) \cup {m}}],
                    "upgradeWorkers")
    /\ UNCHANGED <<cloud, key, account, file, faults>>

\* KubeadmUpgradeCluster, for the workers whose address was read: the control plane.
UpgradeWith(c, read) ==
    \E m \in ControlPlanes(c) :
        /\ Serves(c, m)
        /\ Change(c, m, [m EXCEPT !.version = Target])
        /\ GoTo(c, [cli[c] EXCEPT !.seen = {RefTo(w) : w \in read},
                                   !.missed = read # UpgradeWorkersOf(c)], "upgradeWorkers")

UpgradeMaster(c) ==
    /\ At(c, "upgradeMaster")
    /\ \/ /\ \A m \in ControlPlanes(c) : ~Serves(c, m)
          /\ End(c, "failed") /\ UNCHANGED vm
       \/ UpgradeWith(c, UpgradeWorkersOf(c))
    /\ UNCHANGED <<cloud, key, registered, parts, file, faults>>

\* On Azure a worker whose public address cannot be read is logged and left out.
UpgradePassesOver(c) ==
    /\ At(c, "upgradeMaster") /\ cloud = "azure" /\ Fault
    /\ \E read \in SUBSET UpgradeWorkersOf(c) :
         read # UpgradeWorkersOf(c) /\ UpgradeWith(c, read)
    /\ UNCHANGED <<cloud, key, registered, parts, file>>

\* Then the workers; kubeadm upgrade fails on one that never joined.
UpgradeWorker(c) ==
    /\ At(c, "upgradeWorkers")
    /\ IF cli[c].seen = {} THEN GoTo(c, cli[c], "done") /\ UNCHANGED vm
       ELSE \E r \in cli[c].seen :
              \/ /\ \A m \in vm[c] : RefTo(m) = r => ~Serves(c, m)
                 /\ End(c, "failed") /\ UNCHANGED vm
              \/ \E m \in vm[c] :
                   /\ RefTo(m) = r /\ Serves(c, m)
                   /\ Change(c, m, [m EXCEPT !.version = Target])
                   /\ cli' = [cli EXCEPT ![c].seen = @ \ {r}]
                   /\ UNCHANGED said
    /\ UNCHANGED <<cloud, key, registered, parts, file, faults>>

-----------------------------------------------------------------------------
\* Every cloud account starts empty; the custom provider has its hosts, which
\* this computer can reach.
Init ==
    /\ cloud \in Clouds
    /\ key = [c \in Names |-> IF cloud = "custom" THEN 1 ELSE Absent]
    /\ registered = [c \in Names |-> Absent]
    /\ parts \in [Names -> {{}, {"foreign"}}]
    /\ ~Tracks => parts = [c \in Names |-> {}]
    /\ Exposed => \A c, d \in Names : parts[d] = parts[c]
    /\ vm = [c \in Names |->
               IF cloud # "custom" THEN {}
               ELSE {[node |-> n, copy |-> 1, key |-> 1, up |-> TRUE, role |-> n = 0,
                      ca |-> Absent, version |-> Absent] : n \in 0..Workers}]
    /\ file = [c \in Names |-> NoTracker]
    /\ cli = [c \in Names |-> NoCommand]
    /\ said = [c \in Names |-> "nothing"]
    /\ faults = 0

CreateStep(c) == \/ EnsureKey(c) \/ EnsureNetwork(c) \/ CreateSubnets(c) \/ EnsureFirewall(c) \/ Look(c)
                 \/ CreateMachine(c) \/ Await(c) \/ Save(c) \/ PrepareHost(c)
                 \/ InitMaster(c) \/ JoinWorker(c) \/ Integrate(c) \/ TimesOut(c)
DeleteStep(c) == \/ DropDroplets(c) \/ DropInstances(c) \/ DropTracked(c) \/ DropGroup(c)
                 \/ DropFirewall(c) \/ DropSubnets(c) \/ DropNetwork(c) \/ Sweep(c)
                 \/ SweepEmpty(c) \/ DropTags(c) \/ DropKey(c)
                 \/ Untrack(c) \/ Forget(c) \/ Reset(c)
OtherStep(c) == \/ Survey(c) \/ Grow(c) \/ JoinNew(c) \/ Shrink(c)
                \/ UpgradeMaster(c) \/ UpgradeWorker(c)
Step(c) == CreateStep(c) \/ DeleteStep(c) \/ OtherStep(c)

Next == \E c \in Names :
    \/ Step(c) \/ Boots(c) \/ Stops(c) \/ Aborts(c) \/ PassOver(c) \/ SaveFails(c) \/ DropGroupFails(c)
    \/ UpgradePassesOver(c)
    \/ StartCreate(c) \/ StartDelete(c) \/ StartUpgrade(c)
    \/ \E want \in 0..MostWorkers : StartScale(c, want)

\* A running command goes on, the cloud starts its machines, and the user runs
\* a command that is to create a cluster again: nothing else is assumed.
Fairness == \A c \in Names : WF_vars(Step(c)) /\ WF_vars(Boots(c)) /\ WF_vars(StartCreate(c))

Spec == Init /\ [][Next]_vars /\ Fairness

-----------------------------------------------------------------------------
(* Properties *)

Steps == {"done", "key", "network", "subnets", "firewall", "look", "machine", "await", "save", "prepare",
          "init", "join", "integrate", "dropDroplets", "dropInstances", "dropTracked",
          "dropGroup", "dropFirewall", "dropSubnets", "dropNetwork", "sweep", "sweepEmpty", "dropTags", "dropKey", "untrack",
          "forget", "reset", "survey", "grow", "joinNew", "shrink", "upgradeMaster",
          "upgradeWorkers"}
Said == {"nothing", "running", "deleted", "incomplete", "failed", "scaled", "upgraded", "partial"}

Command == [op : Ops, at : Steps, next : Nat, want : 0..MostWorkers, mine : SUBSET Ref,
            seen : SUBSET Ref, token : Keys \cup {Absent}, missed : BOOLEAN, mem : Trackers]

\* The type invariant: what the account, this computer and the commands hold.
TypeOK ==
    /\ cloud \in Clouds
    /\ key \in [Names -> Keys \cup {Absent}]
    /\ registered \in [Names -> Keys \cup {Absent}]
    /\ parts \in [Names -> SUBSET {"network", "subnets", "firewall", "foreign"}]
    /\ vm \in [Names -> SUBSET Machine]
    /\ file \in Trackers
    /\ cli \in [Names -> Command]
    /\ said \in [Names -> Said]
    /\ faults \in 0..MaxFaults

\* However often creation is interrupted and run again, no cloud but Civo and AWS
\* ends up with two machines for one node of the specification (the adoption of
\* createComputeCluster; GCP's refusal, Azure's update of one name).
OneMachinePerNode == cloud \notin {"civo", "aws"} =>
    \A c \in Names : \A m, n \in vm[c] : m.node = n.node /\ m.node <= Workers => m = n

Whole(c) == \E m \in vm[c] :
    /\ m.node = 0 /\ m.ca # Absent
    /\ \A n \in 1..Workers : \E w \in vm[c] : w.node = n /\ w.ca = m.ca

\* CreateCluster answers Running for a cluster that is whole: a control plane,
\* and every worker asked for a member of that control plane's cluster and not
\* of an earlier one, whatever failed before.  Not so for the custom provider:
\* a worker whose reset failed keeps its kubelet.conf, and the next creation
\* takes it for joined; and not for long in a resource group of Azure that other
\* clusters are in, as deleting one of them deletes all.
RunningIsWhole == cloud # "custom" /\ ~Exposed =>
    \A c \in Names : said[c] = "running" => Whole(c)

\* A deletion none of whose calls failed leaves nothing of the cluster in the
\* account, whatever earlier commands left half done; on hosts of the user it leaves
\* no Kubernetes.  What it may leave on GCP is the network of a foreign name.  A
\* deletion on Azure that finds the resource group foreign is left out: it
\* leaves every machine running and answers success (README).
NothingLeft == \A c \in Names : said[c] = "deleted" /\ ~(cloud = "azure" /\ Foreign(c)) =>
    IF cloud = "custom" THEN \A m \in vm[c] : m.ca = Absent
    ELSE /\ vm[c] = {} /\ registered[c] = Absent
         /\ parts[c] \subseteq (IF Foreign(c) THEN {"foreign", "network"} ELSE {})

\* No kubelet is newer than its control plane (KubeadmUpgradeCluster upgrades
\* the control plane first; scaling and creation add machines in between).
\* Civo can have several control planes of one name, and is left out, and so
\* are machines that scaling made for a default version above the one asked for.
NoSkew == cloud # "civo" => \A c \in Names : \A m, w \in vm[c] :
    /\ m.node = 0 /\ m.ca # Absent /\ w.ca = m.ca
    /\ w.node <= Workers \/ Default <= Asked
    => w.version <= m.version

\* An upgrade that answers success has a control plane at the target version and
\* left no member of the cluster behind: the workers it upgrades are those it listed
\* when the control plane was done.  The exception is Azure's: workers whose
\* address could not be read stay as they were.  Civo may have upgraded another
\* control plane, and a shared resource group may be gone since.
UpgradedIsWhole == cloud # "civo" /\ ~Exposed =>
    \A c \in Names : said[c] \in {"upgraded", "partial"} =>
        /\ \E m \in vm[c] : m.node = 0 /\ m.ca # Absent
        /\ \A m, w \in vm[c] : m.node = 0 /\ m.ca # Absent /\ w.ca = m.ca =>
             \/ w.version = Target
             \/ cloud = "azure" /\ said[c] = "partial" /\ w.node # 0

\* Only a deletion takes a control plane away: of its own cluster, or on Azure of
\* one in the same resource group.  Creations that are run again,
\* scalings, which choose droplets by the absence of a tag that other clusters'
\* deletions remove, upgrades and clean-ups neither delete one that has been
\* initialised nor initialise it again, nor make it older.
ControlPlaneKept == [][\A c \in Names : \A m \in vm[c] :
    /\ m.node = 0 /\ m.ca # Absent /\ cli[c].op # "delete"
    /\ Exposed => \A d \in Names : cli[d].op # "delete"
    => \E n \in vm'[c] : /\ n.node = 0 /\ n.copy = m.copy /\ n.ca = m.ca
                         /\ n.version >= m.version]_vars

KeysAgree(c) == /\ Registers => registered[c] = key[c]
                /\ \A m \in vm[c] : m.key = key[c]

\* "A half-finished `adhar up` resumes cleanly": a creation that is run again
\* and again answers Running in the end, where machines are taken over, as long
\* as the key they were made with is the one this computer holds and nobody deletes
\* their resource group.
RetrySucceeds == cloud \in {"digitalocean", "azure", "custom"} /\ ~Exposed =>
    \A c \in Names :
        <>[](cli[c].op \in {"none", "create"} /\ KeysAgree(c)) => []<>(said[c] = "running")

\* A DigitalOcean cluster that was created has a control plane that scaling,
\* upgrading and fetching the kubeconfig can find: so it is for a cluster that is
\* alone in its account, also where a creation takes over what an interrupted
\* deletion left, but not beside another cluster that is deleted (README).
ControlPlaneFound == cloud = "digitalocean" =>
    \A c \in Names : said[c] = "running" => Masters(c) # {}
====
