---- MODULE ClustersVersionsProofs ----
(***************************************************************************)
(* Proofs about Clusters: no kubelet of a cluster is newer than its        *)
(* control plane, but for machines that scaling makes of a default version *)
(* above the one asked for.                                                *)
(***************************************************************************)
EXTENDS ClustersMembershipProofs

-----------------------------------------------------------------------------
(* The invariant *)

Bounded(c) == \A m \in vm[c] : m.version <= Target

\* A machine is above the version asked for only behind its control plane, unless
\* scaling made it so.  Civo deletes its instances in any order.
Upgraded(c) == \E m \in vm[c] : m.node = 0 /\ m.version = Target
Plain(w) == w.node <= Workers \/ Default <= Asked
Ahead(c) == cloud # "civo" => \A w \in vm[c] : Plain(w) /\ w.version > Asked => Upgraded(c)

\* No control plane is older: only a host that was never prepared has no version.
Based(c) == \A m \in vm[c] : m.node = 0 =>
    \/ Asked <= m.version
    \/ cloud = "custom" /\ m.version = Absent /\ m.ca = Absent

\* Nothing joins on AWS, and nothing is upgraded on GCP.
Unjoined(c) == cloud = "aws" => \A m \in vm[c] : m.ca = Absent
Untouched(c) == cloud = "gcp" => \A m \in vm[c] : m.version <= Asked

Versions(c) == Bounded(c) /\ Ahead(c) /\ Based(c) /\ Unjoined(c) /\ Untouched(c)

\* What the commands know on their way.
Begun(c) == \A m \in vm[c] : m.node = 0 => Asked <= m.version
Preparing(c) ==
    /\ cloud = "custom" /\ cli[c].op = "create"
    /\ cli[c].at = "init" \/ (cli[c].at = "prepare" /\ cli[c].next > 0)
Prepared(c) == Preparing(c) => Begun(c)
Upgrading(c) ==
    cli[c].op = "upgrade" /\ cli[c].at = "upgradeWorkers" /\ ~Razed(c) => Upgraded(c)
Told(c) == Prepared(c) /\ Upgrading(c)

VersionInv == MemberInv /\ \A c \in Names : Versions(c) /\ Told(c)

LEMMA Numbers ==
    ASSUME TypeInv, NEW c \in Names, NEW m \in vm[c]
    PROVE  /\ m \in Machine /\ m.version \in Nat /\ m.node \in Nat
           /\ Asked \in Nat /\ Default \in Nat /\ Target \in Nat /\ Workers \in Nat
           /\ Asked <= Target /\ Default <= Target /\ Asked > Absent /\ Workers > 0
<1>1. m \in Machine
  BY DEF TypeInv, TypeOK
<1> QED
  BY <1>1, VersionsAssumption, WorkersAssumption DEF Machine, Nodes, Absent

-----------------------------------------------------------------------------
(* Steps that leave the versions alone *)

\* A machine before and after such a step.
Dated(m, o) == m.node = o.node /\ m.version = o.version /\ m.ca = o.ca
Kin(c) == /\ \A m \in vm'[c] : \E o \in vm[c] : Dated(m, o)
          /\ \A o \in vm[c] : \E m \in vm'[c] : Dated(m, o)

LEMMA SameKin == ASSUME NEW c, vm'[c] = vm[c] PROVE Kin(c)
  BY DEF Kin, Dated

LEMMA UntaggedKin ==
    ASSUME TypeInv, NEW c \in Names, vm'[c] = Untagged(vm[c])
    PROVE  Kin(c)
<1>1. vm[c] \in SUBSET Machine
  BY DEF TypeInv, TypeOK
<1>2. ASSUME NEW o \in vm[c] PROVE Dated([o EXCEPT !.role = FALSE], o)
  BY <1>1 DEF Dated, Machine
<1>3. \A m \in vm'[c] : \E o \in vm[c] : m = [o EXCEPT !.role = FALSE]
  BY DEF Untagged
<1>4. \A o \in vm[c] : [o EXCEPT !.role = FALSE] \in vm'[c]
  BY DEF Untagged
<1> QED
  BY <1>2, <1>3, <1>4 DEF Kin

LEMMA KinKeeps ==
    ASSUME NEW c, cloud' = cloud, Kin(c)
    PROVE  /\ Versions(c) => Versions(c)'
           /\ Upgraded(c) => Upgraded(c)'
           /\ Begun(c) => Begun(c)'
<1>1. Upgraded(c) => Upgraded(c)'
  BY DEF Kin, Dated, Upgraded
<1>2. Begun(c) => Begun(c)'
  BY DEF Kin, Dated, Begun
<1>3. ASSUME Versions(c) PROVE Versions(c)'
  <2>1. Bounded(c)'
    BY <1>3 DEF Kin, Dated, Versions, Bounded
  <2>2. Ahead(c)'
    BY <1>1, <1>3 DEF Kin, Dated, Versions, Ahead, Plain
  <2>3. Based(c)' /\ Unjoined(c)'
    BY <1>3 DEF Kin, Dated, Versions, Based, Unjoined
  <2>4. Untouched(c)'
    BY <1>3 DEF Kin, Dated, Versions, Untouched
  <2> QED
    BY <2>1, <2>2, <2>3, <2>4 DEF Versions
<1> QED
  BY <1>1, <1>2, <1>3

\* One machine joins a cluster or leaves it, or is started.
LEMMA Rejoined ==
    ASSUME TypeInv, NEW c \in Names, cloud' = cloud, Versions(c),
           NEW m \in vm[c], NEW n, vm'[c] = (vm[c] \ {m}) \cup {n},
           n.node = m.node, n.version = m.version,
           n.ca \in {m.ca, Absent} \/ (cloud # "aws" /\ (m.node = 0 => Begun(c)))
    PROVE  /\ Versions(c)'
           /\ Upgraded(c) => Upgraded(c)'
           /\ Begun(c) => Begun(c)'
<1>1. \A w \in vm'[c] : \E o \in vm[c] : w.node = o.node /\ w.version = o.version
  OBVIOUS
<1>2. Upgraded(c) => Upgraded(c)'
  BY DEF Upgraded
<1>3. Begun(c) => Begun(c)'
  BY <1>1 DEF Begun
<1>4. Bounded(c)' /\ Ahead(c)' /\ Untouched(c)'
  BY <1>1, <1>2 DEF Versions, Bounded, Ahead, Plain, Untouched
<1>5. Unjoined(c)'
  BY DEF Versions, Unjoined
<1>6. Based(c)'
  BY DEF Versions, Based, Begun
<1> QED
  BY <1>2, <1>3, <1>4, <1>5, <1>6 DEF Versions

\* A machine of the version asked for is added, or a worker of the default one.
LEMMA ProvisionVersions ==
    ASSUME TypeInv, NEW c \in Names, cloud' = cloud, Versions(c),
           NEW node \in Nat, NEW version, Provision(c, node, version),
           \/ version = Asked
           \/ version = Default /\ node > Workers /\ cloud = "digitalocean"
    PROVE  Versions(c)'
<1>1. PICK k \in Copies : vm' = [vm EXCEPT ![c] = @ \cup {Made(c, node, k, version)}]
  BY DEF Provision
<1> DEFINE new == Made(c, node, k, version)
<1>2. new.node = node /\ new.version = version /\ new.ca = Absent
  BY DEF Made
<1>3. vm'[c] = vm[c] \cup {new}
  BY <1>1 DEF TypeInv, TypeOK
<1> HIDE DEF new
<1>4. /\ Asked \in Nat /\ Target \in Nat /\ Asked <= Target
      /\ Default \in Nat /\ Default <= Target /\ Workers \in Nat
  BY VersionsAssumption, WorkersAssumption
<1>5. Bounded(c)'
  BY <1>2, <1>3, <1>4 DEF Versions, Bounded
<1>6. Ahead(c)'
  <2>1. Plain(new) => new.version <= Asked
    BY <1>2, <1>4 DEF Plain
  <2>2. Upgraded(c) => Upgraded(c)'
    BY <1>3 DEF Upgraded
  <2> QED
    BY <1>2, <1>3, <1>4, <2>1, <2>2 DEF Versions, Ahead
<1>7. Based(c)'
  BY <1>2, <1>3, <1>4 DEF Versions, Based
<1>8. Unjoined(c)' /\ Untouched(c)'
  BY <1>2, <1>3, <1>4 DEF Versions, Unjoined, Untouched
<1> QED
  BY <1>5, <1>6, <1>7, <1>8 DEF Versions

\* Machines are deleted: all of them, or none of the control planes.
LEMMA FewerVersions ==
    ASSUME TypeInv, NEW c \in Names, cloud' = cloud, Versions(c), vm'[c] \subseteq vm[c],
           \/ vm'[c] = {} \/ cloud \in {"civo", "gcp"}
           \/ \A m \in vm[c] : m.node = 0 => m \in vm'[c]
    PROVE  Versions(c)'
<1>1. Bounded(c)' /\ Based(c)' /\ Unjoined(c)' /\ Untouched(c)'
  BY DEF Versions, Bounded, Based, Unjoined, Untouched
<1>2. Ahead(c)'
  <2> SUFFICES ASSUME cloud # "civo", NEW w \in vm'[c], Plain(w), w.version > Asked
               PROVE  Upgraded(c)'
    BY DEF Ahead, Plain
  <2>1. Upgraded(c)
    BY DEF Versions, Ahead
  <2>2. CASE cloud = "gcp"
    BY <2>2, Numbers DEF Versions, Untouched
  <2>3. CASE \A m \in vm[c] : m.node = 0 => m \in vm'[c]
    BY <2>1, <2>3 DEF Upgraded
  <2> QED
    BY <2>2, <2>3
<1> QED
  BY <1>1, <1>2 DEF Versions

-----------------------------------------------------------------------------
(* What commands go on to *)

LEMMA GoesOn ==
    ASSUME TypeInv, NEW c \in Names, NEW n \in Command, n.op = cli[c].op,
           NEW last, Proceed(c, n) \/ Loop(c, n, last)
    PROVE  cli'[c].op \in {"none", cli[c].op}
<1>1. TypeOK /\ n.op \in Ops /\ cli \in [Names -> Command]
  BY DEF TypeInv, TypeOK, Command
<1>2. Advanced(n).op \in {"none", n.op}
  <2>1. CASE After(n) = "done"
    BY <2>1 DEF Advanced, NoCommand
  <2>2. CASE After(n) # "done"
    <3>1. Advanced(n) = [n EXCEPT !.at = After(n), !.next = 0]
      BY <2>2 DEF Advanced
    <3> QED
      BY <3>1 DEF Command
  <2> QED
    BY <2>1, <2>2
<1>3. [n EXCEPT !.next = @ + 1].op = n.op
  BY Counted
<1>4. cli'[c] \in {Advanced(n), [n EXCEPT !.next = @ + 1]}
  BY <1>1, Proceeded, Looped DEF Becomes
<1> QED
  BY <1>2, <1>3, <1>4

\* Commands other than upgrades and the creations of the custom provider know nothing.
LEMMA ToldNothing ==
    ASSUME cloud' = cloud, NEW c \in Names, cli'[c].op # "upgrade",
           cloud = "custom" => cli'[c].op # "create"
    PROVE  Told(c)'
  BY DEF Told, Prepared, Preparing, Upgrading

LEMMA ToldEnd ==
    ASSUME TypeInv, cloud' = cloud, NEW c \in Names, NEW answer, End(c, answer)
    PROVE  Told(c)'
<1>1. cli'[c] = NoCommand
  BY DEF End, TypeInv, TypeOK
<1> QED
  BY <1>1, ToldNothing DEF NoCommand

\* A command whose cluster keeps its versions and that does not move.
LEMMA KinTold ==
    ASSUME NEW c, cloud' = cloud, Kin(c), cli'[c] = cli[c], Told(c)
    PROVE  Told(c)'
<1>1. (Upgraded(c) => Upgraded(c)') /\ (Begun(c) => Begun(c)')
  BY KinKeeps
<1>2. Razed(c) => Razed(c)'
  BY DEF Kin, Razed
<1> QED
  BY <1>1, <1>2 DEF Told, Prepared, Preparing, Upgrading

LEMMA ToldOn ==
    ASSUME TypeInv, cloud' = cloud, NEW c \in Names, NEW n \in Command, n.op = cli[c].op,
           NEW last, Proceed(c, n) \/ Loop(c, n, last),
           cli[c].op \notin {"none", "upgrade"}, cloud = "custom" => cli[c].op # "create"
    PROVE  Told(c)'
<1>1. cli'[c].op \in {"none", cli[c].op}
  BY GoesOn
<1> QED
  BY <1>1, ToldNothing

-----------------------------------------------------------------------------
(* Creation *)

\* None of the steps of the clouds' creations is one of the custom provider's.
LEMMA NotCustom ==
    ASSUME TypeInv, NEW c \in Names, cli[c].op = "create",
           cli[c].at \notin {"prepare", "init", "join"}
    PROVE  cloud # "custom"
  BY CloudSix DEF TypeInv, Placed, StepsOf, CreateSteps

LEMMA VersionsCreation ==
    ASSUME TypeInv, NEW c \in Names, Versions(c), cloud' = cloud,
           \/ EnsureKey(c) \/ EnsureNetwork(c) \/ CreateSubnets(c) \/ EnsureFirewall(c)
           \/ Save(c) \/ SaveFails(c) \/ Look(c) \/ Integrate(c)
    PROVE  Versions(c)' /\ Told(c)'
<1> DEFINE me == cli[c]
<1>1. me \in Command /\ TypeOK
  BY DEF TypeInv, TypeOK
<1>2. /\ me.at \in {"key", "network", "subnets", "firewall", "save", "look", "integrate"}
      /\ vm' = vm
  BY DEF EnsureKey, EnsureNetwork, CreateSubnets, EnsureFirewall, Save, SaveFails, Look,
         Integrate, At, account
<1>3. me.op = "create" /\ cloud # "custom"
  BY <1>2, OpAt, NotCustom
<1>4. Versions(c)'
  BY <1>2, SameKin, KinKeeps
<1>5. \/ End(c, "failed")
      \/ \E n \in Command : n.op = me.op /\ Proceed(c, n)
  <2>1. CASE Save(c)
    <3> DEFINE n == [me EXCEPT !.mem = [me.mem EXCEPT ![c] = 0..Workers]]
    <3>1. n \in Command /\ n.op = me.op
      <4>1. [me.mem EXCEPT ![c] = 0..Workers] \in Trackers
        BY <1>1, WorkersAssumption DEF Command, Trackers, Nodes
      <4> QED
        BY <1>1, <4>1 DEF Command
    <3>2. Proceed(c, n)
      BY <2>1 DEF Save
    <3> QED
      BY <3>1, <3>2
  <2>2. CASE Look(c)
    <3> DEFINE n == [me EXCEPT !.seen = {RefTo(m) : m \in vm[c]}]
    <3>1. n \in Command /\ n.op = me.op
      <4>1. {RefTo(m) : m \in vm[c]} \in SUBSET Ref
        BY <1>1 DEF TypeOK, RefTo, Ref, Machine
      <4> QED
        BY <1>1, <4>1 DEF Command
    <3>2. Proceed(c, n)
      BY <2>2 DEF Look
    <3> QED
      BY <3>1, <3>2
  <2>3. CASE ~Save(c) /\ ~Look(c)
    BY <1>1, <2>3 DEF EnsureKey, EnsureNetwork, CreateSubnets, EnsureFirewall, SaveFails,
                      Integrate
  <2> QED
    BY <2>1, <2>2, <2>3
<1>6. Told(c)'
  BY <1>3, <1>5, ToldEnd, ToldOn
<1> QED
  BY <1>4, <1>6

LEMMA ToldProvision ==
    ASSUME TypeInv, NEW c \in Names, cloud' = cloud, NEW node, NEW version,
           Provision(c, node, version), cli[c].op \in {"create", "scale"},
           cloud = "custom" => cli[c].op # "create"
    PROVE  Told(c)'
<1>1. cli[c] \in Command /\ cli \in [Names -> Command]
  BY DEF TypeInv, TypeOK
<1>2. PICK k \in Copies :
         cli' = [cli EXCEPT ![c].at = "await",
                            ![c].mine = @ \cup {[node |-> node, copy |-> k, addr |-> TRUE]}]
  BY DEF Provision
<1>3. cli'[c].op = cli[c].op
  BY <1>1, <1>2 DEF Command
<1> QED
  BY <1>3, ToldNothing

LEMMA VersionsCreateMachine ==
    ASSUME TypeInv, NEW c \in Names, Versions(c), cloud' = cloud, CreateMachine(c)
    PROVE  Versions(c)' /\ Told(c)'
<1> DEFINE me == cli[c]
           n == me.next
           known == IF cloud = "digitalocean" THEN {r \in me.seen : r.node = n}
                    ELSE IF cloud = "azure" THEN {[RefTo(m) EXCEPT !.addr = TRUE] :
                                                    m \in {x \in vm[c] : x.node = n}}
                    ELSE {}
<1>1. /\ me \in Command /\ TypeOK /\ me.at = "machine" /\ me.op = "create" /\ cloud # "custom"
  BY OpAt, NotCustom DEF TypeInv, TypeOK, CreateMachine, At
<1>2. IF known # {}
      THEN /\ \E r \in known : Loop(c, [me EXCEPT !.mine = @ \cup {r}], Workers)
           /\ UNCHANGED vm
      ELSE IF Lost(c) \/ (cloud = "gcp" /\ \E m \in vm[c] : m.node = n)
      THEN End(c, "failed") /\ UNCHANGED vm
      ELSE Provision(c, n, Asked) /\ UNCHANGED said
  BY DEF CreateMachine
<1>3. known \subseteq Ref
  <2>1. ASSUME NEW m \in vm[c] PROVE [RefTo(m) EXCEPT !.addr = TRUE] \in Ref
    <3>1. m \in Machine
      BY <1>1 DEF TypeOK
    <3> QED
      BY <3>1 DEF Machine, RefTo, Ref
  <2>2. me.seen \subseteq Ref
    BY <1>1 DEF Command
  <2> QED
    BY <2>1, <2>2
<1> HIDE DEF known
<1>4. CASE known # {}
  <2>1. PICK r \in known : Loop(c, [me EXCEPT !.mine = @ \cup {r}], Workers)
    BY <1>2, <1>4
  <2>2. PICK me2 \in Command : me2 = [me EXCEPT !.mine = @ \cup {r}]
    <3>1. [me EXCEPT !.mine = @ \cup {r}] \in Command
      BY <1>1, <1>3 DEF Command
    <3> QED
      BY <3>1
  <2>3. me2.op = "create" /\ Loop(c, me2, Workers)
    BY <1>1, <2>1, <2>2 DEF Command
  <2>4. Versions(c)'
    BY <1>2, <1>4, SameKin, KinKeeps
  <2> QED
    BY <1>1, <2>3, <2>4, ToldOn
<1>5. CASE known = {} /\ (Lost(c) \/ (cloud = "gcp" /\ \E m \in vm[c] : m.node = n))
  <2>1. End(c, "failed") /\ Versions(c)'
    BY <1>2, <1>5, SameKin, KinKeeps
  <2> QED
    BY <2>1, ToldEnd
<1>6. CASE known = {} /\ ~(Lost(c) \/ (cloud = "gcp" /\ \E m \in vm[c] : m.node = n))
  <2>1. Provision(c, n, Asked)
    BY <1>2, <1>6
  <2>2. Versions(c)'
    BY <1>1, <2>1, ProvisionVersions DEF Command
  <2>3. Told(c)'
    BY <1>1, <2>1, ToldProvision
  <2> QED
    BY <2>2, <2>3
<1> QED
  BY <1>4, <1>5, <1>6

LEMMA VersionsAwait ==
    ASSUME TypeInv, NEW c \in Names, Versions(c), cloud' = cloud, Await(c)
    PROVE  Versions(c)' /\ Told(c)'
<1> DEFINE me == cli[c]
<1>1. /\ me \in Command /\ TypeOK /\ me.at = "await" /\ me.op \in {"create", "scale"}
      /\ vm' = vm
  BY OpAt DEF TypeInv, TypeOK, Await, At, account
<1>2. Versions(c)'
  BY <1>1, SameKin, KinKeeps
<1>3. CASE me.op = "create"
  <2>1. PICK n \in Command : n = [me EXCEPT !.at = "machine"]
    <3>1. [me EXCEPT !.at = "machine"] \in Command
      BY <1>1 DEF Command, Steps
    <3> QED
      BY <3>1
  <2>2. n.op = "create" /\ Loop(c, n, Workers)
    BY <1>1, <1>3, <2>1 DEF Await, Command
  <2> QED
    BY <1>1, <1>2, <1>3, <2>2, NotCustom, ToldOn
<1>4. CASE me.op = "scale"
  <2>1. cli' = [cli EXCEPT ![c].at = "joinNew"]
    BY <1>4 DEF Await
  <2>2. cli'[c].op = "scale"
    BY <1>1, <1>4, <2>1 DEF TypeOK, Command
  <2> QED
    BY <1>2, <2>2, ToldNothing
<1> QED
  BY <1>1, <1>3, <1>4

LEMMA VersionsPrepare ==
    ASSUME TypeInv, NEW c \in Names, Versions(c), Told(c), Consistent(c), cloud' = cloud,
           PrepareHost(c)
    PROVE  Versions(c)' /\ Told(c)'
<1> DEFINE me == cli[c]
<1>1. /\ me \in Command /\ TypeOK /\ me.at = "prepare" /\ me.op = "create"
      /\ cloud \in SixClouds /\ me.at \in StepsOf(cloud, me.op)
      /\ cli \in [Names -> Command] /\ vm \in [Names -> SUBSET Machine]
  BY CloudSix, OpAt DEF TypeInv, TypeOK, Placed, PrepareHost, At
<1>2. cloud = "custom"
  BY <1>1 DEF StepsOf, CreateSteps, SixClouds
<1>3. PICK m \in vm[c] :
         /\ m.node = me.next
         /\ Change(c, m, IF m.version = Absent THEN [m EXCEPT !.version = Asked] ELSE m)
         /\ Loop(c, [me EXCEPT !.mine = @ \cup {RefTo(m)}], Workers)
  BY DEF PrepareHost
<1>4. /\ m \in Machine /\ m.version \in Nat /\ Asked \in Nat /\ Target \in Nat
      /\ Asked <= Target /\ Asked > Absent /\ Workers \in Nat /\ Workers > 0
  BY Numbers
<1>5. PICK n : n = IF m.version = Absent THEN [m EXCEPT !.version = Asked] ELSE m
  OBVIOUS
<1>6. /\ n.node = m.node /\ n.ca = m.ca
      /\ n.version = IF m.version = Absent THEN Asked ELSE m.version
  BY <1>4, <1>5 DEF Machine
<1>7. vm'[c] = (vm[c] \ {m}) \cup {n}
  BY <1>1, <1>3, <1>5 DEF Change
<1>8. Upgraded(c) => Upgraded(c)'
  <2> SUFFICES ASSUME Upgraded(c) PROVE Upgraded(c)'
    OBVIOUS
  <2>1. PICK o \in vm[c] : o.node = 0 /\ o.version = Target
    BY DEF Upgraded
  <2>2. o = m => n.version = Target /\ n.node = 0
    BY <1>4, <1>6, <2>1 DEF Absent
  <2> QED
    BY <1>7, <2>1, <2>2 DEF Upgraded
<1>9. Versions(c)'
  <2>1. Bounded(c)'
    BY <1>4, <1>6, <1>7 DEF Versions, Bounded
  <2>2. Ahead(c)'
    <3>1. n.version > Asked => m.version > Asked
      BY <1>4, <1>6
    <3> QED
      BY <1>6, <1>7, <1>8, <3>1 DEF Versions, Ahead, Plain
  <2>3. Based(c)'
    BY <1>4, <1>6, <1>7 DEF Versions, Based
  <2> QED
    BY <1>2, <2>1, <2>2, <2>3 DEF Versions, Unjoined, Untouched
<1>10. Begun(c)'
  <2>1. CASE me.next > 0
    <3>1. Begun(c)
      BY <1>1, <1>2, <2>1 DEF Told, Prepared, Preparing
    <3> QED
      BY <1>3, <1>6, <1>7, <2>1, <3>1 DEF Begun
  <2>2. CASE me.next = 0
    <3>1. \A o \in vm[c] : o.node = 0 => o = m
      BY <1>2, <1>3, <1>4, <2>2 DEF Consistent, Kept, Unique
    <3>2. m.version # Absent => Asked <= m.version
      BY <1>3, <2>2 DEF Versions, Based
    <3>3. Asked <= n.version
      BY <1>4, <1>6, <3>2
    <3> QED
      BY <1>7, <3>1, <3>3 DEF Begun
  <2>3. me.next \in Nat
    BY <1>1 DEF Command
  <2> QED
    BY <2>1, <2>2, <2>3
<1>11. PICK x \in Command : x = [me EXCEPT !.mine = @ \cup {RefTo(m)}]
  <2>1. [me EXCEPT !.mine = @ \cup {RefTo(m)}] \in Command
    <3>1. RefTo(m) \in Ref
      BY <1>4 DEF RefTo, Ref, Machine
    <3> QED
      BY <1>1, <3>1 DEF Command
  <2> QED
    BY <2>1
<1>12. x.op = "create" /\ Loop(c, x, Workers)
  BY <1>1, <1>3, <1>11 DEF Command
<1>13. cli'[c].op \in {"none", "create"}
  BY <1>1, <1>12, GoesOn
<1> QED
  BY <1>9, <1>10, <1>13 DEF Told, Prepared, Upgrading

LEMMA VersionsInit ==
    ASSUME TypeInv, NEW c \in Names, Versions(c), Told(c), cloud' = cloud, InitMaster(c)
    PROVE  Versions(c)' /\ Told(c)'
<1> DEFINE me == cli[c]
<1>1. /\ me \in Command /\ TypeOK /\ me.at = "init" /\ me.op = "create"
      /\ cloud \in SixClouds /\ me.at \in StepsOf(cloud, me.op)
      /\ cli \in [Names -> Command] /\ vm \in [Names -> SUBSET Machine]
  BY CloudSix, OpAt DEF TypeInv, TypeOK, Placed, InitMaster, At
<1>2. PICK m \in Reached(c, me.mine) :
         /\ m.node = 0
         /\ IF m.ca # Absent THEN UNCHANGED vm /\ Proceed(c, [me EXCEPT !.token = m.ca])
            ELSE \E k \in Keys : /\ Fresh(k, UsedCAs(c) \cup {Absent})
                                 /\ Change(c, m, [m EXCEPT !.ca = k])
                                 /\ Proceed(c, [me EXCEPT !.token = k])
  BY DEF InitMaster
<1>3. m \in vm[c] /\ m \in Machine /\ cloud # "aws"
  BY <1>1, <1>2 DEF Reached, Routed
<1>4. cloud # "custom" \/ Begun(c)
  BY <1>1 DEF Told, Prepared, Preparing
<1>5. Begun(c)
  BY <1>4 DEF Versions, Based, Begun
<1>6. PICK ca \in Keys : Proceed(c, [me EXCEPT !.token = ca]) /\
        (UNCHANGED vm \/ Change(c, m, [m EXCEPT !.ca = ca]))
  BY <1>2, <1>3 DEF Machine
<1>7. Versions(c)'
  <2>1. CASE UNCHANGED vm
    BY <2>1, SameKin, KinKeeps
  <2>2. CASE Change(c, m, [m EXCEPT !.ca = ca])
    <3>1. PICK n : n = [m EXCEPT !.ca = ca]
      OBVIOUS
    <3>2. n.node = m.node /\ n.version = m.version
      BY <1>3, <3>1 DEF Machine
    <3>3. vm'[c] = (vm[c] \ {m}) \cup {n}
      BY <1>1, <2>2, <3>1 DEF Change
    <3> QED
      BY <1>3, <1>5, <3>2, <3>3, Rejoined
  <2> QED
    BY <1>6, <2>1, <2>2
<1>8. Told(c)'
  <2>1. Program("create")["init"] = "join"
    BY <1>1, AfterInit DEF StepsOf
  <2>2. PICK x \in Command : x = [me EXCEPT !.token = ca]
    <3>1. [me EXCEPT !.token = ca] \in Command
      BY <1>1 DEF Command
    <3> QED
      BY <3>1
  <2>3. x.op = "create" /\ x.at = "init" /\ Proceed(c, x)
    BY <1>1, <1>6, <2>2 DEF Command
  <2>4. cli'[c] = [x EXCEPT !.at = "join", !.next = 0]
    BY <1>1, <2>1, <2>3 DEF Proceed, GoTo
  <2>5. cli'[c].op = "create" /\ cli'[c].at = "join"
    BY <2>3, <2>4 DEF Command
  <2> QED
    BY <2>5 DEF Told, Prepared, Preparing, Upgrading
<1> QED
  BY <1>7, <1>8

LEMMA VersionsJoin ==
    ASSUME TypeInv, NEW c \in Names, Versions(c), cloud' = cloud, JoinWorker(c)
    PROVE  Versions(c)' /\ Told(c)'
<1> DEFINE me == cli[c]
<1>1. /\ me \in Command /\ TypeOK /\ me.at = "join" /\ me.op = "create"
      /\ cloud \in SixClouds /\ me.at \in StepsOf(cloud, me.op)
      /\ cli \in [Names -> Command] /\ vm \in [Names -> SUBSET Machine]
  BY CloudSix, OpAt DEF TypeInv, TypeOK, Placed, JoinWorker, At
<1>2. PICK m \in Reached(c, me.mine) :
         /\ m.node = me.next + 1
         /\ Change(c, m, IF m.ca # Absent THEN m ELSE [m EXCEPT !.ca = me.token])
         /\ Loop(c, me, Workers - 1)
  BY DEF JoinWorker
<1>3. m \in vm[c] /\ m \in Machine /\ cloud # "aws" /\ m.node # 0
  BY <1>1, <1>2 DEF Reached, Routed, Command
<1>4. PICK n : n = IF m.ca # Absent THEN m ELSE [m EXCEPT !.ca = me.token]
  OBVIOUS
<1>5. n.node = m.node /\ n.version = m.version
  BY <1>3, <1>4 DEF Machine
<1>6. vm'[c] = (vm[c] \ {m}) \cup {n}
  BY <1>1, <1>2, <1>4 DEF Change
<1>7. Versions(c)'
  BY <1>3, <1>5, <1>6, Rejoined
<1>8. Told(c)'
  <2>1. CASE cloud # "custom"
    BY <1>1, <1>2, <2>1, ToldOn
  <2>2. CASE cloud = "custom"
    <3>1. Program("create")["join"] = "done"
      BY <1>1, <2>2, AfterInit DEF StepsOf
    <3>2. CASE Proceed(c, me)
      <4>1. \E answer : End(c, answer)
        BY <1>1, <3>1, <3>2 DEF Proceed, GoTo
      <4> QED
        BY <4>1, ToldEnd
    <3>3. CASE Becomes(c, [me EXCEPT !.next = @ + 1])
      <4>1. cli'[c] = [me EXCEPT !.next = @ + 1]
        BY <1>1, <3>3 DEF Becomes
      <4>2. cli'[c].op = "create" /\ cli'[c].at = "join"
        BY <1>1, <4>1, Counted
      <4> QED
        BY <4>2 DEF Told, Prepared, Preparing, Upgrading
    <3> QED
      BY <1>1, <1>2, <3>2, <3>3, Looped DEF Command
  <2> QED
    BY <2>1, <2>2
<1> QED
  BY <1>7, <1>8

-----------------------------------------------------------------------------
(* The beginning and the end of commands, and the cloud *)

LEMMA VersionsControl ==
    ASSUME TypeInv, NEW c \in Names, Versions(c), cloud' = cloud,
           Stops(c) \/ TimesOut(c) \/ Aborts(c)
    PROVE  Versions(c)' /\ Told(c)'
<1>1. vm' = vm
  BY DEF Stops, TimesOut, Aborts, account
<1>2. Versions(c)'
  BY <1>1, SameKin, KinKeeps
<1>3. CASE Stops(c) \/ TimesOut(c)
  BY <1>2, <1>3, ToldEnd DEF Stops, TimesOut
<1>4. CASE Aborts(c)
  <2>1. cli'[c].op = "abort"
    BY <1>4 DEF Aborts, NoCommand, TypeInv, TypeOK
  <2> QED
    BY <1>2, <2>1, ToldNothing
<1> QED
  BY <1>3, <1>4

LEMMA VersionsStart ==
    ASSUME TypeInv, NEW c \in Names, Versions(c), cloud' = cloud,
           NEW op \in {"create", "delete", "scale", "upgrade"}, NEW want, Start(c, op, want)
    PROVE  Versions(c)' /\ Told(c)'
<1>1. cloud \in SixClouds /\ vm' = vm /\ cli \in [Names -> Command]
  BY CloudSix DEF TypeInv, TypeOK, Start, account
<1>2. cli'[c].op = op /\ cli'[c].at = Program(op).start /\ cli'[c].next = 0
  BY <1>1 DEF Start, NoCommand
<1>3. Versions(c)'
  BY <1>1, SameKin, KinKeeps
<1>4. op = "upgrade" => cli'[c].at = "upgradeMaster"
  BY <1>2 DEF Program
<1>5. cloud = "custom" /\ op = "create" => cli'[c].at = "prepare"
  BY <1>2 DEF Program, CustomCreate
<1> QED
  BY <1>2, <1>3, <1>4, <1>5 DEF Told, Prepared, Preparing, Upgrading

LEMMA VersionsBoots ==
    ASSUME TypeInv, NEW c \in Names, Versions(c), Told(c), cloud' = cloud, Boots(c)
    PROVE  Versions(c)' /\ Told(c)'
<1>1. PICK m \in vm[c] : Change(c, m, [m EXCEPT !.up = TRUE])
  BY DEF Boots
<1>2. m \in Machine /\ UNCHANGED <<cli, said>> /\ vm \in [Names -> SUBSET Machine]
  BY <1>1 DEF Boots, TypeInv, TypeOK
<1>3. PICK n : n = [m EXCEPT !.up = TRUE]
  OBVIOUS
<1>4. n.node = m.node /\ n.version = m.version /\ n.ca = m.ca
  BY <1>2, <1>3 DEF Machine
<1>5. vm'[c] = (vm[c] \ {m}) \cup {n}
  BY <1>1, <1>2, <1>3 DEF Change
<1>6. Versions(c)' /\ (Upgraded(c) => Upgraded(c)') /\ (Begun(c) => Begun(c)')
  BY <1>4, <1>5, Rejoined
<1>7. ~Razed(c)
  BY <1>1 DEF Razed
<1> QED
  BY <1>2, <1>6, <1>7 DEF Told, Prepared, Preparing, Upgrading

-----------------------------------------------------------------------------
(* Upgrading and scaling *)

\* A machine is upgraded: a control plane, or one behind a control plane that was.
LEMMA UpgradedVersions ==
    ASSUME TypeInv, NEW c \in Names, Versions(c), cloud' = cloud, cloud # "gcp",
           NEW m \in vm[c], Change(c, m, [m EXCEPT !.version = Target]),
           m.node = 0 \/ Upgraded(c)
    PROVE  Versions(c)' /\ Upgraded(c)'
<1>1. /\ m \in Machine /\ m.version \in Nat /\ Asked \in Nat /\ Target \in Nat
      /\ Asked <= Target /\ vm \in [Names -> SUBSET Machine]
  BY Numbers DEF TypeInv, TypeOK
<1>2. PICK n : n = [m EXCEPT !.version = Target]
  OBVIOUS
<1>3. n.node = m.node /\ n.ca = m.ca /\ n.version = Target
  BY <1>1, <1>2 DEF Machine
<1>4. vm'[c] = (vm[c] \ {m}) \cup {n}
  BY <1>1, <1>2 DEF Change
<1>5. Upgraded(c)'
  BY <1>3, <1>4 DEF Upgraded
<1>6. Bounded(c)' /\ Based(c)'
  BY <1>1, <1>3, <1>4 DEF Versions, Bounded, Based
<1>7. Unjoined(c)' /\ Untouched(c)' /\ Ahead(c)'
  BY <1>3, <1>4, <1>5 DEF Versions, Unjoined, Untouched, Ahead
<1> QED
  BY <1>5, <1>6, <1>7 DEF Versions

LEMMA VersionsUpgrade ==
    ASSUME TypeInv, NEW c \in Names, Versions(c), Told(c), Members(c), cloud' = cloud,
           UpgradeMaster(c) \/ UpgradePassesOver(c) \/ UpgradeWorker(c)
    PROVE  Versions(c)' /\ Told(c)'
<1> DEFINE me == cli[c]
<1>1. /\ me \in Command /\ TypeOK /\ me.op = "upgrade" /\ cloud # "gcp"
      /\ cli \in [Names -> Command] /\ vm \in [Names -> SUBSET Machine]
  BY OpAt DEF TypeInv, TypeOK, UpgradeMaster, UpgradePassesOver, UpgradeWorker, At
<1>2. ASSUME NEW answer, End(c, answer), UNCHANGED vm PROVE Versions(c)' /\ Told(c)'
  BY <1>2, SameKin, KinKeeps, ToldEnd
<1>3. ASSUME NEW m \in vm[c], Change(c, m, [m EXCEPT !.version = Target]),
             m.node = 0 \/ Upgraded(c), cli'[c].op = "upgrade"
      PROVE  Versions(c)' /\ Told(c)'
  <2>1. Versions(c)' /\ Upgraded(c)'
    BY <1>1, <1>3, UpgradedVersions
  <2> QED
    BY <1>3, <2>1 DEF Told, Prepared, Preparing, Upgrading
<1>4. CASE UpgradeMaster(c) \/ UpgradePassesOver(c)
  <2>1. CASE End(c, "failed") /\ UNCHANGED vm
    BY <1>2, <2>1
  <2>2. CASE \E read : UpgradeWith(c, read)
    <3>0. PICK m \in ControlPlanes(c) :
               /\ Change(c, m, [m EXCEPT !.version = Target])
               /\ \E refs, lost :
                    GoTo(c, [me EXCEPT !.seen = refs, !.missed = lost], "upgradeWorkers")
      BY <2>2 DEF UpgradeWith
    <3>1. PICK refs, lost :
               /\ Change(c, m, [m EXCEPT !.version = Target])
               /\ GoTo(c, [me EXCEPT !.seen = refs, !.missed = lost], "upgradeWorkers")
      BY <3>0
    <3>2. m \in vm[c] /\ m.node = 0
      BY DEF ControlPlanes, Masters, Members, Founded, RoleZero
    <3>3. cli'[c].op = "upgrade"
      <4>1. cli' = [cli EXCEPT ![c] = [[me EXCEPT !.seen = refs, !.missed = lost]
                                         EXCEPT !.at = "upgradeWorkers", !.next = 0]]
        BY <3>1 DEF GoTo
      <4> QED
        BY <1>1, <4>1 DEF Command
    <3> QED
      BY <1>3, <3>1, <3>2, <3>3
  <2> QED
    BY <1>4, <2>1, <2>2 DEF UpgradeMaster, UpgradePassesOver
<1>5. CASE UpgradeWorker(c)
  <2>0. \/ \E answer : End(c, answer) /\ UNCHANGED vm
        \/ \E m \in vm[c] : /\ Change(c, m, [m EXCEPT !.version = Target])
                            /\ cli' = [cli EXCEPT ![c].seen = @ \ {RefTo(m)}]
    BY <1>5 DEF UpgradeWorker, GoTo
  <2>1. CASE \E answer : End(c, answer) /\ UNCHANGED vm
    BY <1>2, <2>1
  <2>2. CASE \E m \in vm[c] : /\ Change(c, m, [m EXCEPT !.version = Target])
                              /\ cli' = [cli EXCEPT ![c].seen = @ \ {RefTo(m)}]
    <3>1. PICK m \in vm[c] : /\ Change(c, m, [m EXCEPT !.version = Target])
                             /\ cli' = [cli EXCEPT ![c].seen = @ \ {RefTo(m)}]
      BY <2>2
    <3>2. cli'[c].op = "upgrade"
      BY <1>1, <3>1 DEF Command
    <3>3. Upgraded(c)
      BY <1>1, <1>5, <3>1 DEF UpgradeWorker, At, Told, Upgrading, Razed
    <3> QED
      BY <1>3, <3>1, <3>2, <3>3
  <2> QED
    BY <2>0, <2>1, <2>2
<1> QED
  BY <1>4, <1>5

LEMMA VersionsScale ==
    ASSUME TypeInv, NEW c \in Names, Versions(c), Members(c), cloud' = cloud,
           Survey(c) \/ Grow(c) \/ JoinNew(c) \/ Shrink(c)
    PROVE  Versions(c)' /\ Told(c)'
<1> DEFINE me == cli[c]
<1>1. /\ me \in Command /\ TypeOK /\ me.op = "scale" /\ cloud = "digitalocean"
      /\ cli \in [Names -> Command] /\ vm \in [Names -> SUBSET Machine]
      /\ me.at \in {"survey", "grow", "joinNew", "shrink"} /\ me.next \in Nat
  <2>1. me.at \in {"survey", "grow", "joinNew", "shrink"}
    BY DEF Survey, Grow, JoinNew, Shrink, At
  <2> QED
    BY <2>1, OpAt DEF TypeInv, TypeOK, Command
<1>2. ASSUME cli'[c].op = "scale" PROVE Told(c)'
  BY <1>2, ToldNothing
<1>3. ASSUME UNCHANGED vm PROVE Versions(c)'
  BY <1>3, SameKin, KinKeeps
<1>4. CASE Survey(c)
  <2>1. Versions(c)'
    BY <1>3, <1>4 DEF Survey
  <2>2. \/ \E answer \in {"failed", "scaled"} : End(c, answer)
        \/ GoTo(c, [me EXCEPT !.seen = {RefTo(m) : m \in Others(c)}], "shrink")
        \/ \E m \in Masters(c) :
             cli' = [cli EXCEPT ![c] = [me EXCEPT
                       !.at = "grow", !.next = Cardinality(Others(c)) + 1, !.token = m.ca]]
    BY <1>4 DEF Survey
  <2>3. CASE GoTo(c, [me EXCEPT !.seen = {RefTo(m) : m \in Others(c)}], "shrink")
    <3> DEFINE refs == {RefTo(m) : m \in Others(c)}
    <3>1. cli' = [cli EXCEPT ![c] = [[me EXCEPT !.seen = refs] EXCEPT !.at = "shrink", !.next = 0]]
      BY <2>3 DEF GoTo
    <3> HIDE DEF refs
    <3>2. cli'[c].op = "scale"
      BY <1>1, <3>1 DEF Command
    <3> QED
      BY <1>2, <2>1, <3>2
  <2>4. CASE \E m \in Masters(c) :
             cli' = [cli EXCEPT ![c] = [me EXCEPT
                       !.at = "grow", !.next = Cardinality(Others(c)) + 1, !.token = m.ca]]
    <3>1. cli'[c].op = "scale"
      BY <1>1, <2>4 DEF Command
    <3> QED
      BY <1>2, <2>1, <3>1
  <2> QED
    BY <2>1, <2>2, <2>3, <2>4, ToldEnd
<1>5. CASE Grow(c)
  <2>1. CASE End(c, "scaled") /\ UNCHANGED vm
    BY <1>3, <2>1, ToldEnd
  <2>2. CASE Provision(c, Workers + me.next, Default)
    <3>1. Workers + me.next > Workers /\ Workers + me.next \in Nat
      BY <1>1, <1>5, WorkersAssumption DEF TypeInv, Placed, Grow, At
    <3>2. Versions(c)'
      BY <1>1, <2>2, <3>1, ProvisionVersions
    <3> QED
      BY <1>1, <2>2, <3>2, ToldProvision
  <2> QED
    BY <1>5, <2>1, <2>2 DEF Grow
<1>6. CASE JoinNew(c)
  <2>1. PICK m \in Reached(c, me.mine) :
           \/ End(c, "failed") /\ UNCHANGED vm
           \/ /\ Change(c, m, [m EXCEPT !.ca = me.token])
              /\ cli' = [cli EXCEPT ![c].at = "grow", ![c].next = @ + 1, ![c].mine = {}]
    BY <1>6 DEF JoinNew
  <2>2. m \in vm[c] /\ m \in Machine
    BY <1>1 DEF Reached
  <2>3. CASE End(c, "failed") /\ UNCHANGED vm
    BY <1>3, <2>3, ToldEnd
  <2>4. CASE /\ Change(c, m, [m EXCEPT !.ca = me.token])
             /\ cli' = [cli EXCEPT ![c].at = "grow", ![c].next = @ + 1, ![c].mine = {}]
    <3>1. PICK n : n = [m EXCEPT !.ca = me.token]
      OBVIOUS
    <3>2. n.node = m.node /\ n.version = m.version
      BY <2>2, <3>1 DEF Machine
    <3>3. vm'[c] = (vm[c] \ {m}) \cup {n}
      BY <1>1, <2>4, <3>1 DEF Change
    <3>4. Begun(c)
      BY <1>1 DEF Versions, Based, Begun
    <3>5. Versions(c)'
      BY <1>1, <2>2, <3>2, <3>3, <3>4, Rejoined
    <3>6. cli'[c].op = "scale"
      BY <1>1, <2>4 DEF Command
    <3> QED
      BY <1>2, <3>5, <3>6
  <2> QED
    BY <2>1, <2>3, <2>4
<1>7. CASE Shrink(c)
  <2>1. PICK r \in me.seen :
           /\ vm' = [vm EXCEPT ![c] = {m \in @ : ~IsOf(m, r)}]
           /\ \/ End(c, "scaled")
              \/ cli' = [cli EXCEPT ![c].seen = @ \ {r}]
    BY <1>7 DEF Shrink
  <2>2. r.node # 0
    BY <1>1, <1>7 DEF Shrink, At, Members, Scaling
  <2>3. vm'[c] = {m \in vm[c] : ~IsOf(m, r)}
    BY <1>1, <2>1
  <2>4. Versions(c)'
    BY <2>2, <2>3, FewerVersions DEF IsOf
  <2>5. CASE cli' = [cli EXCEPT ![c].seen = @ \ {r}]
    <3>1. cli'[c].op = "scale"
      BY <1>1, <2>5 DEF Command
    <3> QED
      BY <1>2, <2>4, <3>1
  <2> QED
    BY <2>1, <2>4, <2>5, ToldEnd
<1> QED
  BY <1>4, <1>5, <1>6, <1>7

-----------------------------------------------------------------------------
(* Deletion *)

\* Deletions know nothing of versions.
LEMMA ToldDeletion ==
    ASSUME TypeInv, NEW c \in Names, cloud' = cloud, cli[c].op \in {"delete", "abort"},
           \/ cli'[c] = cli[c]
           \/ \E answer : End(c, answer)
           \/ \E n \in Command : n.op = cli[c].op /\ (Proceed(c, n) \/ Loop(c, n, Workers))
    PROVE  Told(c)'
<1>1. CASE cli'[c] = cli[c]
  BY <1>1, ToldNothing
<1>2. CASE \E answer : End(c, answer)
  BY <1>2, ToldEnd
<1>3. CASE \E n \in Command : n.op = cli[c].op /\ (Proceed(c, n) \/ Loop(c, n, Workers))
  BY <1>3, ToldOn
<1> QED
  BY <1>1, <1>2, <1>3

LEMMA VersionsPartsDrop ==
    ASSUME TypeInv, NEW c \in Names, Versions(c), cloud' = cloud,
           \/ DropFirewall(c) \/ DropNetwork(c) \/ DropSubnets(c) \/ Sweep(c) \/ SweepEmpty(c)
           \/ DropKey(c) \/ Untrack(c) \/ Forget(c) \/ DropTags(c)
    PROVE  Versions(c)' /\ Told(c)'
<1> DEFINE me == cli[c]
<1>1. me \in Command /\ me.missed \in BOOLEAN /\ vm \in [Names -> SUBSET Machine]
  BY DEF TypeInv, TypeOK, Command
<1>2. me.op \in {"delete", "abort"}
  <2>1. me.at \in {"dropFirewall", "dropNetwork", "dropSubnets", "sweep", "sweepEmpty",
                   "dropKey", "untrack", "forget", "dropTags"}
    BY DEF DropFirewall, DropNetwork, DropSubnets, Sweep, SweepEmpty, DropKey, Untrack, Forget,
           DropTags, At
  <2> QED
    BY <2>1, OpAt
<1>3. Versions(c)'
  <2>1. vm'[c] = vm[c] \/ vm'[c] = Untagged(vm[c])
    BY <1>1 DEF DropFirewall, DropNetwork, DropSubnets, Sweep, SweepEmpty, DropKey, Untrack, Forget,
           DropTags, account, Untagged
  <2> QED
    BY <2>1, SameKin, UntaggedKin, KinKeeps
<1>4. \E n \in Command : n.op = me.op /\ Proceed(c, n)
  <2>1. CASE DropFirewall(c)
    BY <1>1, <2>1 DEF DropFirewall, Command
  <2>2. CASE DropNetwork(c)
    <3>1. [me EXCEPT !.missed = me.missed] = me
      BY <1>1 DEF Command
    <3>2. PICK lost \in BOOLEAN : Proceed(c, [me EXCEPT !.missed = lost])
      BY <1>1, <2>2, <3>1 DEF DropNetwork
    <3> QED
      BY <1>1, <3>2 DEF Command
  <2>3. CASE ~DropFirewall(c) /\ ~DropNetwork(c)
    BY <1>1, <2>3 DEF DropSubnets, Sweep, SweepEmpty, DropKey, Untrack, Forget, DropTags
  <2> QED
    BY <2>1, <2>2, <2>3
<1> QED
  BY <1>2, <1>3, <1>4, ToldDeletion

LEMMA VersionsMachinesDrop ==
    ASSUME TypeInv, NEW c \in Names, Versions(c), cloud' = cloud,
           \/ DropDroplets(c) \/ DropInstances(c) \/ DropTracked(c) \/ DropGroup(c)
           \/ DropGroupFails(c) \/ Reset(c) \/ PassOver(c)
    PROVE  Versions(c)' /\ Told(c)'
<1> DEFINE me == cli[c]
<1>1. /\ me \in Command /\ me.missed \in BOOLEAN /\ vm \in [Names -> SUBSET Machine]
      /\ cloud \in SixClouds /\ me.at \in StepsOf(cloud, me.op) /\ cli \in [Names -> Command]
  BY CloudSix DEF TypeInv, TypeOK, Command, Placed
<1>2. /\ me.op \in {"delete", "abort"}
      /\ DropInstances(c) \/ DropTracked(c) => cloud \in {"civo", "gcp"}
  <2>1. /\ me.at \in {"dropDroplets", "dropInstances", "dropTracked", "dropGroup", "reset",
                      "dropFirewall", "dropNetwork", "dropTags", "dropKey", "dropSubnets",
                      "sweep", "sweepEmpty", "untrack"}
        /\ DropInstances(c) \/ DropTracked(c) => me.at \in {"dropInstances", "dropTracked"}
    BY DEF DropDroplets, DropInstances, DropTracked, DropGroup, DropGroupFails, Reset, PassOver,
           At
  <2>2. me.op \in {"delete", "abort"}
    BY <2>1, OpAt
  <2> QED
    BY <1>1, <2>1, <2>2 DEF StepsOf, DeleteSteps, SixClouds
<1>3. Versions(c)'
  <2>1. CASE Reset(c)
    <3>1. PICK m \in vm[c] : Change(c, m, [m EXCEPT !.ca = Absent])
      BY <2>1 DEF Reset
    <3>2. PICK n : n = [m EXCEPT !.ca = Absent]
      OBVIOUS
    <3>3. n.node = m.node /\ n.version = m.version /\ n.ca = Absent
      BY <1>1, <3>1, <3>2 DEF Machine
    <3>4. vm'[c] = (vm[c] \ {m}) \cup {n}
      BY <1>1, <3>1, <3>2 DEF Change
    <3> QED
      BY <3>3, <3>4, Rejoined
  <2>2. CASE PassOver(c)
    BY <2>2, SameKin, KinKeeps DEF PassOver, account
  <2>3. CASE DropDroplets(c)
    BY <1>1, <2>3, FewerVersions DEF DropDroplets
  <2>4. CASE DropInstances(c)
    BY <1>1, <1>2, <2>4, FewerVersions DEF DropInstances
  <2>5. CASE DropTracked(c)
    <3>1. vm'[c] \subseteq vm[c]
      BY <1>1, <2>5 DEF DropTracked
    <3> QED
      BY <1>2, <2>5, <3>1, FewerVersions
  <2>6. CASE DropGroup(c) \/ DropGroupFails(c)
    <3>1. vm'[c] = vm[c] \/ vm'[c] = {}
      BY <1>1, <2>6 DEF DropGroup, DropGroupFails, DeleteGroup, Mates
    <3> QED
      BY <3>1, FewerVersions, SameKin, KinKeeps
  <2> QED
    BY <2>1, <2>2, <2>3, <2>4, <2>5, <2>6
<1>4. \/ End(c, "failed")
      \/ cli'[c] = cli[c]
      \/ \E n \in Command : n.op = me.op /\ (Proceed(c, n) \/ Loop(c, n, Workers))
  <2>m. ASSUME NEW missed \in BOOLEAN
        PROVE  [me EXCEPT !.missed = missed] \in Command /\ [me EXCEPT !.missed = missed].op = me.op
    BY <1>1 DEF Command
  <2>1. CASE DropDroplets(c) \/ DropInstances(c) \/ DropGroupFails(c) \/ Reset(c)
    BY <1>1, <2>1 DEF DropDroplets, DropInstances, DropGroupFails, Reset
  <2>2. CASE DropTracked(c)
    <3> DEFINE found == {m \in vm[c] : m.node = me.next}
    <3>1. PICK missed \in BOOLEAN : missed = (me.missed \/ found = {})
      OBVIOUS
    <3>2. Loop(c, [me EXCEPT !.missed = @ \/ found = {}], Workers)
      BY <2>2 DEF DropTracked
    <3>3. [me EXCEPT !.missed = @ \/ found = {}] = [me EXCEPT !.missed = missed]
      BY <3>1
    <3> HIDE DEF found
    <3> QED
      BY <2>m, <3>2, <3>3
  <2>3. CASE DropGroup(c)
    <3>1. PICK lost \in BOOLEAN : lost = (me.missed \/ ~Foreign(c))
      OBVIOUS
    <3>2. Proceed(c, me) \/ Proceed(c, [me EXCEPT !.missed = lost])
      BY <2>3, <3>1 DEF DropGroup
    <3> QED
      BY <1>1, <2>m, <3>2
  <2>4. CASE PassOver(c)
    BY <2>m, <2>4 DEF PassOver
  <2> QED
    BY <2>1, <2>2, <2>3, <2>4
<1> QED
  BY <1>2, <1>3, <1>4, ToldDeletion

-----------------------------------------------------------------------------
(* The theorem *)

LEMMA InitVersions == Init => VersionInv
<1> SUFFICES ASSUME Init PROVE VersionInv
  OBVIOUS
<1>1. MemberInv
  BY InitMembers
<1>2. ASSUME NEW c \in Names PROVE Versions(c) /\ Told(c)
  <2>1. cli[c] = NoCommand
    BY DEF Init
  <2>2. Told(c)
    BY <2>1 DEF NoCommand, Told, Prepared, Preparing, Upgrading
  <2>3. CASE cloud # "custom"
    BY <2>2, <2>3 DEF Init, Versions, Bounded, Ahead, Based, Unjoined, Untouched
  <2>4. CASE cloud = "custom"
    <3> DEFINE Host(n) == [node |-> n, copy |-> 1, key |-> 1, up |-> TRUE, role |-> n = 0,
                           ca |-> Absent, version |-> Absent]
    <3>1. \A m \in vm[c] : \E n \in 0..Workers : m = Host(n)
      BY <2>4 DEF Init
    <3>2. \A n \in 0..Workers : Host(n).version = Absent /\ Host(n).ca = Absent
      OBVIOUS
    <3> HIDE DEF Host
    <3>3. \A m \in vm[c] : m.version = Absent /\ m.ca = Absent
      BY <3>1, <3>2
    <3>4. Absent <= Target /\ ~(Absent > Asked)
      BY VersionsAssumption DEF Absent
    <3> QED
      BY <2>2, <2>4, <3>3, <3>4 DEF Versions, Bounded, Ahead, Based, Unjoined, Untouched
  <2> QED
    BY <2>3, <2>4
<1> QED
  BY <1>1, <1>2 DEF VersionInv

LEMMA NextVersions ==
    ASSUME VersionInv, NEW c \in Names, cloud' = cloud, Acts(c)
    PROVE  Versions(c)' /\ Told(c)'
<1>1. TypeInv /\ Versions(c) /\ Told(c) /\ Members(c) /\ Consistent(c)
  BY DEF VersionInv, MemberInv, SafeInv
<1>2. CASE CreateStep(c)
  <2>1. CASE \/ EnsureKey(c) \/ EnsureNetwork(c) \/ CreateSubnets(c) \/ EnsureFirewall(c)
             \/ Look(c) \/ Save(c) \/ Integrate(c)
    BY <1>1, <2>1, VersionsCreation
  <2>2. CASE CreateMachine(c)
    BY <1>1, <2>2, VersionsCreateMachine
  <2>3. CASE Await(c)
    BY <1>1, <2>3, VersionsAwait
  <2>4. CASE PrepareHost(c)
    BY <1>1, <2>4, VersionsPrepare
  <2>5. CASE InitMaster(c)
    BY <1>1, <2>5, VersionsInit
  <2>6. CASE JoinWorker(c)
    BY <1>1, <2>6, VersionsJoin
  <2>7. CASE TimesOut(c)
    BY <1>1, <2>7, VersionsControl
  <2> QED
    BY <1>2, <2>1, <2>2, <2>3, <2>4, <2>5, <2>6, <2>7 DEF CreateStep
<1>3. CASE DeleteStep(c)
  <2>1. CASE \/ DropFirewall(c) \/ DropNetwork(c) \/ DropSubnets(c) \/ Sweep(c)
             \/ SweepEmpty(c) \/ DropKey(c) \/ Untrack(c) \/ Forget(c) \/ DropTags(c)
    BY <1>1, <2>1, VersionsPartsDrop
  <2>2. CASE DropDroplets(c) \/ DropInstances(c) \/ DropTracked(c) \/ DropGroup(c) \/ Reset(c)
    BY <1>1, <2>2, VersionsMachinesDrop
  <2> QED
    BY <1>3, <2>1, <2>2 DEF DeleteStep
<1>4. CASE OtherStep(c)
  <2>1. CASE Survey(c) \/ Grow(c) \/ JoinNew(c) \/ Shrink(c)
    BY <1>1, <2>1, VersionsScale
  <2>2. CASE UpgradeMaster(c) \/ UpgradeWorker(c)
    BY <1>1, <2>2, VersionsUpgrade
  <2> QED
    BY <1>4, <2>1, <2>2 DEF OtherStep
<1>5. CASE StartCreate(c) \/ StartDelete(c) \/ StartUpgrade(c)
           \/ \E want \in 0..MostWorkers : StartScale(c, want)
  <2>1. \E op \in {"create", "delete", "scale", "upgrade"} : \E want : Start(c, op, want)
    BY <1>5 DEF StartCreate, StartDelete, StartUpgrade, StartScale
  <2> QED
    BY <1>1, <2>1, VersionsStart
<1>6. CASE Boots(c)
  BY <1>1, <1>6, VersionsBoots
<1>7. CASE Stops(c) \/ Aborts(c)
  BY <1>1, <1>7, VersionsControl
<1>8. CASE PassOver(c) \/ DropGroupFails(c)
  BY <1>1, <1>8, VersionsMachinesDrop
<1>9. CASE SaveFails(c)
  BY <1>1, <1>9, VersionsCreation
<1>10. CASE UpgradePassesOver(c)
  BY <1>1, <1>10, VersionsUpgrade
<1> QED
  BY <1>2, <1>3, <1>4, <1>5, <1>6, <1>7, <1>8, <1>9, <1>10 DEF Acts, Step

LEMMA StepVersions ==
    ASSUME VersionInv, MemberInv', [Next]_vars
    PROVE  VersionInv'
<1>1. CASE Next
  <2>1. PICK c \in Names : Acts(c)
    BY <1>1, NextActs
  <2>2. Stepped(c) /\ Apart(c) /\ cloud' = cloud
    BY <2>1, ActsSafe, NextGood DEF VersionInv, MemberInv, Good, Stepped
  <2>3. Versions(c)' /\ Told(c)'
    BY <2>1, <2>2, NextVersions
  <2>4. ASSUME NEW d \in Names, d # c PROVE Versions(d)' /\ Told(d)'
    <3>1. /\ cli'[d] = cli[d]
          /\ \/ vm'[d] = vm[d] \/ vm'[d] = Untagged(vm[d])
             \/ cloud = "azure" /\ Shares /\ vm'[d] = {}
      BY <2>2, <2>4 DEF Stepped, Apart
    <3>2. CASE vm'[d] = vm[d] \/ vm'[d] = Untagged(vm[d])
      <4>1. Kin(d)
        BY <3>2, SameKin, UntaggedKin DEF VersionInv, MemberInv, SafeInv
      <4> QED
        BY <2>2, <3>1, <4>1, KinKeeps, KinTold DEF VersionInv
    <3>3. CASE cloud = "azure" /\ Shares /\ vm'[d] = {}
      <4>1. Versions(d)'
        BY <3>3 DEF Versions, Bounded, Ahead, Based, Unjoined, Untouched
      <4>2. Told(d)'
        BY <2>2, <3>3 DEF Told, Prepared, Preparing, Begun, Upgrading, Razed
      <4> QED
        BY <4>1, <4>2
    <3> QED
      BY <3>1, <3>2, <3>3
  <2> QED
    BY <2>3, <2>4 DEF VersionInv
<1>2. CASE UNCHANGED vars
  <2>1. ASSUME NEW d \in Names PROVE Versions(d)' /\ Told(d)'
    BY <1>2, <2>1, SameKin, KinKeeps, KinTold DEF VersionInv, vars, account
  <2> QED
    BY <2>1 DEF VersionInv
<1> QED
  BY <1>1, <1>2

\* NoSkew: no machine that is a member of a cluster is newer than its control
\* plane, whatever is interrupted between the steps of creations, scalings and
\* upgrades, but for those scaling made of a default version above the one asked for.
THEOREM NoneNewer == Spec => []NoSkew
<1>1. ASSUME VersionInv PROVE NoSkew
  <2> SUFFICES ASSUME cloud # "civo", NEW c \in Names, NEW m \in vm[c], NEW w \in vm[c],
                      m.node = 0, m.ca # Absent, w.ca = m.ca, Plain(w)
               PROVE  w.version <= m.version
    BY DEF NoSkew, Plain
  <2>1. /\ w.version \in Nat /\ m.version \in Nat /\ Asked \in Nat /\ Target \in Nat
        /\ Workers \in Nat
    BY <1>1, Numbers DEF VersionInv, MemberInv, SafeInv
  <2>2. cloud # "aws" /\ Asked <= m.version /\ w.version <= Target
    BY <1>1 DEF VersionInv, Versions, Unjoined, Based, Bounded
  <2>3. CASE w.version <= Asked
    BY <2>1, <2>2, <2>3
  <2>4. CASE w.version > Asked
    <3>1. PICK o \in vm[c] : o.node = 0 /\ o.version = Target
      BY <1>1, <2>4 DEF VersionInv, Versions, Ahead, Upgraded
    <3>2. o = m
      BY <1>1, <2>1, <2>2, <3>1 DEF VersionInv, MemberInv, SafeInv, Consistent, Kept, Unique
    <3> QED
      BY <2>2, <3>1, <3>2
  <2> QED
    BY <2>1, <2>3, <2>4
<1>2. VersionInv /\ MemberInv' /\ [Next]_vars => VersionInv'
  BY StepVersions
<1>3. Spec => []VersionInv
  BY <1>2, InitVersions, Membership, PTL DEF Spec
<1>4. VersionInv => NoSkew
  BY <1>1
<1> QED
  BY <1>3, <1>4, PTL
====
