---- MODULE ClustersSafetyProofs ----
(***************************************************************************)
(* Proofs about Clusters: no node gets two machines, and a deletion none   *)
(* of whose calls failed leaves nothing behind.                            *)
(***************************************************************************)
EXTENDS ClustersProofs

-----------------------------------------------------------------------------
(* The invariant *)

\* Only DigitalOcean's scale makes machines the specification does not name.
LowNodes(c) == cloud # "digitalocean" => \A m \in vm[c] : m.node <= Workers

Unique(c) == cloud \notin {"civo", "aws"} =>
    \A m, n \in vm[c] : m.node = n.node /\ m.node <= Workers => m = n

\* What a creation on DigitalOcean saw covers the machines it has not come to.
Looked(c) == cloud = "digitalocean" /\ cli[c].op = "create" =>
    \A m \in vm[c] :
        /\ m.node <= Workers
        /\ \/ cli[c].at = "machine" /\ cli[c].next <= m.node
           \/ cli[c].at = "await" /\ cli[c].next < m.node
        => \E r \in cli[c].seen : r.node = m.node

\* What only some clouds have.
Proper(c) == /\ cloud # "aws" => "subnets" \notin parts[c]
             /\ cloud \notin {"gcp", "azure"} => "foreign" \notin parts[c]
             /\ ~Registers => registered[c] = Absent

\* The steps of a deletion that take the machines away, and the ones after.
Taking == {"dropDroplets", "dropInstances", "dropTracked", "dropGroup", "reset"}
NoFirewall == {"dropNetwork", "dropSubnets", "sweep", "dropTags", "dropKey", "untrack", "forget"}
NoParts == {"dropTags", "dropKey", "untrack", "forget"}

\* What a deletion does not count as the cluster's: on Azure all of it.
Leaves(c) == IF Foreign(c) THEN {"foreign", "network"} ELSE {}
Spared(c) == cloud = "azure" /\ Foreign(c)

\* What a deletion that missed nothing has done when it gets to a step.
Done(c, me) ==
    /\ me.at \notin Taking => vm[c] = {}
    /\ me.at \in NoFirewall => "firewall" \notin parts[c]
    /\ me.at \in NoParts => parts[c] \subseteq Leaves(c)
    /\ me.at = "forget" => registered[c] = Absent
    /\ me.at = "dropTracked" => \A m \in vm[c] : m.node >= me.next
    /\ me.at = "reset" => \A m \in vm[c] : m.node \in 1..me.next => m.ca = Absent
Cleared(c) == cli[c].op = "delete" /\ ~cli[c].missed /\ ~Spared(c) => Done(c, cli[c])

Empty(c) == IF cloud = "custom" THEN \A m \in vm[c] : m.ca = Absent
            ELSE vm[c] = {} /\ parts[c] \subseteq Leaves(c) /\ registered[c] = Absent
Gone(c) == said[c] = "deleted" => cli[c].op = "none" /\ (~Spared(c) => Empty(c))

Kept(c) == LowNodes(c) /\ Unique(c) /\ Proper(c)
Consistent(c) == Kept(c) /\ Looked(c) /\ Cleared(c) /\ Gone(c)

\* A resource group is foreign to all of the clusters in it, or to none.
Neighbours == cloud = "azure" => \A c \in Names : \A d \in Mates(c) : Foreign(d) = Foreign(c)

SafeInv == TypeInv /\ Neighbours /\ \A c \in Names : Consistent(c)

-----------------------------------------------------------------------------
(* The machines of a cluster *)

Untagged(S) == {[m EXCEPT !.role = FALSE] : m \in S}

LEMMA UntaggedFields ==
    ASSUME NEW S \in SUBSET Machine, NEW m \in Untagged(S)
    PROVE  \E o \in S : /\ m = [o EXCEPT !.role = FALSE]
                        /\ m.node = o.node /\ m.ca = o.ca /\ m.copy = o.copy
  BY DEF Untagged, Machine

LEMMA KeptUntagged ==
    ASSUME TypeInv, NEW c \in Names, LowNodes(c), Unique(c), cloud' = cloud,
           vm'[c] = Untagged(vm[c])
    PROVE  LowNodes(c)' /\ Unique(c)'
<1>1. vm[c] \in SUBSET Machine
  BY DEF TypeInv, TypeOK
<1>2. LowNodes(c)'
  BY <1>1, UntaggedFields DEF LowNodes
<1>3. Unique(c)'
  <2> SUFFICES ASSUME cloud \notin {"civo", "aws"}, NEW m \in vm'[c], NEW n \in vm'[c],
                      m.node = n.node, m.node <= Workers
               PROVE  m = n
    BY DEF Unique
  <2>1. PICK o \in vm[c] : m = [o EXCEPT !.role = FALSE] /\ m.node = o.node
    BY <1>1, UntaggedFields
  <2>2. PICK p \in vm[c] : n = [p EXCEPT !.role = FALSE] /\ n.node = p.node
    BY <1>1, UntaggedFields
  <2>3. o = p
    BY <2>1, <2>2 DEF Unique
  <2> QED
    BY <2>1, <2>2, <2>3
<1> QED
  BY <1>2, <1>3

LEMMA KeptFewer ==
    ASSUME NEW c \in Names, LowNodes(c), Unique(c), cloud' = cloud, vm'[c] \subseteq vm[c]
    PROVE  LowNodes(c)' /\ Unique(c)'
  BY DEF LowNodes, Unique

LEMMA KeptChanged ==
    ASSUME TypeInv, NEW c \in Names, LowNodes(c), Unique(c), cloud' = cloud,
           NEW m \in vm[c], NEW n, n.node = m.node, Change(c, m, n)
    PROVE  LowNodes(c)' /\ Unique(c)' /\ vm'[c] = (vm[c] \ {m}) \cup {n}
<1>1. vm'[c] = (vm[c] \ {m}) \cup {n}
  BY DEF Change, TypeInv, TypeOK
<1> QED
  BY <1>1 DEF LowNodes, Unique

-----------------------------------------------------------------------------
(* The other clusters *)

\* All that a step does to another cluster.
Apart(c) == \A d \in Names \ {c} :
    /\ said'[d] = said[d]
    /\ parts'[d] \subseteq parts[d]
    /\ \/ vm'[d] = vm[d] \/ vm'[d] = Untagged(vm[d])
       \/ cloud = "azure" /\ Shares /\ cli[c].op = "delete" /\ vm'[d] = {}

LEMMA Elsewhere ==
    ASSUME TypeInv, NEW c \in Names, Stepped(c), Apart(c), NEW d \in Names, d # c, Consistent(d),
           Foreign(d)' = Foreign(d)
    PROVE  Consistent(d)'
<1>1. /\ cloud' = cloud /\ cli'[d] = cli[d] /\ registered'[d] = registered[d]
      /\ said'[d] = said[d] /\ parts'[d] \subseteq parts[d]
      /\ vm'[d] = vm[d] \/ vm'[d] = Untagged(vm[d]) \/ vm'[d] = {}
      /\ vm[d] \in SUBSET Machine /\ Leaves(d)' = Leaves(d) /\ Spared(d)' = Spared(d)
  BY DEF Stepped, Apart, TypeInv, TypeOK, Leaves, Spared
<1>2. \A m \in vm'[d] : \E o \in vm[d] : m.node = o.node /\ m.ca = o.ca
  BY <1>1, UntaggedFields
<1>3. vm[d] = {} => vm'[d] = {}
  BY <1>2
<1>4. LowNodes(d)' /\ Unique(d)'
  BY <1>1, KeptUntagged, KeptFewer DEF Consistent, Kept
<1>5. Proper(d)'
  BY <1>1 DEF Consistent, Kept, Proper, Registers
<1>6. Looked(d)'
  BY <1>1, <1>2 DEF Consistent, Looked
<1>7. Cleared(d)'
  BY <1>1, <1>2, <1>3 DEF Consistent, Cleared, Done
<1>8. Gone(d)'
  BY <1>1, <1>2, <1>3 DEF Consistent, Gone, Empty
<1> QED
  BY <1>4, <1>5, <1>6, <1>7, <1>8 DEF Consistent, Kept

-----------------------------------------------------------------------------
(* Where a command goes *)

LEMMA AfterDeleteStep ==
    ASSUME NEW at \in DeleteSteps(cloud), cloud \in SixClouds
    PROVE  LET next == Program("delete")[at] IN
           /\ at \in {"dropDroplets", "dropInstances", "dropTracked"} => next = "dropFirewall"
           /\ at = "dropGroup" => next = "untrack"
           /\ at = "dropFirewall" => next \in {"dropNetwork", "dropSubnets"}
           /\ at = "dropSubnets" => next = "sweep"
           /\ at = "dropNetwork" => next \in {"dropTags", "dropKey", "untrack"} /\ cloud # "aws"
           /\ at = "sweep" => next = "dropKey"
           /\ at = "dropTags" => next = "dropKey"
           /\ at = "dropKey" => next = "forget"
           /\ at = "untrack" => next = "forget" /\ ~Registers
           /\ at \in {"forget", "reset"} => next = "done"
           /\ at = "reset" <=> cloud = "custom"
  BY DEF SixClouds, Program, DeleteSteps, DigitalOceanDelete, CivoDelete, GcpDelete,
         AzureDelete, AwsDelete, CustomDelete, Registers

LEMMA AfterLook ==
    ASSUME NEW at \in CreateSteps("digitalocean"), at \notin {"look", "await"},
           cloud = "digitalocean"
    PROVE  Program("create")[at] \notin {"machine", "await"}
  BY DEF Program, CreateSteps, DigitalOceanCreate

\* A command that is not a deletion, and on DigitalOcean not one making machines.
Quiet(me) == /\ me.op # "delete"
             /\ cloud = "digitalocean" /\ me.op = "create" => me.at \notin {"machine", "await"}

LEMMA QuietStep ==
    ASSUME NEW c \in Names, cloud' = cloud, Quiet(cli'[c]), said'[c] # "deleted",
           (LowNodes(c) /\ Unique(c) /\ Proper(c))'
    PROVE  Consistent(c)'
  BY DEF Quiet, Consistent, Kept, Looked, Cleared, Gone

LEMMA Silent ==
    ASSUME TypeOK, NEW c \in Names, NEW me, me.op \in Ops \ {"delete"}, said[c] # "deleted",
           Proceed(c, me)
    PROVE  said'[c] # "deleted"
  BY DEF Proceed, GoTo, End, Answer, Ops, TypeOK

LEMMA QuietAdvanced ==
    ASSUME TypeInv, NEW me \in Command, me.op \in {"create", "abort"},
           me.at \in StepsOf(cloud, me.op), me.at # "await", me.op = "create" => me.at # "look"
    PROVE  Quiet(Advanced(me))
<1>1. cloud \in SixClouds
  BY CloudSix DEF TypeInv
<1>2. CASE After(me) = "done"
  BY <1>2 DEF Advanced, NoCommand, Quiet
<1>3. CASE After(me) # "done"
  <2>1. Advanced(me).op = me.op
    <3>1. Advanced(me) = [me EXCEPT !.at = After(me), !.next = 0]
      BY <1>3 DEF Advanced
    <3> QED
      BY <3>1 DEF Command
  <2>2. Advanced(me).at = After(me)
    <3>1. Advanced(me) = [me EXCEPT !.at = After(me), !.next = 0]
      BY <1>3 DEF Advanced
    <3> QED
      BY <3>1 DEF Command
  <2>3. cloud = "digitalocean" /\ me.op = "create" => After(me) \notin {"machine", "await"}
    BY AfterLook DEF After, StepsOf
  <2> QED
    BY <2>1, <2>2, <2>3 DEF Quiet
<1> QED
  BY <1>2, <1>3

\* What a step has to keep.
Good(c) == Apart(c) /\ Consistent(c)'

\* What a step of a deletion that missed nothing has done when it is over.
Did(c, at) ==
    /\ at # "reset" => vm[c] = {}
    /\ at \in NoFirewall \cup {"dropFirewall", "dropGroup"} => "firewall" \notin parts[c]
    /\ at \in NoParts \cup {"dropNetwork", "sweep", "dropGroup"} => parts[c] \subseteq Leaves(c)
    /\ at \in {"dropKey", "forget"} => registered[c] = Absent
    /\ at = "reset" => \A m \in vm[c] : m.ca = Absent

LEMMA DeletionGoesOn ==
    ASSUME TypeInv, NEW c \in Names, Consistent(c), cloud' = cloud, cli[c].op = "delete",
           NEW n \in Command, n.op = "delete", n.at = cli[c].at, Proceed(c, n),
           (LowNodes(c) /\ Unique(c) /\ Proper(c))', ~n.missed /\ ~Spared(c)' => Did(c, n.at)'
    PROVE  Consistent(c)'
<1>1. cloud \in SixClouds /\ n.at \in DeleteSteps(cloud) /\ cli \in [Names -> Command]
      /\ said \in [Names -> Said] /\ n.missed \in BOOLEAN
  BY CloudSix DEF TypeInv, TypeOK, Placed, StepsOf, Command
<1>2. said[c] # "deleted"
  BY DEF Consistent, Gone
<1>3. CASE After(n) = "done"
  <2>1. /\ cli'[c] = NoCommand
        /\ said'[c] = "deleted" => ~n.missed
    BY <1>1, <1>3 DEF Proceed, GoTo, End, After, Answer
  <2>2. n.at \in {"forget", "reset"}
    BY <1>1, <1>3, AfterDeleteStep DEF After, SixClouds, DeleteSteps
  <2>3. ~n.missed /\ ~Spared(c)' => Empty(c)'
    BY <1>1, <2>2, AfterDeleteStep DEF Did, Empty, NoParts
  <2> QED
    BY <2>1, <2>3 DEF NoCommand, Consistent, Kept, Looked, Cleared, Gone
<1>4. CASE After(n) # "done"
  <2>1. cli'[c] = [n EXCEPT !.at = After(n), !.next = 0] /\ said' = said
    BY <1>1, <1>4 DEF Proceed, GoTo, After
  <2>2. /\ cli'[c].at = After(n) /\ cli'[c].next = 0 /\ cli'[c].op = "delete"
        /\ cli'[c].missed = n.missed
    BY <2>1 DEF Command
  <2>3. ~n.missed /\ ~Spared(c)' => Done(c, cli[c])'
    <3> SUFFICES ASSUME ~n.missed, ~Spared(c)' PROVE Done(c, cli[c])'
      OBVIOUS
    <3>1. Did(c, n.at)' /\ Proper(c)'
      OBVIOUS
    <3>2. n.at # "reset" /\ n.at # "forget"
      BY <1>1, <1>4, AfterDeleteStep DEF After
    <3>3. vm'[c] = {}
      BY <3>1, <3>2 DEF Did
    <3>4. After(n) \in NoFirewall => "firewall" \notin parts'[c]
      BY <1>1, <3>1, AfterDeleteStep DEF Did, NoFirewall, NoParts, After, DeleteSteps, SixClouds
    <3>5. After(n) \in NoParts => parts'[c] \subseteq Leaves(c)'
      BY <1>1, <3>1, AfterDeleteStep DEF Did, NoFirewall, NoParts, After, DeleteSteps, SixClouds
    <3>6. After(n) = "forget" => registered'[c] = Absent
      BY <1>1, <3>1, AfterDeleteStep
         DEF Did, Proper, Registers, After, DeleteSteps, SixClouds
    <3> QED
      BY <2>2, <3>3, <3>4, <3>5, <3>6 DEF Done
  <2> QED
    BY <1>2, <2>1, <2>2, <2>3 DEF Consistent, Kept, Looked, Cleared, Gone
<1> QED
  BY <1>3, <1>4

LEMMA GoodEnd ==
    ASSUME TypeInv, NEW c \in Names, cloud' = cloud, NEW answer, answer # "deleted",
           End(c, answer), (LowNodes(c) /\ Unique(c) /\ Proper(c))'
    PROVE  Consistent(c)' /\ \A d \in Names \ {c} : said'[d] = said[d]
<1>1. cli'[c] = NoCommand /\ said'[c] = answer /\ \A d \in Names \ {c} : said'[d] = said[d]
  BY DEF End, TypeInv, TypeOK
<1> QED
  BY <1>1, QuietStep DEF NoCommand, Quiet

\* A creation, or its undoing, goes on in its program.
LEMMA GoodProceed ==
    ASSUME TypeInv, NEW c \in Names, Consistent(c), cloud' = cloud,
           NEW n \in Command, n.op \in {"create", "abort"}, n.op = cli[c].op,
           n.at \in StepsOf(cloud, n.op), n.at # "await", n.op = "create" => n.at # "look",
           Proceed(c, n), (LowNodes(c) /\ Unique(c) /\ Proper(c))'
    PROVE  Consistent(c)' /\ \A d \in Names \ {c} : said'[d] = said[d]
<1>1. TypeOK /\ cli \in [Names -> Command] /\ n.op \in Ops \ {"delete"}
  BY DEF TypeInv, TypeOK, Ops
<1>2. said[c] # "deleted"
  BY DEF Consistent, Gone
<1>3. said'[c] # "deleted"
  BY <1>1, <1>2, Silent
<1>4. Becomes(c, Advanced(n))
  BY <1>1, Proceeded
<1>5. cli'[c] = Advanced(n) /\ \A d \in Names \ {c} : said'[d] = said[d]
  BY <1>1, <1>4 DEF Becomes
<1> QED
  BY <1>3, <1>5, QuietAdvanced, QuietStep

\* Loops of a creation other than the one that makes machines.
LEMMA GoodLoop ==
    ASSUME TypeInv, NEW c \in Names, Consistent(c), cloud' = cloud,
           NEW n \in Command, n.op = "create", n.op = cli[c].op,
           n.at \in StepsOf(cloud, n.op), n.at \notin {"await", "machine", "look"}, NEW last,
           Loop(c, n, last), (LowNodes(c) /\ Unique(c) /\ Proper(c))'
    PROVE  Consistent(c)' /\ \A d \in Names \ {c} : said'[d] = said[d]
<1>1. TypeOK /\ cli \in [Names -> Command] /\ n.op \in Ops
  BY DEF TypeInv, TypeOK, Ops
<1>2. CASE Proceed(c, n)
  BY <1>2, GoodProceed
<1>3. CASE Becomes(c, [n EXCEPT !.next = @ + 1]) /\ UNCHANGED said
  <2>1. cli'[c] = [n EXCEPT !.next = @ + 1] /\ said' = said
    BY <1>1, <1>3 DEF Becomes
  <2>2. cli'[c].op = "create" /\ cli'[c].at = n.at
    BY <2>1, Counted
  <2>3. said[c] # "deleted"
    BY DEF Consistent, Gone
  <2> QED
    BY <2>1, <2>2, <2>3, QuietStep DEF Quiet
<1> QED
  BY <1>1, <1>2, <1>3, Looped

-----------------------------------------------------------------------------
(* Creation *)

\* Steps of a creation that make no machine.
LEMMA GoodCreation ==
    ASSUME TypeInv, NEW c \in Names, Consistent(c), cloud' = cloud,
           \/ EnsureKey(c) \/ EnsureNetwork(c) \/ CreateSubnets(c) \/ EnsureFirewall(c)
           \/ Save(c) \/ SaveFails(c) \/ Integrate(c)
    PROVE  Good(c)
<1> DEFINE me == cli[c]
<1>1. /\ me \in Command /\ TypeOK /\ cloud \in SixClouds
      /\ parts \in [Names -> SUBSET {"network", "subnets", "firewall", "foreign"}]
      /\ registered \in [Names -> Keys \cup {Absent}]
      /\ me.at \in StepsOf(cloud, me.op)
  BY CloudSix DEF TypeInv, TypeOK, Placed
<1>2. /\ me.op = "create"
      /\ me.at \in {"key", "network", "subnets", "firewall", "save", "integrate"}
      /\ vm' = vm
      /\ me.at = "subnets" => cloud = "aws"
  <2>1. /\ me.at \in {"key", "network", "subnets", "firewall", "save", "integrate"}
        /\ vm' = vm
    BY DEF EnsureKey, EnsureNetwork, CreateSubnets, EnsureFirewall, Save, SaveFails,
           Integrate, At, account
  <2>2. me.op = "create"
    BY <2>1, OpAt
  <2> QED
    BY <1>1, <2>1, <2>2 DEF StepsOf, CreateSteps, SixClouds
<1>3. LowNodes(c)' /\ Unique(c)'
  BY <1>2, KeptFewer DEF Consistent, Kept
<1>4. Proper(c)' /\ \A d \in Names \ {c} : parts'[d] = parts[d] /\ vm'[d] = vm[d]
  <2> USE <1>1, <1>2 DEF Consistent, Kept, Proper, Registers
  <2>1. CASE EnsureKey(c)
    BY <2>1 DEF EnsureKey
  <2>2. CASE EnsureNetwork(c)
    BY <2>2 DEF EnsureNetwork
  <2>3. CASE CreateSubnets(c)
    BY <2>3 DEF CreateSubnets, At
  <2>4. CASE EnsureFirewall(c)
    BY <2>4 DEF EnsureFirewall
  <2>5. CASE Save(c) \/ SaveFails(c) \/ Integrate(c)
    BY <2>5 DEF Save, SaveFails, Integrate, account
  <2> QED
    BY <2>1, <2>2, <2>3, <2>4, <2>5
<1>5. \/ End(c, "failed")
      \/ \E n \in Command : n.op = me.op /\ n.at = me.at /\ Proceed(c, n)
  <2>1. CASE Save(c)
    <3> DEFINE n == [me EXCEPT !.mem = [me.mem EXCEPT ![c] = 0..Workers]]
    <3>1. n \in Command /\ n.op = me.op /\ n.at = me.at
      <4>1. [me.mem EXCEPT ![c] = 0..Workers] \in Trackers
        BY <1>1, WorkersAssumption DEF Command, Trackers, Nodes
      <4> QED
        BY <1>1, <4>1 DEF Command
    <3>2. Proceed(c, n)
      BY <2>1 DEF Save
    <3> QED
      BY <3>1, <3>2
  <2>2. CASE ~Save(c)
    BY <1>1, <2>2 DEF EnsureKey, EnsureNetwork, CreateSubnets, EnsureFirewall, SaveFails,
                      Integrate
  <2> QED
    BY <2>1, <2>2
<1>6. Consistent(c)' /\ \A d \in Names \ {c} : said'[d] = said[d]
  <2>1. CASE End(c, "failed")
    BY <1>3, <1>4, <2>1, GoodEnd
  <2>2. CASE \E n \in Command : n.op = me.op /\ n.at = me.at /\ Proceed(c, n)
    BY <1>1, <1>2, <1>3, <1>4, <2>2, GoodProceed
  <2> QED
    BY <1>5, <2>1, <2>2
<1> QED
  BY <1>4, <1>6 DEF Good, Apart

LEMMA GoodLook ==
    ASSUME TypeInv, NEW c \in Names, Consistent(c), cloud' = cloud, Look(c)
    PROVE  Good(c)
<1> DEFINE n == [cli[c] EXCEPT !.seen = {RefTo(m) : m \in vm[c]}]
<1>1. /\ cli[c] \in Command /\ cli[c].at = "look" /\ cli[c].op = "create" /\ TypeOK
      /\ cloud \in SixClouds /\ cli[c].at \in StepsOf(cloud, "create")
  BY CloudSix, OpAt DEF TypeInv, TypeOK, Placed, Look, At
<1>2. cloud = "digitalocean"
  BY <1>1 DEF StepsOf, CreateSteps, SixClouds
<1>3. n.op = "create" /\ n.at = "look" /\ n.seen = {RefTo(m) : m \in vm[c]} /\ Proceed(c, n)
  BY <1>1 DEF Look, Command
<1>4. After(n) = "machine"
  BY <1>2, <1>3 DEF After, Program, DigitalOceanCreate
<1>5. cli' = [cli EXCEPT ![c] = [n EXCEPT !.at = "machine", !.next = 0]] /\ said' = said
  BY <1>3, <1>4 DEF Proceed, GoTo, After
<1>6. /\ cli'[c].op = "create"
      /\ \A m \in vm[c] : \E r \in cli'[c].seen : r.node = m.node
  <2>1. cli'[c] = [n EXCEPT !.at = "machine", !.next = 0]
    BY <1>1, <1>5 DEF TypeOK
  <2>2. cli'[c].op = "create" /\ cli'[c].seen = {RefTo(m) : m \in vm[c]}
    BY <1>1, <2>1 DEF Command
  <2>3. \A m : RefTo(m).node = m.node
    BY DEF RefTo
  <2> HIDE DEF n
  <2> QED
    BY <2>2, <2>3
<1>7. UNCHANGED <<cloud, registered, parts, vm>>
  BY DEF Look, account
<1>8. said[c] # "deleted"
  BY <1>1 DEF Consistent, Gone
<1>9. LowNodes(c)' /\ Unique(c)' /\ Proper(c)'
  BY <1>7 DEF Consistent, Kept, LowNodes, Unique, Proper, Registers
<1> QED
  BY <1>5, <1>6, <1>7, <1>8, <1>9 DEF Good, Apart, Consistent, Kept, Looked, Cleared, Gone

\* The steps on the machines there are.
LEMMA GoodMachineStep ==
    ASSUME TypeInv, NEW c \in Names, Consistent(c), cloud' = cloud,
           PrepareHost(c) \/ InitMaster(c) \/ JoinWorker(c)
    PROVE  Good(c)
<1> DEFINE me == cli[c]
<1>1. /\ me \in Command /\ TypeOK /\ me.at \in StepsOf(cloud, me.op)
      /\ vm \in [Names -> SUBSET Machine]
  BY DEF TypeInv, TypeOK, Placed
<1>2. /\ me.op = "create" /\ me.at \in {"prepare", "init", "join"}
      /\ UNCHANGED <<parts, registered>>
  BY OpAt DEF PrepareHost, InitMaster, JoinWorker, At
<1>3. Proper(c)'
  BY <1>2 DEF Consistent, Kept, Proper, Registers
<1>n. ASSUME NEW n, \/ n = me
                     \/ \E m \in vm[c] : n = [me EXCEPT !.mine = @ \cup {RefTo(m)}]
                     \/ \E k \in Keys \cup {Absent} : n = [me EXCEPT !.token = k]
      PROVE  n \in Command /\ n.op = me.op /\ n.at = me.at
  <2>1. \A m \in vm[c] : RefTo(m) \in Ref
    BY <1>1 DEF RefTo, Ref, Machine
  <2> QED
    BY <1>1, <1>n, <2>1 DEF Command
<1> DEFINE Same(n) == n \in Command /\ n.op = me.op /\ n.at = me.at
           Shifted(m) == \E x \in Machine : x.node = m.node /\ Change(c, m, x)
           Goes(n) == Proceed(c, n) \/ \E last \in {Workers, Workers - 1} : Loop(c, n, last)
<1>4. PICK m \in vm[c], n \in Command :
        (UNCHANGED vm \/ Shifted(m)) /\ Same(n) /\ Goes(n)
  <2>1. CASE PrepareHost(c)
    <3>1. PICK m \in vm[c] :
             /\ Change(c, m, IF m.version = Absent THEN [m EXCEPT !.version = Asked] ELSE m)
             /\ Loop(c, [me EXCEPT !.mine = @ \cup {RefTo(m)}], Workers)
      BY <2>1 DEF PrepareHost
    <3>2. \E x \in Machine : x.node = m.node /\ Change(c, m, x)
      BY <1>1, <3>1, VersionsAssumption DEF Machine
    <3> QED
      BY <1>n, <3>1, <3>2
  <2>2. CASE InitMaster(c)
    <3>1. PICK m \in Reached(c, me.mine) :
             IF m.ca # Absent THEN UNCHANGED vm /\ Proceed(c, [me EXCEPT !.token = m.ca])
             ELSE \E k \in Keys : /\ Change(c, m, [m EXCEPT !.ca = k])
                                  /\ Proceed(c, [me EXCEPT !.token = k])
      BY <2>2 DEF InitMaster
    <3>2. m \in vm[c] /\ m \in Machine /\ m.ca \in Keys \cup {Absent}
      BY <1>1 DEF Reached, Machine
    <3>3. CASE m.ca # Absent
      BY <1>n, <3>1, <3>2, <3>3
    <3>4. CASE m.ca = Absent
      <4>1. PICK k \in Keys : /\ Change(c, m, [m EXCEPT !.ca = k])
                              /\ Proceed(c, [me EXCEPT !.token = k])
        BY <3>1, <3>4
      <4>2. [m EXCEPT !.ca = k] \in Machine /\ [m EXCEPT !.ca = k].node = m.node
        BY <3>2 DEF Machine
      <4> QED
        BY <1>n, <3>2, <4>1, <4>2
    <3> QED
      BY <3>3, <3>4
  <2>3. CASE JoinWorker(c)
    <3>1. PICK m \in Reached(c, me.mine) :
             /\ Change(c, m, IF m.ca # Absent THEN m ELSE [m EXCEPT !.ca = me.token])
             /\ Loop(c, me, Workers - 1)
      BY <2>3 DEF JoinWorker
    <3>2. m \in vm[c] /\ m \in Machine
      BY <1>1 DEF Reached
    <3>3. [m EXCEPT !.ca = me.token] \in Machine /\ [m EXCEPT !.ca = me.token].node = m.node
      BY <1>1, <3>2 DEF Machine, Command
    <3> QED
      BY <1>1, <1>n, <3>1, <3>2, <3>3
  <2> QED
    BY <2>1, <2>2, <2>3
<1>5. n \in Command /\ n.op = me.op /\ n.at = me.at
  BY <1>4
<1>6. LowNodes(c)' /\ Unique(c)' /\ \A d \in Names \ {c} : vm'[d] = vm[d]
  <2>1. CASE UNCHANGED vm
    BY <2>1, KeptFewer DEF Consistent, Kept
  <2>2. CASE Shifted(m)
    BY <1>1, <2>2, KeptChanged DEF Consistent, Kept, Change
  <2> QED
    BY <1>4, <2>1, <2>2
<1>7. Consistent(c)' /\ \A d \in Names \ {c} : said'[d] = said[d]
  <2>1. CASE Proceed(c, n)
    BY <1>1, <1>2, <1>3, <1>5, <1>6, <2>1, GoodProceed
  <2>2. CASE \E last \in {Workers, Workers - 1} : Loop(c, n, last)
    BY <1>1, <1>2, <1>3, <1>5, <1>6, <2>2, GoodLoop
  <2> QED
    BY <1>4, <2>1, <2>2
<1> QED
  BY <1>2, <1>6, <1>7 DEF Good, Apart

-----------------------------------------------------------------------------
(* Making machines *)

\* A machine nobody of the cluster has the name of.
LEMMA GoodProvision ==
    ASSUME TypeInv, NEW c \in Names, Consistent(c), cloud' = cloud,
           NEW node, NEW version, Provision(c, node, version),
           UNCHANGED <<registered, parts, said>>,
           cloud # "digitalocean" => node <= Workers,
           cloud \notin {"civo", "aws"} /\ node <= Workers => \A m \in vm[c] : m.node # node,
           cli[c].op # "delete", cli[c].op # "none",
           cloud = "digitalocean" /\ cli[c].op = "create" =>
               cli[c].at = "machine" /\ node = cli[c].next /\ node \in Nat
    PROVE  Good(c)
<1>1. TypeOK /\ cli[c] \in Command
  BY DEF TypeInv, TypeOK
<1>2. PICK k \in Copies :
         /\ vm' = [vm EXCEPT ![c] = @ \cup {Made(c, node, k, version)}]
         /\ cli' = [cli EXCEPT ![c].at = "await",
                              ![c].mine = @ \cup {[node |-> node, copy |-> k, addr |-> TRUE]}]
  BY DEF Provision
<1>3. Made(c, node, k, version).node = node
  BY DEF Made
<1>4. vm'[c] = vm[c] \cup {Made(c, node, k, version)} /\ \A d \in Names \ {c} : vm'[d] = vm[d]
  BY <1>1, <1>2 DEF TypeOK
<1>5. /\ cli'[c].op = cli[c].op /\ cli'[c].at = "await" /\ cli'[c].next = cli[c].next
      /\ cli'[c].seen = cli[c].seen
  BY <1>1, <1>2 DEF TypeOK, Command
<1>6. LowNodes(c)' /\ Unique(c)' /\ Proper(c)'
  BY <1>3, <1>4 DEF Consistent, Kept, LowNodes, Unique, Proper, Registers
<1>7. Looked(c)'
  <2> SUFFICES ASSUME cloud = "digitalocean", cli[c].op = "create",
                      NEW m \in vm'[c], m.node <= Workers, cli[c].next < m.node
               PROVE  \E r \in cli[c].seen : r.node = m.node
    BY <1>5 DEF Looked
  <2>1. m # Made(c, node, k, version)
    BY <1>3
  <2>2. m \in vm[c] /\ m.node \in Nat /\ cli[c].next \in Nat
    BY <1>1, <1>4, <2>1, WorkersAssumption DEF TypeOK, Machine, Nodes, Command
  <2> QED
    BY <2>2 DEF Consistent, Looked
<1>8. Cleared(c)' /\ Gone(c)'
  BY <1>5 DEF Consistent, Cleared, Gone
<1> QED
  BY <1>4, <1>6, <1>7, <1>8 DEF Good, Apart, Consistent, Kept

LEMMA GoodCreateMachine ==
    ASSUME TypeInv, NEW c \in Names, Consistent(c), cloud' = cloud, CreateMachine(c)
    PROVE  Good(c)
<1> DEFINE me == cli[c]
           n == me.next
           known == IF cloud = "digitalocean" THEN {r \in me.seen : r.node = n}
                    ELSE IF cloud = "azure" THEN {[RefTo(m) EXCEPT !.addr = TRUE] :
                                                    m \in {x \in vm[c] : x.node = n}}
                    ELSE {}
<1>1. /\ me \in Command /\ TypeOK /\ me.at = "machine" /\ me.op = "create"
      /\ me.next \in Nat /\ me.next <= Workers /\ cloud \in SixClouds
      /\ me.at \in StepsOf(cloud, "create")
      /\ said[c] # "deleted"
  BY CloudSix, OpAt DEF TypeInv, TypeOK, Placed, CreateMachine, At, Command, Consistent, Gone
<1>2. /\ IF known # {}
         THEN /\ \E r \in known : Loop(c, [me EXCEPT !.mine = @ \cup {r}], Workers)
              /\ UNCHANGED vm
         ELSE IF Lost(c) \/ (cloud = "gcp" /\ \E m \in vm[c] : m.node = n)
         THEN End(c, "failed") /\ UNCHANGED vm
         ELSE Provision(c, n, Asked) /\ UNCHANGED said
      /\ UNCHANGED <<cloud, registered, parts>>
  BY DEF CreateMachine
<1>3. Proper(c)'
  BY <1>2 DEF Consistent, Kept, Proper, Registers
<1>4. (known # {} /\ UNCHANGED vm) \/ known = {}
  BY <1>2
<1>5. CASE known # {}
  <2>1. UNCHANGED vm /\ LowNodes(c)' /\ Unique(c)'
    BY <1>2, <1>5, KeptFewer DEF Consistent, Kept
  <2>2. PICK r \in known : Loop(c, [me EXCEPT !.mine = @ \cup {r}], Workers)
    BY <1>2, <1>5
  <2>3. r \in Ref
    <3>1. ASSUME NEW m \in vm[c] PROVE [RefTo(m) EXCEPT !.addr = TRUE] \in Ref
      <4>1. m \in Machine
        BY <1>1 DEF TypeOK
      <4> QED
        BY <4>1 DEF Machine, RefTo, Ref
    <3> QED
      BY <1>1, <2>2, <3>1 DEF Command
  <2> DEFINE me2 == [me EXCEPT !.mine = @ \cup {r}]
  <2>4. /\ me2 \in Command /\ me2.at = "machine" /\ me2.op = "create" /\ me2.next = me.next
        /\ me2.seen = me.seen
    BY <1>1, <2>3 DEF Command
  <2>5. Loop(c, me2, Workers)
    BY <2>2
  <2> HIDE DEF me2, known
  <2>6. CASE Proceed(c, me2)
    <3>1. Consistent(c)' /\ \A d \in Names \ {c} : said'[d] = said[d]
      BY <1>1, <1>2, <1>3, <2>1, <2>4, <2>6, GoodProceed
    <3> QED
      BY <1>2, <2>1, <3>1 DEF Good, Apart
  <2>7. CASE Becomes(c, [me2 EXCEPT !.next = @ + 1]) /\ UNCHANGED said
    <3>1. cli'[c] = [me2 EXCEPT !.next = @ + 1]
      BY <1>1, <2>7 DEF Becomes, TypeOK
    <3>2. /\ cli'[c].op = "create" /\ cli'[c].at = "machine" /\ cli'[c].next = me.next + 1
          /\ cli'[c].seen = me.seen
      BY <2>4, <3>1, Counted
    <3>3. \A m \in vm[c] : m.node \in Nat
      BY <1>1, WorkersAssumption DEF TypeOK, Machine, Nodes
    <3>4. Looked(c)'
      BY <1>1, <1>2, <2>1, <3>2, <3>3 DEF Consistent, Looked
    <3> QED
      BY <1>1, <1>2, <1>3, <2>1, <2>7, <3>2, <3>4
         DEF Good, Apart, Consistent, Kept, Cleared, Gone
  <2>8. me2.op \in Ops
    BY <2>4 DEF Ops
  <2> QED
    BY <1>1, <2>4, <2>5, <2>6, <2>7, <2>8, Looped
<1>6. CASE known = {} /\ (Lost(c) \/ (cloud = "gcp" /\ \E m \in vm[c] : m.node = n))
  <2>1. UNCHANGED vm /\ LowNodes(c)' /\ Unique(c)' /\ End(c, "failed")
    BY <1>2, <1>6, KeptFewer DEF Consistent, Kept
  <2>2. Consistent(c)' /\ \A d \in Names \ {c} : said'[d] = said[d]
    BY <1>2, <1>3, <2>1, GoodEnd
  <2> QED
    BY <1>2, <2>1, <2>2 DEF Good, Apart
<1>7. CASE known = {} /\ ~(Lost(c) \/ (cloud = "gcp" /\ \E m \in vm[c] : m.node = n))
  <2>1. Provision(c, n, Asked) /\ UNCHANGED said
    BY <1>2, <1>7
  <2>2. cloud \notin {"civo", "aws"} => \A m \in vm[c] : m.node # n
    <3>1. CASE cloud = "digitalocean"
      BY <1>1, <1>7, <3>1, WorkersAssumption DEF Consistent, Looked
    <3>2. CASE cloud = "azure"
      BY <1>7, <3>2
    <3>3. cloud # "custom"
      BY <1>1 DEF StepsOf, CreateSteps
    <3> QED
      BY <1>1, <1>7, <3>1, <3>2, <3>3 DEF SixClouds
  <2> HIDE DEF known
  <2> QED
    BY <1>1, <1>2, <2>1, <2>2, GoodProvision
<1> QED
  BY <1>5, <1>6, <1>7

LEMMA GoodGrow ==
    ASSUME TypeInv, NEW c \in Names, Consistent(c), cloud' = cloud, Grow(c)
    PROVE  Good(c)
<1>1. /\ cli[c] \in Command /\ TypeOK /\ cli[c].op = "scale" /\ cloud = "digitalocean"
      /\ cli[c].next \in Nat /\ cli[c].next >= 1
      /\ UNCHANGED <<registered, parts>>
  BY OpAt DEF TypeInv, TypeOK, Placed, Grow, At, Command
<1>2. Workers + cli[c].next > Workers
  BY <1>1, WorkersAssumption
<1>3. CASE End(c, "scaled") /\ UNCHANGED vm
  <2>1. (LowNodes(c) /\ Unique(c) /\ Proper(c))'
    BY <1>1, <1>3, KeptFewer DEF Consistent, Kept, Proper, Registers
  <2>2. Consistent(c)' /\ \A d \in Names \ {c} : said'[d] = said[d]
    BY <1>3, <2>1, GoodEnd
  <2> QED
    BY <1>1, <1>3, <2>2 DEF Good, Apart
<1>4. CASE Provision(c, Workers + cli[c].next, Default) /\ UNCHANGED said
  <2>1. ~(Workers + cli[c].next <= Workers)
    BY <1>1, WorkersAssumption
  <2> QED
    BY <1>1, <1>4, <2>1, GoodProvision
<1> QED
  BY <1>3, <1>4 DEF Grow

LEMMA GoodAwait ==
    ASSUME TypeInv, NEW c \in Names, Consistent(c), cloud' = cloud, Await(c)
    PROVE  Good(c)
<1> DEFINE me == cli[c]
           n == [me EXCEPT !.at = "machine"]
<1>1. /\ me \in Command /\ TypeOK /\ me.at = "await" /\ me.op \in {"create", "scale"}
      /\ me.next \in Nat /\ cloud \in SixClouds /\ me.at \in StepsOf(cloud, me.op)
      /\ said[c] # "deleted" /\ me.op \in Ops
  BY CloudSix, OpAt DEF TypeInv, TypeOK, Placed, Await, At, Command, Consistent, Gone
<1>2. UNCHANGED <<registered, parts, vm>>
  BY DEF Await, account
<1>3. LowNodes(c)' /\ Unique(c)' /\ Proper(c)'
  BY <1>2, KeptFewer DEF Consistent, Kept, Proper, Registers
<1>4. CASE me.op = "create"
  <2>1. Loop(c, n, Workers)
    BY <1>4 DEF Await
  <2>2. /\ n \in Command /\ n.at = "machine" /\ n.op = "create" /\ n.next = me.next
        /\ n.seen = me.seen
    BY <1>1, <1>4 DEF Command, Steps
  <2>3. n.at \in StepsOf(cloud, "create")
    BY <1>1, <1>4, <2>2 DEF StepsOf, CreateSteps, SixClouds
  <2> HIDE DEF n
  <2>4. CASE Proceed(c, n)
    <3>1. Consistent(c)' /\ \A d \in Names \ {c} : said'[d] = said[d]
      BY <1>1, <1>3, <1>4, <2>2, <2>3, <2>4, GoodProceed
    <3> QED
      BY <1>2, <3>1 DEF Good, Apart
  <2>5. CASE Becomes(c, [n EXCEPT !.next = @ + 1]) /\ UNCHANGED said
    <3>1. cli'[c] = [n EXCEPT !.next = @ + 1]
      BY <1>1, <2>5 DEF Becomes, TypeOK
    <3>2. /\ cli'[c].op = "create" /\ cli'[c].at = "machine" /\ cli'[c].next = me.next + 1
          /\ cli'[c].seen = me.seen
      BY <2>2, <3>1, Counted
    <3>3. \A m \in vm[c] : m.node \in Nat
      BY <1>1, WorkersAssumption DEF TypeOK, Machine, Nodes
    <3>4. Looked(c)'
      BY <1>1, <1>2, <1>4, <3>2, <3>3 DEF Consistent, Looked
    <3> QED
      BY <1>1, <1>2, <1>3, <2>5, <3>2, <3>4 DEF Good, Apart, Consistent, Kept, Cleared, Gone
  <2>6. n.op \in Ops
    BY <2>2 DEF Ops
  <2> QED
    BY <1>1, <2>1, <2>2, <2>4, <2>5, <2>6, Looped
<1>5. CASE me.op # "create"
  <2>1. cli' = [cli EXCEPT ![c].at = "joinNew"] /\ UNCHANGED said
    BY <1>5 DEF Await
  <2>2. cli'[c].op = "scale"
    BY <1>1, <1>5, <2>1 DEF TypeOK, Command
  <2>3. Consistent(c)'
    BY <1>1, <1>3, <2>1, <2>2, QuietStep DEF Quiet
  <2> QED
    BY <1>2, <2>1, <2>3 DEF Good, Apart
<1> QED
  BY <1>4, <1>5

-----------------------------------------------------------------------------
(* Beginning, stopping, and the cloud itself *)

LEMMA GoodControl ==
    ASSUME TypeInv, NEW c \in Names, Consistent(c), cloud' = cloud,
           Stops(c) \/ TimesOut(c) \/ Aborts(c)
    PROVE  Good(c)
<1>1. /\ cli \in [Names -> Command] /\ TypeOK
      /\ parts \in [Names -> SUBSET {"network", "subnets", "firewall", "foreign"}]
  BY DEF TypeInv, TypeOK
<1>2. UNCHANGED <<registered, vm>> /\ \A d \in Names \ {c} : parts'[d] = parts[d]
  BY <1>1 DEF Stops, TimesOut, Aborts, account
<1>3. LowNodes(c)' /\ Unique(c)' /\ Proper(c)'
  BY <1>1, <1>2 DEF Stops, TimesOut, Aborts, account, Consistent, Kept, LowNodes, Unique,
                    Proper, Registers
<1>4. CASE Stops(c) \/ TimesOut(c)
  <2>1. End(c, "failed")
    BY <1>4 DEF Stops, TimesOut
  <2>2. Consistent(c)' /\ \A d \in Names \ {c} : said'[d] = said[d]
    BY <1>3, <2>1, GoodEnd
  <2> QED
    BY <1>2, <2>2 DEF Good, Apart
<1>5. CASE Aborts(c)
  <2>1. cli'[c].op = "abort" /\ said' = said
    BY <1>1, <1>5 DEF Aborts, NoCommand
  <2>2. said[c] # "deleted"
    BY <1>5 DEF Aborts, Consistent, Gone
  <2>3. Consistent(c)'
    BY <1>3, <2>1, <2>2, QuietStep DEF Quiet
  <2> QED
    BY <1>2, <2>1, <2>3 DEF Good, Apart
<1> QED
  BY <1>4, <1>5

LEMMA GoodStart ==
    ASSUME TypeInv, NEW c \in Names, Consistent(c), cloud' = cloud,
           NEW op \in {"create", "delete", "scale", "upgrade"}, NEW want, Start(c, op, want),
           op = "scale" => cloud = "digitalocean", op = "upgrade" => cloud # "gcp"
    PROVE  Good(c)
<1>1. /\ cli \in [Names -> Command] /\ said \in [Names -> Said] /\ cloud \in SixClouds
      /\ UNCHANGED <<registered, parts, vm>> /\ vm[c] \subseteq Machine
  BY CloudSix DEF TypeInv, TypeOK, Start, account
<1>2. /\ cli'[c].op = op /\ cli'[c].at = Program(op).start /\ cli'[c].next = 0
      /\ said'[c] = "nothing" /\ \A d \in Names \ {c} : said'[d] = said[d]
  BY <1>1 DEF Start, NoCommand
<1>3. LowNodes(c)' /\ Unique(c)' /\ Proper(c)'
  BY <1>1 DEF Consistent, Kept, LowNodes, Unique, Proper, Registers
<1>4. CASE op # "delete"
  <2>1. Quiet(cli'[c])
    BY <1>1, <1>2, <1>4, FirstPlaced DEF Quiet
  <2> QED
    BY <1>1, <1>2, <1>3, <2>1, QuietStep DEF Good, Apart
<1>5. CASE op = "delete"
  <2>1. Program("delete").start \in Taking
    BY <1>1 DEF SixClouds, Program, Taking, DigitalOceanDelete, CivoDelete, GcpDelete,
                AzureDelete, AwsDelete, CustomDelete
  <2>2. \A m \in vm[c] : m.node >= 0 /\ m.node \notin 1..0
    BY <1>1, WorkersAssumption DEF Machine, Nodes
  <2>3. Cleared(c)'
    BY <1>1, <1>2, <1>5, <2>1, <2>2 DEF Cleared, Done, Taking, NoFirewall, NoParts
  <2>4. Looked(c)' /\ Gone(c)'
    BY <1>2, <1>5 DEF Looked, Gone
  <2> QED
    BY <1>1, <1>2, <1>3, <2>3, <2>4 DEF Good, Apart, Consistent, Kept
<1> QED
  BY <1>4, <1>5

LEMMA GoodBoots ==
    ASSUME TypeInv, NEW c \in Names, Consistent(c), cloud' = cloud, Boots(c)
    PROVE  Good(c)
<1>1. PICK m \in vm[c] : Change(c, m, [m EXCEPT !.up = TRUE])
  BY DEF Boots
<1>2. m \in Machine /\ UNCHANGED <<registered, parts, cli, said>>
  BY <1>1 DEF Boots, TypeInv, TypeOK
<1> DEFINE n == [m EXCEPT !.up = TRUE]
<1>3. n.node = m.node /\ n.ca = m.ca
  BY <1>2 DEF Machine
<1>4. Change(c, m, n)
  BY <1>1
<1> HIDE DEF n
<1>5. LowNodes(c)' /\ Unique(c)' /\ vm'[c] = (vm[c] \ {m}) \cup {n}
  BY <1>1, <1>3, <1>4, KeptChanged DEF Consistent, Kept
<1>6. \A d \in Names \ {c} : vm'[d] = vm[d]
  BY <1>4 DEF Change, TypeInv, TypeOK
<1>7. Proper(c)' /\ Looked(c)'
  BY <1>1, <1>2, <1>3, <1>5 DEF Consistent, Kept, Proper, Looked, Registers
<1>8. Cleared(c)' /\ Gone(c)'
  BY <1>1, <1>2, <1>3, <1>5 DEF Consistent, Cleared, Done, Gone, Empty, Spared, Leaves, Foreign
<1> QED
  BY <1>2, <1>5, <1>6, <1>7, <1>8 DEF Good, Apart, Consistent, Kept

-----------------------------------------------------------------------------
(* Scaling and upgrading *)

LEMMA GoodOther ==
    ASSUME TypeInv, NEW c \in Names, Consistent(c), cloud' = cloud,
           \/ Survey(c) \/ JoinNew(c) \/ Shrink(c) \/ UpgradeMaster(c) \/ UpgradePassesOver(c)
           \/ UpgradeWorker(c)
    PROVE  Good(c)
<1> DEFINE me == cli[c]
<1>1. /\ cli \in [Names -> Command] /\ TypeOK /\ me \in Command
      /\ vm \in [Names -> SUBSET Machine]
      /\ said \in [Names -> Said]
      /\ registered \in [Names -> Keys \cup {Absent}]
      /\ parts \in [Names -> SUBSET {"network", "subnets", "firewall", "foreign"}]
  BY DEF TypeInv, TypeOK
<1>2. me.op \in {"scale", "upgrade"} /\ (me.op = "scale" => cloud = "digitalocean")
      /\ said[c] # "deleted"
  <2>1. me.at \in {"survey", "joinNew", "shrink", "upgradeMaster", "upgradeWorkers"}
    BY DEF Survey, JoinNew, Shrink, UpgradeMaster, UpgradePassesOver, UpgradeWorker, At
  <2> QED
    BY <2>1, OpAt DEF Consistent, Gone
<1>3. Proper(c)' /\ \A d \in Names \ {c} : parts'[d] = parts[d]
  <2>1. CASE Survey(c)
    <3>1. cloud = "digitalocean" /\ me.op = "scale"
      BY <2>1, OpAt DEF Survey, At
    <3> QED
      BY <1>1, <2>1, <3>1 DEF Survey, Consistent, Kept, Proper, Registers
  <2>2. CASE ~Survey(c)
    BY <2>2 DEF JoinNew, Shrink, UpgradeMaster, UpgradePassesOver, UpgradeWorker, Consistent,
                Kept, Proper, Registers, account
  <2> QED
    BY <2>1, <2>2
<1> DEFINE Shifted == \E m \in vm[c], n \in Machine : n.node = m.node /\ Change(c, m, n)
<1>4. \/ UNCHANGED vm \/ Shifted
      \/ vm' = [vm EXCEPT ![c] = vm'[c]] /\ vm'[c] \subseteq vm[c]
  <2>1. CASE Survey(c)
    BY <2>1 DEF Survey
  <2>2. CASE JoinNew(c)
    <3>1. PICK m \in Reached(c, me.mine) :
             UNCHANGED vm \/ Change(c, m, [m EXCEPT !.ca = me.token])
      BY <2>2 DEF JoinNew
    <3>2. m \in vm[c] /\ m \in Machine
      BY <1>1 DEF Reached
    <3>3. [m EXCEPT !.ca = me.token] \in Machine /\ [m EXCEPT !.ca = me.token].node = m.node
      BY <1>1, <3>2 DEF Machine, Command
    <3> QED
      BY <3>1, <3>2, <3>3
  <2>3. CASE Shrink(c)
    BY <1>1, <2>3 DEF Shrink
  <2>4. ASSUME NEW m \in vm[c], Change(c, m, [m EXCEPT !.version = Target]) PROVE Shifted
    <3>1. m \in Machine
      BY <1>1
    <3>2. [m EXCEPT !.version = Target] \in Machine
          /\ [m EXCEPT !.version = Target].node = m.node
      BY <3>1, VersionsAssumption DEF Machine
    <3> QED
      BY <2>4, <3>2
  <2>5. CASE UpgradeMaster(c) \/ UpgradePassesOver(c)
    <3>1. UNCHANGED vm \/ \E m \in ControlPlanes(c) : Change(c, m, [m EXCEPT !.version = Target])
      BY <2>5 DEF UpgradeMaster, UpgradePassesOver, UpgradeWith
    <3>2. ControlPlanes(c) \subseteq vm[c]
      BY DEF ControlPlanes, Masters
    <3> QED
      BY <2>4, <3>1, <3>2
  <2>6. CASE UpgradeWorker(c)
    <3>1. UNCHANGED vm \/ \E m \in vm[c] : Change(c, m, [m EXCEPT !.version = Target])
      BY <2>6 DEF UpgradeWorker
    <3> QED
      BY <2>4, <3>1
  <2> QED
    BY <2>1, <2>2, <2>3, <2>5, <2>6
<1>5. LowNodes(c)' /\ Unique(c)' /\ \A d \in Names \ {c} : vm'[d] = vm[d]
  <2>1. CASE UNCHANGED vm \/ (vm' = [vm EXCEPT ![c] = vm'[c]] /\ vm'[c] \subseteq vm[c])
    <3>1. vm'[c] \subseteq vm[c] /\ \A d \in Names \ {c} : vm'[d] = vm[d]
      BY <1>1, <2>1
    <3> QED
      BY <3>1, KeptFewer DEF Consistent, Kept
  <2>2. CASE Shifted
    BY <1>1, <2>2, KeptChanged DEF Consistent, Kept, Change
  <2> QED
    BY <1>4, <2>1, <2>2
<1>6. \/ \E answer \in {"failed", "scaled", "upgraded", "partial"} : End(c, answer)
      \/ cli'[c].op = me.op /\ said' = said
  <2>1. CASE Survey(c)
    <3> DEFINE refs == {RefTo(m) : m \in Others(c)}
    <3>1. \/ \E answer \in {"failed", "scaled"} : End(c, answer)
          \/ GoTo(c, [me EXCEPT !.seen = refs], "shrink")
          \/ \E m \in Masters(c) :
               /\ cli' = [cli EXCEPT ![c] = [me EXCEPT
                         !.at = "grow", !.next = Cardinality(Others(c)) + 1, !.token = m.ca]]
               /\ UNCHANGED said
      BY <2>1 DEF Survey
    <3> HIDE DEF refs
    <3> QED
      BY <1>1, <3>1 DEF GoTo, Command
  <2>2. CASE JoinNew(c)
    BY <1>1, <2>2 DEF JoinNew, Command
  <2>3. CASE Shrink(c)
    BY <1>1, <2>3 DEF Shrink, Command
  <2>4. CASE UpgradeMaster(c) \/ UpgradePassesOver(c)
    <3>1. CASE End(c, "failed")
      BY <3>1
    <3>2. CASE \E read \in SUBSET UpgradeWorkersOf(c) : UpgradeWith(c, read)
      <4>1. PICK refs, lost : GoTo(c, [me EXCEPT !.seen = refs, !.missed = lost],
                                   "upgradeWorkers")
        BY <3>2 DEF UpgradeWith
      <4> QED
        BY <1>1, <4>1 DEF GoTo, Command
    <3> QED
      BY <2>4, <3>1, <3>2 DEF UpgradeMaster, UpgradePassesOver
  <2>5. CASE UpgradeWorker(c)
    <3>1. CASE me.seen = {}
      BY <1>2, <2>5, <3>1 DEF UpgradeWorker, GoTo, Answer
    <3>2. CASE me.seen # {}
      BY <1>1, <2>5, <3>2 DEF UpgradeWorker, Command
    <3> QED
      BY <3>1, <3>2
  <2> QED
    BY <2>1, <2>2, <2>3, <2>4, <2>5
<1>7. CASE \E answer \in {"failed", "scaled", "upgraded", "partial"} : End(c, answer)
  <2>1. Consistent(c)' /\ \A d \in Names \ {c} : said'[d] = said[d]
    BY <1>3, <1>5, <1>7, GoodEnd
  <2> QED
    BY <1>3, <1>5, <2>1 DEF Good, Apart
<1>8. CASE cli'[c].op = me.op /\ said' = said
  <2>1. Consistent(c)'
    BY <1>2, <1>3, <1>5, <1>8, QuietStep DEF Quiet
  <2> QED
    BY <1>3, <1>5, <1>8, <2>1 DEF Good, Apart
<1> QED
  BY <1>6, <1>7, <1>8

-----------------------------------------------------------------------------
(* Deletion *)

LEMMA GoodDrop ==
    ASSUME TypeInv, NEW c \in Names, Consistent(c), cloud' = cloud,
           cli[c].op \in {"delete", "abort"},
           NEW n \in Command, n.at = cli[c].at, n.op = cli[c].op, Proceed(c, n),
           (LowNodes(c) /\ Unique(c) /\ Proper(c))',
           n.op = "delete" /\ ~n.missed /\ ~Spared(c)' => Did(c, n.at)'
    PROVE  Consistent(c)' /\ \A d \in Names \ {c} : said'[d] = said[d]
<1>1. /\ TypeOK /\ n.op \in Ops /\ n.at \in StepsOf(cloud, n.op) /\ cloud \in SixClouds
      /\ cli \in [Names -> Command]
  BY CloudSix DEF TypeInv, TypeOK, Placed, Ops
<1>2. n.at # "await"
  BY <1>1 DEF StepsOf, DeleteSteps, SixClouds
<1>3. \A d \in Names \ {c} : said'[d] = said[d]
  <2>1. Becomes(c, Advanced(n))
    BY <1>1, Proceeded
  <2> QED
    BY <2>1 DEF Becomes
<1>4. CASE n.op = "delete"
  BY <1>1, <1>3, <1>4, DeletionGoesOn
<1>5. CASE n.op = "abort"
  BY <1>1, <1>2, <1>3, <1>5, GoodProceed
<1> QED
  BY <1>4, <1>5

\* What the deletion knows when none of its calls failed.
LEMMA DoneNow ==
    ASSUME NEW c \in Names, Consistent(c), cli[c].op = "delete", ~cli[c].missed, ~Spared(c)
    PROVE  Done(c, cli[c])
  BY DEF Consistent, Cleared

\* Steps of a deletion that take no machine away.
LEMMA GoodPartsDrop ==
    ASSUME TypeInv, NEW c \in Names, Consistent(c), cloud' = cloud, Foreign(c)' = Foreign(c),
           \/ DropFirewall(c) \/ DropNetwork(c) \/ DropSubnets(c) \/ Sweep(c) \/ SweepEmpty(c)
           \/ DropKey(c) \/ Untrack(c) \/ Forget(c)
    PROVE  Good(c)
<1> DEFINE me == cli[c]
<1>1. /\ me \in Command /\ TypeOK /\ me.at \in StepsOf(cloud, me.op) /\ cloud \in SixClouds
      /\ parts \in [Names -> SUBSET {"network", "subnets", "firewall", "foreign"}]
      /\ registered \in [Names -> Keys \cup {Absent}]
      /\ me.missed \in BOOLEAN
  BY CloudSix DEF TypeInv, TypeOK, Placed, Command
<1>2. /\ me.at \in {"dropFirewall", "dropNetwork", "dropSubnets", "sweep", "sweepEmpty",
                    "dropKey", "untrack", "forget"}
      /\ vm' = vm
  BY DEF DropFirewall, DropNetwork, DropSubnets, Sweep, SweepEmpty, DropKey, Untrack, Forget,
         At, account
<1>3. me.op \in {"delete", "abort"}
  BY <1>2, OpAt
<1>4. LowNodes(c)' /\ Unique(c)'
  BY <1>2, KeptFewer DEF Consistent, Kept
<1>5. /\ Proper(c)'
      /\ \A d \in Names : parts'[d] \subseteq parts[d]
      /\ registered'[c] \in {registered[c], Absent}
  <2> USE <1>1 DEF Consistent, Kept, Proper, Registers
  <2>1. CASE DropFirewall(c)
    BY <2>1 DEF DropFirewall
  <2>2. CASE DropNetwork(c)
    BY <2>2 DEF DropNetwork
  <2>3. CASE DropSubnets(c)
    BY <2>3 DEF DropSubnets
  <2>4. CASE Sweep(c)
    BY <2>4 DEF Sweep
  <2>5. CASE SweepEmpty(c)
    BY <2>5 DEF SweepEmpty
  <2>6. CASE DropKey(c) \/ Untrack(c) \/ Forget(c)
    BY <2>6 DEF DropKey, Untrack, Forget, account
  <2> QED
    BY <2>1, <2>2, <2>3, <2>4, <2>5, <2>6
<1>6. \E n \in Command :
        /\ n.at = me.at /\ n.op = me.op /\ Proceed(c, n)
        /\ n.op = "delete" /\ ~n.missed /\ ~Spared(c)' => Did(c, n.at)'
  <2>f. Leaves(c)' = Leaves(c) /\ Spared(c)' = Spared(c)
    BY DEF Leaves, Spared
  <2>a. me.op = "delete" /\ ~me.missed /\ ~Spared(c)' =>
            /\ vm[c] = {}
            /\ me.at \in NoFirewall => "firewall" \notin parts[c]
            /\ me.at \in NoParts => parts[c] \subseteq Leaves(c)'
            /\ me.at = "forget" => registered[c] = Absent
    BY <1>2, <2>f, DoneNow DEF Done, Taking
  <2>b. me.at # "sweepEmpty" => (me.op = "delete" /\ me.at \in DeleteSteps(cloud)) \/ me.op = "abort"
    BY <1>1, <1>3 DEF StepsOf
  <2>1. CASE DropFirewall(c)
    <3>1. [me EXCEPT !.missed = @ \/ (cloud = "gcp" /\ "firewall" \notin parts[c])] \in Command
      BY <1>1 DEF Command
    <3>2. PICK n \in Command :
             n = [me EXCEPT !.missed = @ \/ (cloud = "gcp" /\ "firewall" \notin parts[c])]
      BY <3>1
    <3>3. /\ n.at = me.at /\ n.op = me.op /\ Proceed(c, n) /\ (~n.missed => ~me.missed)
          /\ me.at = "dropFirewall"
      BY <1>1, <2>1, <3>2 DEF DropFirewall, Command, At
    <3>4. vm[c] = {} => "firewall" \notin parts'[c]
      BY <1>1, <2>1 DEF DropFirewall, Held
    <3>5. n.op = "delete" /\ ~n.missed /\ ~Spared(c)' => Did(c, n.at)'
      BY <1>2, <2>a, <3>3, <3>4 DEF Did, NoFirewall, NoParts, Taking
    <3> QED
      BY <3>3, <3>5
  <2>2. CASE DropNetwork(c)
    <3>0. me.at = "dropNetwork" /\ c \in Mates(c) /\ [me EXCEPT !.missed = me.missed] = me
      BY <1>1, <2>2 DEF DropNetwork, At, Mates, Command
    <3>1. PICK lost \in BOOLEAN :
             /\ Proceed(c, [me EXCEPT !.missed = lost])
             /\ ~lost => /\ ~me.missed
                         /\ Foreign(c) \/ "network" \notin parts'[c]
      <4>1. CASE Foreign(c)
        BY <1>1, <2>2, <3>0, <4>1 DEF DropNetwork
      <4>2. CASE ~Foreign(c)
        BY <1>1, <2>2, <3>0, <4>2 DEF DropNetwork
      <4> QED
        BY <4>1, <4>2
    <3>2. PICK n \in Command : n = [me EXCEPT !.missed = lost]
      <4>1. [me EXCEPT !.missed = lost] \in Command
        BY <1>1 DEF Command
      <4> QED
        BY <4>1
    <3>3. n.at = me.at /\ n.op = me.op /\ Proceed(c, n) /\ n.missed = lost
      BY <1>1, <3>1, <3>2 DEF Command
    <3>4. cloud # "aws"
      BY <1>1, <3>0 DEF StepsOf, CreateSteps, DeleteSteps, SixClouds
    <3>6. "subnets" \notin parts[c] /\ parts'[c] \subseteq parts[c]
      BY <1>5, <3>4 DEF Consistent, Kept, Proper
    <3>7. n.op = "delete" /\ ~n.missed /\ ~Spared(c)' => parts'[c] \subseteq Leaves(c)'
      <4> SUFFICES ASSUME n.op = "delete", ~n.missed, ~Spared(c)'
                   PROVE  parts'[c] \subseteq Leaves(c)'
        OBVIOUS
      <4>1. "firewall" \notin parts[c]
        BY <2>a, <3>0, <3>1, <3>3 DEF NoFirewall
      <4>2. parts'[c] \subseteq {"network", "foreign"}
        BY <1>1, <3>6, <4>1
      <4> QED
        BY <1>5, <2>f, <3>1, <3>3, <4>2 DEF Leaves, Foreign
    <3>8. n.op = "delete" /\ ~n.missed /\ ~Spared(c)' => Did(c, n.at)'
      BY <1>2, <2>a, <3>0, <3>1, <3>3, <3>6, <3>7 DEF Did, NoFirewall, NoParts
    <3> QED
      BY <3>3, <3>8
  <2> DEFINE Went(n) == n \in Command /\ n = me /\ Proceed(c, n)
  <2>w. ASSUME Proceed(c, me) PROVE \E n \in Command : Went(n)
    BY <1>1, <2>w
  <2>3. CASE DropSubnets(c) \/ Untrack(c)
    <3>1. PICK n \in Command : Went(n)
      BY <2>3, <2>w DEF DropSubnets, Untrack
    <3>2. n.at \in {"dropSubnets", "untrack"} /\ parts'[c] \subseteq parts[c]
      BY <1>5, <2>3, <3>1 DEF DropSubnets, Untrack, At
    <3>3. n.op = "delete" /\ ~n.missed /\ ~Spared(c)' => Did(c, n.at)'
      BY <1>2, <2>a, <3>1, <3>2 DEF Did, NoFirewall, NoParts
    <3> QED
      BY <3>1, <3>3
  <2>4. CASE Sweep(c)
    <3>1. PICK n \in Command : Went(n)
      BY <2>4, <2>w DEF Sweep
    <3>2. n.at = "sweep" /\ (vm[c] = {} => parts'[c] = {})
      BY <2>4, <3>1 DEF Sweep, At
    <3>3. n.op = "delete" /\ ~n.missed /\ ~Spared(c)' => Did(c, n.at)'
      BY <1>2, <2>a, <3>1, <3>2 DEF Did, NoFirewall, NoParts
    <3> QED
      BY <3>1, <3>3
  <2>5. CASE SweepEmpty(c)
    <3>1. PICK n \in Command : Went(n)
      BY <2>5, <2>w DEF SweepEmpty
    <3>2. n.at = "sweepEmpty"
      BY <2>5, <3>1 DEF SweepEmpty, At
    <3>3. n.op # "delete"
      BY <1>1, <3>1, <3>2 DEF StepsOf, DeleteSteps, SixClouds
    <3> QED
      BY <3>1, <3>3
  <2>6. CASE DropKey(c)
    <3>1. PICK n \in Command : Went(n)
      BY <2>6, <2>w DEF DropKey
    <3>2. n.at = "dropKey" /\ parts' = parts /\ registered'[c] = Absent
      BY <1>1, <2>6, <3>1 DEF DropKey, At
    <3>3. n.op = "delete" /\ ~n.missed /\ ~Spared(c)' => Did(c, n.at)'
      BY <1>2, <2>a, <3>1, <3>2 DEF Did, NoFirewall, NoParts
    <3> QED
      BY <3>1, <3>3
  <2>7. CASE Forget(c)
    <3>1. PICK n \in Command : Went(n)
      BY <2>7, <2>w DEF Forget
    <3>2. n.at = "forget" /\ parts' = parts /\ registered' = registered
      BY <2>7, <3>1 DEF Forget, At, account
    <3>3. n.op = "delete" /\ ~n.missed /\ ~Spared(c)' => Did(c, n.at)'
      BY <1>2, <2>a, <3>1, <3>2 DEF Did, NoFirewall, NoParts
    <3> QED
      BY <3>1, <3>3
  <2> QED
    BY <2>1, <2>2, <2>3, <2>4, <2>5, <2>6, <2>7
<1>7. Consistent(c)' /\ \A d \in Names \ {c} : said'[d] = said[d]
  BY <1>3, <1>4, <1>5, <1>6, GoodDrop
<1> QED
  BY <1>2, <1>5, <1>7 DEF Good, Apart

\* Steps that take the machines away all at once, and the one that takes tags off them.
LEMMA GoodMachinesDrop ==
    ASSUME TypeInv, NEW c \in Names, Consistent(c), cloud' = cloud,
           DropDroplets(c) \/ DropInstances(c) \/ DropGroup(c) \/ DropGroupFails(c) \/ DropTags(c)
    PROVE  Good(c)
<1> DEFINE me == cli[c]
<1>1. /\ me \in Command /\ TypeOK /\ me.at \in StepsOf(cloud, me.op) /\ cloud \in SixClouds
      /\ parts \in [Names -> SUBSET {"network", "subnets", "firewall", "foreign"}]
      /\ vm \in [Names -> SUBSET Machine]
      /\ me.missed \in BOOLEAN
  BY CloudSix DEF TypeInv, TypeOK, Placed, Command
<1>2. /\ me.at \in {"dropDroplets", "dropInstances", "dropGroup", "dropTags"}
      /\ registered' = registered
  BY DEF DropDroplets, DropInstances, DropGroup, DropGroupFails, DropTags, At
<1>3. me.op \in {"delete", "abort"}
  BY <1>2, OpAt
<1> DEFINE Went(n) == n \in Command /\ n = me /\ Proceed(c, n)
<1>w. ASSUME Proceed(c, me) PROVE \E n \in Command : Went(n)
  BY <1>1, <1>w
<1> DEFINE Other(d) == /\ parts'[d] \subseteq parts[d]
                       /\ \/ vm'[d] = vm[d]
                          \/ cloud = "azure" /\ Shares /\ me.op = "delete" /\ vm'[d] = {}
<1>d. ASSUME NEW n \in Command, n.at = me.at, n.op = me.op, Proceed(c, n),
             vm'[c] \subseteq vm[c], parts'[c] \subseteq parts[c],
             \A d \in Names \ {c} : Other(d),
             n.op = "delete" /\ ~n.missed /\ ~Spared(c)' => Did(c, n.at)'
      PROVE  Good(c)
  <2>1. (LowNodes(c) /\ Unique(c) /\ Proper(c))'
    BY <1>2, <1>d, KeptFewer DEF Consistent, Kept, Proper, Registers
  <2>2. Consistent(c)' /\ \A d \in Names \ {c} : said'[d] = said[d]
    BY <1>3, <1>d, <2>1, GoodDrop
  <2> QED
    BY <1>d, <2>2 DEF Good, Apart
<1>g. ASSUME DeleteGroup(c), me.at = "dropGroup"
      PROVE  /\ vm'[c] = {} /\ parts'[c] = {}
             /\ \A d \in Names \ {c} : Other(d)
  <2>1. cloud = "azure" /\ me.op = "delete"
    BY <1>1, <1>3, <1>g DEF StepsOf, DeleteSteps, SixClouds
  <2> QED
    BY <1>1, <1>g, <2>1 DEF DeleteGroup, Mates
<1>4. CASE DropDroplets(c)
  <2>1. PICK n \in Command : Went(n)
    BY <1>4, <1>w DEF DropDroplets
  <2>2. /\ vm'[c] = {} /\ parts' = parts /\ n.at = "dropDroplets"
        /\ \A d \in Names \ {c} : vm'[d] = vm[d]
    BY <1>1, <1>4, <2>1 DEF DropDroplets, At
  <2>3. Did(c, n.at)'
    BY <2>2 DEF Did, NoFirewall, NoParts
  <2> QED
    BY <1>d, <2>1, <2>2, <2>3
<1>5. CASE DropInstances(c)
  <2>1. me.at = "dropInstances" /\ parts' = parts /\ UNCHANGED <<registered, parts>>
    BY <1>5 DEF DropInstances, At
  <2>2. CASE vm[c] = {} /\ Proceed(c, me) /\ UNCHANGED vm
    <3>1. PICK n \in Command : Went(n)
      BY <1>w, <2>2
    <3>2. Did(c, n.at)'
      BY <2>1, <2>2, <3>1 DEF Did, NoFirewall, NoParts
    <3> QED
      BY <1>d, <2>1, <2>2, <3>1, <3>2
  <2>3. CASE /\ \E m \in vm[c] : vm' = [vm EXCEPT ![c] = @ \ {m}]
             /\ UNCHANGED <<cli, said>>
    <3>1. vm'[c] \subseteq vm[c] /\ \A d \in Names \ {c} : vm'[d] = vm[d]
      BY <1>1, <2>3
    <3>2. LowNodes(c)' /\ Unique(c)' /\ Proper(c)'
      BY <1>2, <2>1, <3>1, KeptFewer DEF Consistent, Kept, Proper, Registers
    <3>3. Cleared(c)'
      BY <2>1, <2>3 DEF Consistent, Cleared, Done, Taking, NoFirewall, NoParts
    <3>4. Looked(c)' /\ Gone(c)'
      BY <1>3, <2>3 DEF Consistent, Looked, Gone
    <3> QED
      BY <2>1, <2>3, <3>1, <3>2, <3>3, <3>4 DEF Good, Apart, Consistent, Kept
  <2> QED
    BY <1>5, <2>2, <2>3 DEF DropInstances
<1>6. CASE DropGroup(c)
  <2>1. me.at = "dropGroup"
    BY <1>6 DEF DropGroup, At
  <2>2. CASE ~Foreign(c) /\ Standing(c)
    <3>1. PICK n \in Command : Went(n)
      BY <1>6, <1>w, <2>2 DEF DropGroup
    <3>2. /\ vm'[c] = {} /\ parts'[c] = {}
          /\ \A d \in Names \ {c} : Other(d)
      BY <1>6, <1>g, <2>1, <2>2 DEF DropGroup
    <3>3. Did(c, n.at)'
      BY <2>1, <3>1, <3>2 DEF Did, NoParts
    <3> QED
      BY <1>d, <3>1, <3>2, <3>3
  <2>3. CASE ~(~Foreign(c) /\ Standing(c))
    <3>1. PICK n \in Command : n = [me EXCEPT !.missed = @ \/ ~Foreign(c)]
      <4>1. [me EXCEPT !.missed = @ \/ ~Foreign(c)] \in Command
        BY <1>1 DEF Command
      <4> QED
        BY <4>1
    <3>2. /\ n.at = me.at /\ n.op = me.op /\ (~Foreign(c) => n.missed)
          /\ Proceed(c, n) /\ UNCHANGED <<parts, vm>>
      BY <1>1, <1>6, <2>3, <3>1 DEF DropGroup, Command
    <3>3. cloud = "azure"
      BY <1>1, <1>3, <2>1 DEF StepsOf, DeleteSteps, SixClouds
    <3>4. Spared(c)' \/ n.missed
      BY <3>2, <3>3 DEF Spared, Foreign
    <3> QED
      BY <1>d, <3>2, <3>4
  <2> QED
    BY <2>2, <2>3
<1>7. CASE DropGroupFails(c)
  <2>1. /\ vm'[c] \subseteq vm[c] /\ parts'[c] \subseteq parts[c]
        /\ \A d \in Names \ {c} : Other(d)
        /\ End(c, "failed")
    BY <1>1, <1>7, <1>g DEF DropGroupFails, At
  <2>2. (LowNodes(c) /\ Unique(c) /\ Proper(c))'
    BY <1>2, <2>1, KeptFewer DEF Consistent, Kept, Proper, Registers
  <2>3. Consistent(c)' /\ \A d \in Names \ {c} : said'[d] = said[d]
    BY <2>1, <2>2, GoodEnd
  <2> QED
    BY <2>1, <2>3 DEF Good, Apart
<1>8. CASE DropTags(c)
  <2>1. PICK n \in Command : Went(n)
    BY <1>8, <1>w DEF DropTags
  <2>2. n.at = "dropTags" /\ parts' = parts /\ \A d \in Names : vm'[d] = Untagged(vm[d])
    BY <1>1, <1>8, <2>1 DEF DropTags, At, Untagged
  <2>3. (LowNodes(c) /\ Unique(c) /\ Proper(c))'
    BY <1>2, <2>2, KeptUntagged DEF Consistent, Kept, Proper, Registers
  <2>4. vm[c] = {} => vm'[c] = {}
    BY <2>2 DEF Untagged
  <2>5. n.op = "delete" /\ ~n.missed /\ ~Spared(c)' => Did(c, n.at)'
    BY <2>1, <2>2, <2>4, DoneNow
       DEF Done, Did, Taking, NoFirewall, NoParts, Spared, Leaves, Foreign
  <2>6. Consistent(c)' /\ \A d \in Names \ {c} : said'[d] = said[d]
    BY <1>3, <2>1, <2>3, <2>5, GoodDrop
  <2> QED
    BY <2>2, <2>6 DEF Good, Apart
<1> QED
  BY <1>4, <1>5, <1>6, <1>7, <1>8

LEMMA GoodDropTracked ==
    ASSUME TypeInv, NEW c \in Names, Consistent(c), cloud' = cloud, DropTracked(c)
    PROVE  Good(c)
<1> DEFINE me == cli[c]
           found == {m \in vm[c] : m.node = me.next}
<1>1. /\ me \in Command /\ TypeOK /\ me.at \in StepsOf(cloud, me.op) /\ cloud \in SixClouds
      /\ vm \in [Names -> SUBSET Machine] /\ me.missed \in BOOLEAN /\ me.next \in Nat
      /\ me.at = "dropTracked" /\ cli \in [Names -> Command]
      /\ \A m \in vm[c] : m.node \in Nat
  BY CloudSix, WorkersAssumption DEF TypeInv, TypeOK, Placed, Command, DropTracked, At, Machine, Nodes
<1>2. me.op = "delete" /\ cloud = "gcp"
  <2>1. me.op \in {"delete", "abort"}
    BY <1>1, OpAt
  <2> QED
    BY <1>1, <2>1 DEF StepsOf, DeleteSteps, SixClouds
<1>3. PICK n \in Command : n = [me EXCEPT !.missed = @ \/ found = {}]
  <2>1. [me EXCEPT !.missed = @ \/ found = {}] \in Command
    <3>1. (me.missed \/ found = {}) \in BOOLEAN
      OBVIOUS
    <3> HIDE DEF found
    <3> QED
      BY <1>1, <3>1 DEF Command
  <2> QED
    BY <2>1
<1>4. /\ n.at = "dropTracked" /\ n.op = "delete" /\ n.next = me.next /\ (~n.missed => ~me.missed)
  <2> HIDE DEF found
  <2> QED
    BY <1>1, <1>2, <1>3 DEF Command
<1>5. Loop(c, n, Workers) /\ UNCHANGED <<parts, registered>>
  BY <1>3 DEF DropTracked
<1>6. vm'[c] = vm[c] \ found /\ \A d \in Names \ {c} : vm'[d] = vm[d]
  BY <1>1 DEF DropTracked
<1>7. (LowNodes(c) /\ Unique(c) /\ Proper(c))'
  BY <1>5, <1>6, KeptFewer DEF Consistent, Kept, Proper, Registers
<1>8. ~n.missed => \A m \in vm'[c] : m.node >= me.next + 1
  BY <1>1, <1>2, <1>4, <1>6, DoneNow DEF Done, Spared
<1>9. CASE n.next < Workers /\ Becomes(c, [n EXCEPT !.next = @ + 1]) /\ UNCHANGED said
  <2>1. cli'[c] = [n EXCEPT !.next = @ + 1]
    BY <1>1, <1>9 DEF Becomes
  <2>2. /\ cli'[c].op = "delete" /\ cli'[c].at = "dropTracked" /\ cli'[c].next = me.next + 1
        /\ cli'[c].missed = n.missed
    BY <1>4, <2>1, Counted
  <2>3. Cleared(c)'
    BY <1>8, <2>2 DEF Cleared, Done, Taking, NoFirewall, NoParts
  <2>4. Looked(c)' /\ Gone(c)'
    BY <1>2, <1>9, <2>2 DEF Consistent, Looked, Gone
  <2> QED
    BY <1>5, <1>6, <1>7, <1>9, <2>3, <2>4 DEF Good, Apart, Consistent, Kept
<1>10. CASE ~(n.next < Workers) /\ Proceed(c, n)
  <2>1. ~n.missed => vm'[c] = {}
    <3> SUFFICES ASSUME ~n.missed, NEW m \in vm'[c] PROVE FALSE
      OBVIOUS
    <3>1. m.node >= me.next + 1 /\ m.node \in Nat
      BY <1>1, <1>6, <1>8
    <3>2. m.node <= Workers
      BY <1>2, <1>6 DEF Consistent, Kept, LowNodes
    <3> QED
      BY <1>1, <1>4, <1>10, <3>1, <3>2, WorkersAssumption
  <2>2. n.op = "delete" /\ ~n.missed /\ ~Spared(c)' => Did(c, n.at)'
    BY <1>4, <2>1 DEF Did, NoFirewall, NoParts
  <2>3. Consistent(c)' /\ \A d \in Names \ {c} : said'[d] = said[d]
    BY <1>1, <1>2, <1>4, <1>7, <1>10, <2>2, GoodDrop
  <2> QED
    BY <1>5, <1>6, <2>3 DEF Good, Apart
<1>11. n.op \in Ops
  BY <1>4 DEF Ops
<1> QED
  BY <1>1, <1>5, <1>9, <1>10, <1>11, Looped

LEMMA GoodReset ==
    ASSUME TypeInv, NEW c \in Names, Consistent(c), cloud' = cloud, Reset(c)
    PROVE  Good(c)
<1> DEFINE me == cli[c]
<1>1. /\ me \in Command /\ TypeOK /\ me.at \in StepsOf(cloud, me.op) /\ cloud \in SixClouds
      /\ vm \in [Names -> SUBSET Machine] /\ me.missed \in BOOLEAN /\ me.next \in Nat
      /\ me.at = "reset" /\ cli \in [Names -> Command]
      /\ \A m \in vm[c] : m.node \in Nat
  BY CloudSix, WorkersAssumption DEF TypeInv, TypeOK, Placed, Command, Reset, At, Machine, Nodes
<1>2. me.op = "delete" /\ cloud = "custom" /\ me.op \in Ops
  <2>1. me.op \in {"delete", "abort"}
    BY <1>1, OpAt
  <2> QED
    BY <1>1, <2>1 DEF StepsOf, DeleteSteps, SixClouds, Ops
<1>3. PICK n \in Command : n = me
  BY <1>1
<1>4. PICK m \in vm[c] :
         /\ m.node = (IF n.next < Workers THEN n.next + 1 ELSE 0)
         /\ Change(c, m, [m EXCEPT !.ca = Absent])
  BY <1>3 DEF Reset
<1>5. Loop(c, n, Workers) /\ UNCHANGED <<parts, registered>>
  BY <1>3 DEF Reset
<1> DEFINE x == [m EXCEPT !.ca = Absent]
<1>6. x.node = m.node /\ x.ca = Absent
  <2>1. m \in Machine
    BY <1>1
  <2> QED
    BY <2>1 DEF Machine
<1>7. Change(c, m, x)
  BY <1>4
<1> HIDE DEF x
<1>8. LowNodes(c)' /\ Unique(c)' /\ vm'[c] = (vm[c] \ {m}) \cup {x}
  BY <1>6, <1>7, KeptChanged DEF Consistent, Kept
<1>9. Proper(c)' /\ \A d \in Names \ {c} : vm'[d] = vm[d]
  BY <1>1, <1>5, <1>7 DEF Consistent, Kept, Proper, Registers, Change
<1>10. \A o \in vm[c] : o.node <= Workers
  BY <1>2 DEF Consistent, Kept, LowNodes
<1>11. \A o \in vm'[c] : o = x \/ (o \in vm[c] /\ o.node # m.node)
  BY <1>2, <1>8, <1>10 DEF Consistent, Kept, Unique
<1>12. ~me.missed => \A o \in vm[c] : o.node \in 1..me.next => o.ca = Absent
  BY <1>1, <1>2, DoneNow DEF Done, Spared
<1>13. CASE n.next < Workers /\ Becomes(c, [n EXCEPT !.next = @ + 1]) /\ UNCHANGED said
  <2>1. cli'[c] = [n EXCEPT !.next = @ + 1]
    BY <1>1, <1>13 DEF Becomes
  <2>2. /\ cli'[c].op = "delete" /\ cli'[c].at = "reset" /\ cli'[c].next = me.next + 1
        /\ cli'[c].missed = me.missed
    BY <1>1, <1>2, <1>3, <2>1, Counted
  <2>3. ~me.missed => \A o \in vm'[c] : o.node \in 1..(me.next + 1) => o.ca = Absent
    <3> SUFFICES ASSUME ~me.missed, NEW o \in vm'[c], o.node \in 1..(me.next + 1), o # x
                 PROVE  o.ca = Absent
      BY <1>6
    <3>1. o \in vm[c] /\ o.node # me.next + 1
      BY <1>3, <1>4, <1>11, <1>13
    <3>2. o.node \in 1..me.next
      BY <1>1, <3>1
    <3> QED
      BY <1>12, <3>1, <3>2
  <2>4. Cleared(c)'
    BY <2>2, <2>3 DEF Cleared, Done, Taking, NoFirewall, NoParts
  <2>5. Looked(c)' /\ Gone(c)'
    BY <1>2, <1>13, <2>2 DEF Consistent, Looked, Gone
  <2> QED
    BY <1>5, <1>8, <1>9, <1>13, <2>4, <2>5 DEF Good, Apart, Consistent, Kept
<1>14. CASE ~(n.next < Workers) /\ Proceed(c, n)
  <2>1. ~n.missed => \A o \in vm'[c] : o.ca = Absent
    <3> SUFFICES ASSUME ~n.missed, NEW o \in vm'[c], o # x
                 PROVE  o.ca = Absent
      BY <1>6
    <3>1. o \in vm[c] /\ o.node # 0
      BY <1>4, <1>11, <1>14
    <3>2. o.node \in 1..me.next
      BY <1>1, <1>3, <1>10, <1>14, <3>1, WorkersAssumption
    <3> QED
      BY <1>3, <1>12, <3>1, <3>2
  <2>2. n.op = "delete" /\ ~n.missed /\ ~Spared(c)' => Did(c, n.at)'
    BY <1>1, <1>3, <2>1 DEF Did, NoFirewall, NoParts
  <2>3. Consistent(c)' /\ \A d \in Names \ {c} : said'[d] = said[d]
    BY <1>2, <1>3, <1>8, <1>9, <1>14, <2>2, GoodDrop
  <2> QED
    BY <1>5, <1>9, <2>3 DEF Good, Apart
<1> QED
  BY <1>1, <1>2, <1>3, <1>5, <1>13, <1>14, Looped

\* A failure that is passed over is remembered.
LEMMA GoodPassOver ==
    ASSUME TypeInv, NEW c \in Names, Consistent(c), cloud' = cloud, PassOver(c)
    PROVE  Good(c)
<1> DEFINE me == cli[c]
<1>1. /\ me \in Command /\ TypeOK /\ cli \in [Names -> Command]
      /\ me.at \in {"dropTracked", "dropFirewall", "dropNetwork", "dropTags", "dropKey",
                    "dropSubnets", "sweep", "sweepEmpty", "dropGroup", "untrack", "reset",
                    "dropDroplets"}
      /\ UNCHANGED <<registered, parts, vm>>
  BY DEF TypeInv, TypeOK, PassOver, account
<1>2. me.op \in {"delete", "abort"}
  BY <1>1, OpAt
<1>3. PICK n \in Command : n = [me EXCEPT !.missed = TRUE]
  <2>1. [me EXCEPT !.missed = TRUE] \in Command
    BY <1>1 DEF Command
  <2> QED
    BY <2>1
<1>4. n.at = me.at /\ n.op = me.op /\ n.missed /\ n.op \in Ops
  BY <1>1, <1>2, <1>3 DEF Command, Ops
<1>5. IF me.at \in {"dropTracked", "reset"} THEN Loop(c, n, Workers) ELSE Proceed(c, n)
  BY <1>3 DEF PassOver
<1>6. (LowNodes(c) /\ Unique(c) /\ Proper(c))'
  BY <1>1, KeptFewer DEF Consistent, Kept, Proper, Registers
<1>7. CASE Proceed(c, n)
  <2>1. Consistent(c)' /\ \A d \in Names \ {c} : said'[d] = said[d]
    BY <1>2, <1>4, <1>6, <1>7, GoodDrop
  <2> QED
    BY <1>1, <2>1 DEF Good, Apart
<1>8. CASE Becomes(c, [n EXCEPT !.next = @ + 1]) /\ UNCHANGED said
  <2>1. cli'[c] = [n EXCEPT !.next = @ + 1]
    BY <1>1, <1>8 DEF Becomes
  <2>2. cli'[c].op = me.op /\ cli'[c].missed
    BY <1>4, <2>1, Counted
  <2>3. Cleared(c)' /\ Looked(c)' /\ Gone(c)'
    BY <1>2, <1>8, <2>2 DEF Consistent, Cleared, Looked, Gone
  <2> QED
    BY <1>1, <1>6, <1>8, <2>3 DEF Good, Apart, Consistent, Kept
<1> QED
  BY <1>1, <1>4, <1>5, <1>7, <1>8, Looped

-----------------------------------------------------------------------------
(* The theorems *)

LEMMA InitSafe == Init => SafeInv
<1> SUFFICES ASSUME Init PROVE SafeInv
  OBVIOUS
<1>1. TypeInv
  BY InitTyped
<1>2. ASSUME NEW c \in Names PROVE Consistent(c)
  <2>1. /\ cli[c] = NoCommand /\ said[c] = "nothing" /\ registered[c] = Absent
        /\ parts[c] \subseteq {"foreign"} /\ (~Tracks => parts[c] = {})
    BY DEF Init
  <2>2. LowNodes(c) /\ Unique(c)
    <3>1. CASE cloud # "custom"
      BY <3>1 DEF Init, LowNodes, Unique
    <3>2. CASE cloud = "custom"
      <4>1. vm[c] = {[node |-> n, copy |-> 1, key |-> 1, up |-> TRUE, role |-> n = 0,
                      ca |-> Absent, version |-> Absent] : n \in 0..Workers}
        BY <3>2 DEF Init
      <4> DEFINE Host(n) == [node |-> n, copy |-> 1, key |-> 1, up |-> TRUE, role |-> n = 0,
                             ca |-> Absent, version |-> Absent]
      <4>2. \A n \in 0..Workers : Host(n).node = n /\ n <= Workers
        BY WorkersAssumption
      <4>3. \A m \in vm[c] : \E n \in 0..Workers : m = Host(n)
        BY <4>1
      <4> HIDE DEF Host
      <4> QED
        BY <4>2, <4>3 DEF LowNodes, Unique
    <3> QED
      BY <3>1, <3>2
  <2> QED
    BY <2>1, <2>2 DEF NoCommand, Consistent, Kept, Proper, Looked, Cleared, Gone, Tracks
<1>3. Neighbours
  BY DEF Init, Neighbours, Exposed, Mates, Foreign
<1> QED
  BY <1>1, <1>2, <1>3 DEF SafeInv

\* A step of one cluster.
Acts(c) == \/ Step(c) \/ Boots(c) \/ Stops(c) \/ Aborts(c) \/ PassOver(c) \/ SaveFails(c)
           \/ DropGroupFails(c) \/ UpgradePassesOver(c)
           \/ StartCreate(c) \/ StartDelete(c) \/ StartUpgrade(c)
           \/ \E want \in 0..MostWorkers : StartScale(c, want)

LEMMA NextActs == Next <=> \E c \in Names : Acts(c)
  BY DEF Next, Acts

\* No step makes what a cluster is in foreign, or its own.
LEMMA ForeignStays ==
    ASSUME SafeInv, NEW c \in Names, Acts(c), NEW d \in Names
    PROVE  Foreign(d)' = Foreign(d)
<1> DEFINE me == cli[c]
           Stays == ("foreign" \in parts'[d]) = ("foreign" \in parts[d])
<1> SUFFICES Stays
  BY DEF Foreign
<1>1. /\ TypeInv /\ cloud \in SixClouds /\ me.at \in StepsOf(cloud, me.op) /\ Proper(d)
      /\ parts \in [Names -> SUBSET {"network", "subnets", "firewall", "foreign"}]
  BY CloudSix DEF SafeInv, Consistent, Kept, TypeInv, TypeOK, Placed
<1>2. CASE parts' = parts
  BY <1>2
<1>3. CASE \E S \in SUBSET {"network", "subnets", "firewall"} :
              parts' = [parts EXCEPT ![c] = @ \cup S]
  BY <1>1, <1>3
<1>4. CASE CreateStep(c)
  BY <1>2, <1>3, <1>4
     DEF CreateStep, EnsureKey, EnsureNetwork, CreateSubnets, EnsureFirewall, Look, CreateMachine,
         Await, Save, PrepareHost, InitMaster, JoinWorker, Integrate, TimesOut, account
<1>5. ASSUME DeleteGroup(c), ~Foreign(c), me.at = "dropGroup" PROVE Stays
  <2>1. cloud = "azure"
    <3>1. me.op \in {"delete", "abort"}
      BY <1>1, <1>5, OpAt
    <3> QED
      BY <1>1, <1>5, <3>1 DEF StepsOf, DeleteSteps, SixClouds
  <2>2. d \in Mates(c) => "foreign" \notin parts[d]
    BY <1>5, <2>1 DEF SafeInv, Neighbours, Foreign
  <2> QED
    BY <1>5, <2>2 DEF DeleteGroup
<1>6. CASE DeleteStep(c)
  <2>1. CASE DropFirewall(c) \/ DropNetwork(c) \/ DropSubnets(c) \/ SweepEmpty(c)
    BY <1>1, <2>1 DEF DropFirewall, DropNetwork, DropSubnets, SweepEmpty
  <2>2. CASE Sweep(c)
    <3>1. me.at = "sweep"
      BY <2>2 DEF Sweep, At
    <3>2. me.op \in {"delete", "abort"}
      BY <1>1, <3>1, OpAt
    <3>3. cloud = "aws"
      BY <1>1, <3>1, <3>2 DEF StepsOf, DeleteSteps, SixClouds
    <3> QED
      BY <1>1, <2>2, <3>3 DEF Sweep, Proper
  <2>3. CASE DropGroup(c)
    BY <1>2, <1>5, <2>3 DEF DropGroup, At
  <2>4. CASE ~(\/ DropFirewall(c) \/ DropNetwork(c) \/ DropSubnets(c) \/ SweepEmpty(c)
               \/ Sweep(c) \/ DropGroup(c))
    BY <1>2, <1>6, <2>4
       DEF DeleteStep, DropDroplets, DropInstances, DropTracked, DropTags, DropKey, Untrack,
           Forget, Reset, account
  <2> QED
    BY <2>1, <2>2, <2>3, <2>4
<1>7. CASE OtherStep(c)
  <2>1. CASE Survey(c)
    <3>1. PICK more \in {{}, {"network"}} : parts' = [parts EXCEPT ![c] = @ \cup more]
      <4>1. \E grows \in BOOLEAN :
              parts' = [parts EXCEPT ![c] = IF grows THEN @ \cup {"network"} ELSE @]
        BY <2>1 DEF Survey
      <4> QED
        BY <1>1, <4>1
    <3> QED
      BY <1>1, <3>1
  <2>2. CASE ~Survey(c)
    BY <1>2, <1>7, <2>2 DEF OtherStep, Grow, JoinNew, Shrink, UpgradeMaster, UpgradeWorker
  <2> QED
    BY <2>1, <2>2
<1>8. CASE DropGroupFails(c)
  BY <1>2, <1>5, <1>8 DEF DropGroupFails, At
<1>9. CASE Aborts(c)
  BY <1>2, <1>3, <1>9 DEF Aborts
<1>10. CASE \/ Boots(c) \/ Stops(c) \/ PassOver(c) \/ SaveFails(c) \/ UpgradePassesOver(c)
            \/ StartCreate(c) \/ StartDelete(c) \/ StartUpgrade(c)
            \/ \E want \in 0..MostWorkers : StartScale(c, want)
  BY <1>2, <1>10 DEF Boots, Stops, PassOver, SaveFails, UpgradePassesOver, StartCreate,
                     StartDelete, StartUpgrade, StartScale, Start, account
<1> QED
  BY <1>4, <1>6, <1>7, <1>8, <1>9, <1>10 DEF Acts, Step

LEMMA NextGood ==
    ASSUME SafeInv, NEW c \in Names, Acts(c)
    PROVE  Stepped(c) /\ Good(c)
<1>1. \/ Step(c) \/ Boots(c) \/ Stops(c) \/ Aborts(c) \/ PassOver(c) \/ SaveFails(c)
      \/ DropGroupFails(c) \/ UpgradePassesOver(c)
      \/ StartCreate(c) \/ StartDelete(c) \/ StartUpgrade(c)
      \/ \E want \in 0..MostWorkers : StartScale(c, want)
  BY DEF Acts
<1>2. TypeInv /\ Consistent(c) /\ Foreign(c)' = Foreign(c)
  BY ForeignStays DEF SafeInv
<1>3. CASE CreateStep(c)
  <2>1. CASE \/ EnsureNetwork(c) \/ CreateSubnets(c) \/ EnsureFirewall(c) \/ Integrate(c)
             \/ Save(c)
    <3>1. Stepped(c)
      BY <1>2, <2>1, TypesOfMoves
    <3> QED
      BY <1>2, <2>1, <3>1, GoodCreation DEF Stepped
  <2>2. CASE EnsureKey(c)
    <3>1. Stepped(c)
      BY <1>2, <2>2, TypesOfKeys
    <3> QED
      BY <1>2, <2>2, <3>1, GoodCreation DEF Stepped
  <2>3. CASE Look(c)
    <3>1. Stepped(c)
      BY <1>2, <2>3, TypesOfMoves
    <3> QED
      BY <1>2, <2>3, <3>1, GoodLook DEF Stepped
  <2>4. CASE CreateMachine(c)
    <3>1. Stepped(c)
      BY <1>2, <2>4, TypesOfCreations
    <3> QED
      BY <1>2, <2>4, <3>1, GoodCreateMachine DEF Stepped
  <2>5. CASE Await(c)
    <3>1. Stepped(c)
      BY <1>2, <2>5, TypesOfControl
    <3> QED
      BY <1>2, <2>5, <3>1, GoodAwait DEF Stepped
  <2>6. CASE PrepareHost(c) \/ InitMaster(c) \/ JoinWorker(c)
    <3>1. Stepped(c)
      BY <1>2, <2>6, TypesOfMachineSteps
    <3> QED
      BY <1>2, <2>6, <3>1, GoodMachineStep DEF Stepped
  <2>7. CASE TimesOut(c)
    <3>1. Stepped(c)
      BY <1>2, <2>7, TypesOfControl
    <3> QED
      BY <1>2, <2>7, <3>1, GoodControl DEF Stepped
  <2> QED
    BY <1>3, <2>1, <2>2, <2>3, <2>4, <2>5, <2>6, <2>7 DEF CreateStep
<1>4. CASE DeleteStep(c)
  <2>1. CASE DropDroplets(c) \/ DropInstances(c) \/ DropGroup(c)
    <3>1. Stepped(c)
      BY <1>2, <2>1, TypesOfDrops
    <3> QED
      BY <1>2, <2>1, <3>1, GoodMachinesDrop DEF Stepped
  <2>2. CASE DropTags(c)
    <3>1. Stepped(c)
      BY <1>2, <2>2, TypesOfOtherSteps
    <3> QED
      BY <1>2, <2>2, <3>1, GoodMachinesDrop DEF Stepped
  <2>3. CASE DropTracked(c)
    <3>1. Stepped(c)
      BY <1>2, <2>3, TypesOfDrops
    <3> QED
      BY <1>2, <2>3, <3>1, GoodDropTracked DEF Stepped
  <2>4. CASE \/ DropFirewall(c) \/ DropNetwork(c) \/ DropSubnets(c) \/ Sweep(c)
             \/ SweepEmpty(c) \/ Untrack(c)
    <3>1. Stepped(c)
      BY <1>2, <2>4, TypesOfMoves
    <3> QED
      BY <1>2, <2>4, <3>1, GoodPartsDrop DEF Stepped
  <2>5. CASE DropKey(c) \/ Forget(c)
    <3>1. Stepped(c)
      BY <1>2, <2>5, TypesOfKeys
    <3> QED
      BY <1>2, <2>5, <3>1, GoodPartsDrop DEF Stepped
  <2>6. CASE Reset(c)
    <3>1. Stepped(c)
      BY <1>2, <2>6, TypesOfMachineSteps
    <3> QED
      BY <1>2, <2>6, <3>1, GoodReset DEF Stepped
  <2> QED
    BY <1>4, <2>1, <2>2, <2>3, <2>4, <2>5, <2>6 DEF DeleteStep
<1>5. CASE OtherStep(c)
  <2>1. CASE Survey(c)
    <3>1. Stepped(c)
      BY <1>2, <2>1, TypesOfKeys
    <3> QED
      BY <1>2, <2>1, <3>1, GoodOther DEF Stepped
  <2>2. CASE Grow(c)
    <3>1. Stepped(c)
      BY <1>2, <2>2, TypesOfCreations
    <3> QED
      BY <1>2, <2>2, <3>1, GoodGrow DEF Stepped
  <2>3. CASE Shrink(c)
    <3>1. Stepped(c)
      BY <1>2, <2>3, TypesOfDrops
    <3> QED
      BY <1>2, <2>3, <3>1, GoodOther DEF Stepped
  <2>4. CASE JoinNew(c) \/ UpgradeMaster(c) \/ UpgradeWorker(c)
    <3>1. Stepped(c)
      BY <1>2, <2>4, TypesOfOtherSteps
    <3> QED
      BY <1>2, <2>4, <3>1, GoodOther DEF Stepped
  <2> QED
    BY <1>5, <2>1, <2>2, <2>3, <2>4 DEF OtherStep
<1>6. CASE StartCreate(c) \/ StartDelete(c) \/ StartUpgrade(c)
           \/ \E want \in 0..MostWorkers : StartScale(c, want)
  <2>1. Stepped(c)
    BY <1>2, <1>6, TypesOfControl
  <2>2. \E op \in {"create", "delete", "scale", "upgrade"}, want \in 0..MostWorkers \cup {0} :
          /\ Start(c, op, want)
          /\ op = "scale" => cloud = "digitalocean"
          /\ op = "upgrade" => cloud # "gcp"
    <3>1. CASE StartCreate(c)
      BY <3>1 DEF StartCreate
    <3>2. CASE StartDelete(c)
      BY <3>2 DEF StartDelete
    <3>3. CASE StartUpgrade(c)
      BY <3>3 DEF StartUpgrade
    <3>4. CASE \E want \in 0..MostWorkers : StartScale(c, want)
      BY <3>4 DEF StartScale
    <3> QED
      BY <1>6, <3>1, <3>2, <3>3, <3>4
  <2> QED
    BY <1>2, <2>1, <2>2, GoodStart DEF Stepped
<1>7. CASE Boots(c)
  <2>1. Stepped(c)
    BY <1>2, <1>7, TypesOfOtherSteps
  <2> QED
    BY <1>2, <1>7, <2>1, GoodBoots DEF Stepped
<1>8. CASE Stops(c) \/ Aborts(c)
  <2>1. Stepped(c)
    BY <1>2, <1>8, TypesOfControl
  <2> QED
    BY <1>2, <1>8, <2>1, GoodControl DEF Stepped
<1>9. CASE PassOver(c)
  <2>1. Stepped(c)
    BY <1>2, <1>9, TypesOfControl
  <2> QED
    BY <1>2, <1>9, <2>1, GoodPassOver DEF Stepped
<1>10. CASE SaveFails(c)
  <2>1. Stepped(c)
    BY <1>2, <1>10, TypesOfMoves
  <2> QED
    BY <1>2, <1>10, <2>1, GoodCreation DEF Stepped
<1>12. CASE UpgradePassesOver(c)
  <2>1. Stepped(c)
    BY <1>2, <1>12, TypesOfOtherSteps
  <2> QED
    BY <1>2, <1>12, <2>1, GoodOther DEF Stepped
<1>11. CASE DropGroupFails(c)
  <2>1. Stepped(c)
    BY <1>2, <1>11, TypesOfDrops
  <2> QED
    BY <1>2, <1>11, <2>1, GoodMachinesDrop DEF Stepped
<1> QED
  BY <1>1, <1>3, <1>4, <1>5, <1>6, <1>7, <1>8, <1>9, <1>10, <1>11, <1>12 DEF Step

LEMMA ActsSafe ==
    ASSUME SafeInv, NEW c \in Names, Acts(c)
    PROVE  SafeInv'
<1>1. Stepped(c) /\ Good(c)
  BY NextGood
<1>2. TypeInv'
  BY <1>1, SteppedKeeps DEF SafeInv
<1>3. ASSUME NEW d \in Names PROVE Consistent(d)'
  BY <1>1, Elsewhere, ForeignStays DEF SafeInv, Good
<1>4. Neighbours'
  <2>1. cloud' = cloud /\ Neighbours
    BY <1>1 DEF Stepped, SafeInv
  <2> QED
    BY <2>1, ForeignStays DEF Neighbours, Mates, Tracks
<1> QED
  BY <1>2, <1>3, <1>4 DEF SafeInv

LEMMA NextSafe == SafeInv /\ [Next]_vars => SafeInv'
<1>1. ASSUME SafeInv, Next PROVE SafeInv'
  BY <1>1, NextActs, ActsSafe
<1>2. ASSUME SafeInv, UNCHANGED vars PROVE SafeInv'
  <2>1. TypeInv'
    BY <1>2, NextTyped DEF SafeInv
  <2>2. ASSUME NEW d \in Names PROVE Consistent(d)'
    BY <1>2 DEF SafeInv, vars, account, Consistent, Kept, LowNodes, Unique, Proper, Looked,
                Cleared, Done, Gone, Empty, Registers, Tracks, Foreign, Leaves, Spared
  <2>3. Neighbours'
    BY <1>2 DEF SafeInv, vars, account, Neighbours, Mates, Tracks, Foreign
  <2> QED
    BY <2>1, <2>2, <2>3 DEF SafeInv
<1> QED
  BY <1>1, <1>2

\* Every reachable state satisfies the invariant: what a creation has looked at,
\* and what a deletion has taken away, at every one of their steps.
THEOREM Safe == Spec => []SafeInv
  BY InitSafe, NextSafe, PTL DEF Spec

\* OneMachinePerNode: a creation takes over, updates or refuses what an earlier
\* one left, however the two and everything between them ended.
THEOREM NoSecondMachine == Spec => []OneMachinePerNode
<1>1. SafeInv => OneMachinePerNode
  BY DEF SafeInv, Consistent, Kept, Unique, OneMachinePerNode
<1> QED
  BY <1>1, Safe, PTL

\* NothingLeft: a deletion that was not told of a failure has deleted all of
\* the cluster, whatever half-done commands came before it, of this cluster and of
\* others beside it; on GCP all but a network of another name, and on Azure
\* unless the resource group was there without Adhar's tag.
THEOREM DeletedIsGone == Spec => []NothingLeft
<1>1. SafeInv => NothingLeft
  BY DEF SafeInv, Consistent, Gone, Empty, NothingLeft, Spared, Leaves
<1> QED
  BY <1>1, Safe, PTL
====
