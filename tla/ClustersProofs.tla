---- MODULE ClustersProofs ----
(***************************************************************************)
(* Proofs about Clusters, for any set of clusters, any number of workers   *)
(* and any bound on failures.                                              *)
(***************************************************************************)
EXTENDS Clusters, FiniteSetTheorems, TLAPS

-----------------------------------------------------------------------------
(* The steps a command can be at *)

CreateSteps(cl) ==
    CASE cl = "digitalocean" -> {"key", "network", "firewall", "look", "machine", "await",
                                 "init", "join", "integrate"}
      [] cl = "civo" -> {"key", "network", "firewall", "machine", "await", "init", "join"}
      [] cl \in {"gcp", "azure"} -> {"network", "firewall", "key", "machine", "await", "save",
                                     "init", "join"}
      [] cl = "aws" -> {"network", "subnets", "firewall", "key", "machine", "await", "init",
                        "join"}
      [] OTHER -> {"prepare", "init", "join"}
DeleteSteps(cl) ==
    CASE cl = "digitalocean" -> {"dropDroplets", "dropFirewall", "dropNetwork", "dropTags",
                                 "dropKey", "forget"}
      [] cl = "civo" -> {"dropInstances", "dropFirewall", "dropNetwork", "dropKey", "forget"}
      [] cl = "gcp" -> {"dropTracked", "dropFirewall", "dropNetwork", "untrack", "forget"}
      [] cl = "azure" -> {"dropGroup", "untrack", "forget"}
      [] cl = "aws" -> {"dropDroplets", "dropFirewall", "dropSubnets", "sweep", "dropKey",
                        "forget"}
      [] OTHER -> {"reset"}

Programmed(cl, op) == op \in {"create", "delete"} \/ (op = "abort" /\ cl = "aws")
StepsOf(cl, op) ==
    CASE op = "none" -> {"done"}
      [] op = "create" -> CreateSteps(cl)
      [] op = "delete" -> DeleteSteps(cl)
      [] op = "abort" -> IF cl = "aws" THEN {"dropDroplets", "dropFirewall", "sweepEmpty"}
                         ELSE {}
      [] op = "scale" -> IF cl = "digitalocean" THEN {"survey", "grow", "await", "joinNew",
                                                      "shrink"} ELSE {}
      [] OTHER -> IF cl # "gcp" THEN {"upgradeMaster", "upgradeWorkers"} ELSE {}

Placed(cl, me) ==
    /\ me.at \in StepsOf(cl, me.op)
    /\ me.at = "machine" \/ (me.at = "await" /\ me.op = "create") => me.next <= Workers
    /\ me.at \in {"grow", "joinNew"} \/ (me.at = "await" /\ me.op = "scale") => me.next >= 1

\* Steps that need the key of the cluster.
Making(cl, me) ==
    \/ me.at \in {"look", "machine", "await", "grow", "joinNew"}
    \/ cl \in {"digitalocean", "civo"} /\ me.op = "create" /\ me.at \in {"network", "firewall"}
HasKey(c) == Making(cloud, cli[c]) =>
                key[c] # Absent /\ (Registers => registered[c] # Absent)

TypeInv ==
    /\ TypeOK
    /\ \A c \in Names : IsFiniteSet(vm[c]) /\ Placed(cloud, cli[c]) /\ HasKey(c)

-----------------------------------------------------------------------------
(* Where a command goes from each step *)

SixClouds == {"digitalocean", "civo", "gcp", "azure", "aws", "custom"}

After(me) == Program(me.op)[me.at]
Advanced(me) == IF After(me) = "done" THEN NoCommand
                ELSE [me EXCEPT !.at = After(me), !.next = 0]

LEMMA FirstPlaced ==
    ASSUME NEW op \in {"create", "delete", "scale", "upgrade"}, cloud \in SixClouds,
           op = "scale" => cloud = "digitalocean", op = "upgrade" => cloud # "gcp"
    PROVE  /\ Program(op).start \in StepsOf(cloud, op)
           /\ Program(op).start \in Steps
           /\ Program(op).start \notin {"machine", "await", "grow", "joinNew", "look"}
           /\ cloud \in {"digitalocean", "civo"} => Program(op).start \notin {"network", "firewall"}
<1>1. CASE op = "create"
  BY <1>1 DEF SixClouds, Program, StepsOf, CreateSteps, Steps, DigitalOceanCreate, CivoCreate,
              GcpCreate, AzureCreate, AwsCreate, CustomCreate
<1>2. CASE op = "delete"
  BY <1>2 DEF SixClouds, Program, StepsOf, DeleteSteps, Steps, DigitalOceanDelete, CivoDelete,
              GcpDelete, AzureDelete, AwsDelete, CustomDelete
<1>3. CASE op \in {"scale", "upgrade"}
  BY <1>3 DEF SixClouds, Program, StepsOf, Steps
<1> QED
  BY <1>1, <1>2, <1>3

LEMMA AfterCreate ==
    ASSUME NEW at \in CreateSteps(cloud), at # "await", cloud \in SixClouds
    PROVE  LET next == Program("create")[at] IN
           /\ next \in (CreateSteps(cloud) \cup {"done"}) \ {"await"}
           /\ next = "machine" => at \in {"look", "firewall", "key"}
           /\ next \in {"machine", "look"} => at = "key" \/ Making(cloud, [op |-> "create", at |-> at])
           /\ cloud \in {"digitalocean", "civo"} /\ next \in {"network", "firewall"} =>
                at = "key" \/ Making(cloud, [op |-> "create", at |-> at])
  BY DEF SixClouds, Program, CreateSteps, DigitalOceanCreate, CivoCreate, GcpCreate,
         AzureCreate, AwsCreate, CustomCreate, Making

LEMMA AfterDelete ==
    ASSUME NEW at \in DeleteSteps(cloud), cloud \in SixClouds
    PROVE  Program("delete")[at] \in DeleteSteps(cloud) \cup {"done"}
  BY DEF SixClouds, Program, DeleteSteps, DigitalOceanDelete, CivoDelete, GcpDelete,
         AzureDelete, AwsDelete, CustomDelete

LEMMA AfterAbort ==
    ASSUME NEW at \in {"dropDroplets", "dropFirewall", "sweepEmpty"}
    PROVE  Program("abort")[at] \in {"dropFirewall", "sweepEmpty", "done"}
  BY DEF Program, AwsAbort

LEMMA CloudSix == TypeOK => cloud \in SixClouds
  BY CloudsAssumption DEF TypeOK, SixClouds

LEMMA KeyNumbers == 1 \in Keys /\ Absent \notin Keys
<1>1. Workers + MostWorkers \in Nat
  BY WorkersAssumption
<1>2. IsFiniteSet(Nodes)
  BY <1>1, FS_Interval DEF Nodes
<1>3. Cardinality(Nodes) \in Nat
  BY <1>2, FS_CardinalityType
<1>4. Cardinality(Nodes) * MaxCopies \in Nat
  BY <1>3, LimitsAssumption
<1> QED
  BY <1>4 DEF Keys, Absent

LEMMA NoCommandFine ==
    /\ NoCommand \in Command
    /\ Placed(cloud, NoCommand) /\ ~Making(cloud, NoCommand)
<1>1. 0 \in 0..MostWorkers
  BY WorkersAssumption
<1> QED
  BY <1>1 DEF NoCommand, Command, Ops, Steps, Placed, StepsOf, Making, Trackers, NoTracker,
              Nodes

LEMMA Moved ==
    ASSUME NEW me \in Command, NEW step \in Steps,
           NEW next, next = [me EXCEPT !.at = step, !.next = 0]
    PROVE  /\ next \in Command
           /\ next.at = step /\ next.next = 0 /\ next.op = me.op
           /\ next.mine = me.mine /\ next.seen = me.seen /\ next.missed = me.missed
           /\ next.token = me.token /\ next.want = me.want /\ next.mem = me.mem
  BY DEF Command

LEMMA Counted ==
    ASSUME NEW me \in Command
    PROVE  LET next == [me EXCEPT !.next = @ + 1] IN
           /\ next \in Command
           /\ next.next = me.next + 1 /\ next.at = me.at /\ next.op = me.op
           /\ next.mine = me.mine /\ next.seen = me.seen /\ next.missed = me.missed
           /\ next.token = me.token /\ next.want = me.want /\ next.mem = me.mem
  BY DEF Command

LEMMA Joined ==
    ASSUME NEW me \in Command
    PROVE  LET next == [me EXCEPT !.at = "grow", !.next = @ + 1, !.mine = {}] IN
           next \in Command /\ next.at = "grow" /\ next.op = me.op /\ next.next = me.next + 1
<1>1. "grow" \in Steps
  BY DEF Steps
<1>2. me.next + 1 \in Nat
  BY DEF Command
<1> QED
  BY <1>1, <1>2 DEF Command

\* A programmed command goes to the next step of its program.
LEMMA AdvancedFine ==
    ASSUME cloud \in SixClouds, NEW me \in Command, Placed(cloud, me),
           Programmed(cloud, me.op), me.at # "await"
    PROVE  /\ Advanced(me) \in Command
           /\ Placed(cloud, Advanced(me))
           /\ Making(cloud, Advanced(me)) => me.at = "key" \/ Making(cloud, me)
<1>1. me.at \in StepsOf(cloud, me.op)
  BY DEF Placed
<1>2. CASE me.op = "create"
  <2>1. me.at \in CreateSteps(cloud)
    BY <1>1, <1>2 DEF StepsOf
  <2>2. After(me) \in (CreateSteps(cloud) \cup {"done"}) \ {"await"}
    BY <1>2, <2>1, AfterCreate DEF After
  <2>3. CreateSteps(cloud) \subseteq Steps
    BY DEF CreateSteps, Steps, SixClouds
  <2>4. CASE After(me) = "done"
    BY <2>4, NoCommandFine DEF Advanced
  <2>5. CASE After(me) # "done"
    <3>1. Advanced(me) = [me EXCEPT !.at = After(me), !.next = 0]
      BY <2>5 DEF Advanced
    <3>2. /\ Advanced(me).at = After(me) /\ Advanced(me).next = 0
          /\ Advanced(me).op = "create" /\ Advanced(me) \in Command
      <4>1. After(me) \in Steps
        BY <2>2, <2>3, <2>5
      <4> QED
        BY <1>2, <3>1, <4>1, Moved DEF Command
    <3>3. Placed(cloud, Advanced(me))
      BY <2>2, <2>5, <3>2, WorkersAssumption DEF Placed, StepsOf, CreateSteps, SixClouds
    <3>4. Making(cloud, Advanced(me)) => me.at = "key" \/ Making(cloud, me)
      BY <1>2, <2>1, <2>2, <3>2, AfterCreate DEF Making, After, CreateSteps, SixClouds
    <3> QED
      BY <3>2, <3>3, <3>4
  <2> QED
    BY <2>4, <2>5
<1>3. CASE me.op \in {"delete", "abort"}
  <2>1. After(me) \in StepsOf(cloud, me.op) \cup {"done"}
    <3>1. CASE me.op = "delete"
      BY <1>1, <3>1, AfterDelete DEF StepsOf, After
    <3>2. CASE me.op = "abort"
      BY <1>1, <3>2, AfterAbort DEF StepsOf, After
    <3> QED
      BY <1>3, <3>1, <3>2
  <2>2. StepsOf(cloud, me.op) \subseteq Steps \ {"machine", "await", "grow", "joinNew", "look"}
    BY <1>3 DEF StepsOf, DeleteSteps, Steps, SixClouds
  <2>4. CASE After(me) = "done"
    BY <2>4, NoCommandFine DEF Advanced
  <2>5. CASE After(me) # "done"
    <3>1. Advanced(me) = [me EXCEPT !.at = After(me), !.next = 0]
      BY <2>5 DEF Advanced
    <3>2. /\ Advanced(me).at = After(me) /\ Advanced(me).next = 0
          /\ Advanced(me).op = me.op /\ Advanced(me) \in Command
      <4>1. After(me) \in Steps
        BY <2>1, <2>2, <2>5
      <4> QED
        BY <3>1, <4>1, Moved DEF Command
    <3> QED
      BY <1>3, <2>1, <2>2, <2>5, <3>2 DEF Placed, Making
  <2> QED
    BY <2>4, <2>5
<1> QED
  BY <1>2, <1>3 DEF Programmed

\* What a step does to the command of its cluster, and to no other.
Becomes(c, X) == /\ cli' = [cli EXCEPT ![c] = X]
                 /\ said' \in [Names -> Said]
                 /\ \A d \in Names \ {c} : said'[d] = said[d]

LEMMA Ended ==
    ASSUME TypeOK, NEW c \in Names, NEW answer \in Said, End(c, answer)
    PROVE  Becomes(c, NoCommand) /\ said'[c] = answer
  BY DEF End, Becomes, TypeOK

LEMMA Proceeded ==
    ASSUME TypeOK, NEW c \in Names, NEW me, me.op \in Ops, Proceed(c, me)
    PROVE  Becomes(c, Advanced(me))
<1>1. CASE After(me) = "done"
  <2>1. \E answer \in Said : End(c, answer)
    BY <1>1 DEF Proceed, GoTo, After, Answer, Said
  <2> QED
    BY <1>1, <2>1, Ended DEF Advanced
<1>2. CASE After(me) # "done"
  BY <1>2 DEF Proceed, GoTo, After, Advanced, Becomes, TypeOK
<1> QED
  BY <1>1, <1>2

LEMMA Looped ==
    ASSUME TypeOK, NEW c \in Names, NEW me, me.op \in Ops, NEW last, Loop(c, me, last)
    PROVE  \/ me.next < last /\ Becomes(c, [me EXCEPT !.next = @ + 1]) /\ UNCHANGED said
           \/ ~(me.next < last) /\ Becomes(c, Advanced(me)) /\ Proceed(c, me)
<1>1. CASE me.next < last
  BY <1>1 DEF Loop, Becomes, TypeOK
<1>2. CASE ~(me.next < last)
  BY <1>2, Proceeded DEF Loop
<1> QED
  BY <1>1, <1>2

-----------------------------------------------------------------------------
(* Types *)

\* What every step keeps that belongs to one cluster.
Stepped(c) ==
    /\ cloud' = cloud
    /\ TypeOK'
    /\ Placed(cloud, cli'[c])
    /\ HasKey(c)'
    /\ \A d \in Names \ {c} : /\ cli'[d] = cli[d] /\ key'[d] = key[d]
                              /\ registered'[d] = registered[d]
    /\ \A d \in Names : IsFiniteSet(vm'[d])

LEMMA SteppedKeeps ==
    ASSUME TypeInv, NEW c \in Names, Stepped(c)
    PROVE  TypeInv'
<1>1. ASSUME NEW d \in Names PROVE (Placed(cloud, cli[d]) /\ HasKey(d))'
  <2>1. CASE d = c
    <3>1. cloud' = cloud /\ Placed(cloud, cli'[c]) /\ HasKey(c)'
      BY DEF Stepped
    <3>2. Placed(cloud', cli'[c])
      BY <3>1
    <3> QED
      BY <2>1, <3>1, <3>2
  <2>2. CASE d # c
    <3>1. cloud' = cloud /\ cli'[d] = cli[d] /\ key'[d] = key[d] /\ registered'[d] = registered[d]
      BY <2>2 DEF Stepped
    <3>2. Placed(cloud, cli[d]) /\ HasKey(d)
      BY DEF TypeInv
    <3>3. Placed(cloud', cli'[d])
      BY <3>1, <3>2
    <3>4. Making(cloud', cli'[d]) = Making(cloud, cli[d])
      BY <3>1
    <3> QED
      BY <3>1, <3>2, <3>3, <3>4 DEF HasKey, Registers
  <2> QED
    BY <2>1, <2>2
<1> QED
  BY <1>1 DEF Stepped, TypeInv

\* A step that leaves keys alone, by what it does to the command and the rest.
LEMMA SteppedBy ==
    ASSUME TypeInv, NEW c \in Names, NEW X \in Command, Becomes(c, X), Placed(cloud, X),
           Making(cloud, X) => Making(cloud, cli[c]),
           UNCHANGED <<cloud, key, registered>>,
           parts' \in [Names -> SUBSET {"network", "subnets", "firewall", "foreign"}],
           vm' \in [Names -> SUBSET Machine], \A d \in Names : IsFiniteSet(vm'[d]),
           file' \in Trackers, faults' \in 0..MaxFaults
    PROVE  Stepped(c)
<1>1. cli' \in [Names -> Command] /\ cli'[c] = X /\ \A d \in Names \ {c} : cli'[d] = cli[d]
  BY DEF Becomes, TypeInv, TypeOK
<1>2. TypeOK'
  BY <1>1 DEF TypeInv, TypeOK, Becomes
<1>3. HasKey(c)'
  <2>1. Making(cloud, X) => key[c] # Absent /\ (Registers => registered[c] # Absent)
    BY DEF TypeInv, HasKey
  <2>2. Making(cloud', cli'[c]) = Making(cloud, X)
    BY <1>1
  <2> QED
    BY <2>1, <2>2 DEF HasKey, Registers
<1>4. Placed(cloud, cli'[c])
  BY <1>1
<1> QED
  BY <1>1, <1>2, <1>3, <1>4 DEF Stepped

\* The same for a step to the next one of a program.
LEMMA SteppedAlong ==
    ASSUME TypeInv, NEW c \in Names, NEW me \in Command, Becomes(c, Advanced(me)),
           me.at = cli[c].at, me.op = cli[c].op, me.next = cli[c].next,
           Programmed(cloud, me.op), me.at \notin {"await", "key"},
           UNCHANGED <<cloud, key, registered>>,
           parts' \in [Names -> SUBSET {"network", "subnets", "firewall", "foreign"}],
           vm' \in [Names -> SUBSET Machine], \A d \in Names : IsFiniteSet(vm'[d]),
           file' \in Trackers, faults' \in 0..MaxFaults
    PROVE  Stepped(c)
<1>1. cloud \in SixClouds
  BY CloudSix DEF TypeInv
<1>2. Placed(cloud, me) /\ Making(cloud, me) = Making(cloud, cli[c])
  BY DEF TypeInv, Placed, Making
<1>3. /\ Advanced(me) \in Command
      /\ Placed(cloud, Advanced(me))
      /\ Making(cloud, Advanced(me)) => Making(cloud, cli[c])
  BY <1>1, <1>2, AdvancedFine
<1> QED
  BY <1>3, SteppedBy

LEMMA SteppedEnd ==
    ASSUME TypeInv, NEW c \in Names, Becomes(c, NoCommand),
           UNCHANGED <<cloud, key, registered>>,
           parts' \in [Names -> SUBSET {"network", "subnets", "firewall", "foreign"}],
           vm' \in [Names -> SUBSET Machine], \A d \in Names : IsFiniteSet(vm'[d]),
           file' \in Trackers, faults' \in 0..MaxFaults
    PROVE  Stepped(c)
  BY NoCommandFine, SteppedBy

LEMMA OpAt ==
    ASSUME TypeInv, NEW c \in Names
    PROVE  LET at == cli[c].at  op == cli[c].op IN
           /\ at \in {"key", "network", "subnets", "firewall", "look", "machine", "save",
                      "prepare", "init", "join", "integrate"} => op = "create"
           /\ at \in {"dropDroplets", "dropFirewall", "sweepEmpty"} =>
                op = "delete" \/ (op = "abort" /\ cloud = "aws")
           /\ at \in {"dropInstances", "dropTracked", "dropGroup", "dropSubnets",
                      "dropNetwork", "sweep", "dropTags", "dropKey", "untrack", "forget",
                      "reset"} => op \in {"delete", "abort"} /\ Programmed(cloud, op)
           /\ at \in {"survey", "grow", "joinNew", "shrink"} =>
                op = "scale" /\ cloud = "digitalocean"
           /\ at \in {"upgradeMaster", "upgradeWorkers"} => op = "upgrade" /\ cloud # "gcp"
           /\ at = "await" => op \in {"create", "scale"}
           /\ op = "scale" => cloud = "digitalocean"
<1>1. cli[c].at \in StepsOf(cloud, cli[c].op) /\ cli[c].op \in Ops /\ cloud \in SixClouds
  BY CloudSix DEF TypeInv, TypeOK, Placed, Command
<1>2. CASE cli[c].op = "create"
  BY <1>1, <1>2 DEF StepsOf, CreateSteps, SixClouds
<1>3. CASE cli[c].op = "delete"
  BY <1>1, <1>3 DEF StepsOf, DeleteSteps, SixClouds, Programmed
<1>4. CASE cli[c].op \in {"none", "abort", "scale", "upgrade"}
  BY <1>1, <1>4 DEF StepsOf, SixClouds, Programmed
<1> QED
  BY <1>1, <1>2, <1>3, <1>4 DEF Ops

\* Steps that only go on in their program, or end it.
LEMMA TypesOfMoves ==
    ASSUME TypeInv, NEW c \in Names,
           \/ EnsureNetwork(c) \/ CreateSubnets(c) \/ EnsureFirewall(c) \/ Look(c)
           \/ Integrate(c) \/ Save(c) \/ SaveFails(c) \/ DropFirewall(c) \/ DropNetwork(c)
           \/ DropSubnets(c) \/ Sweep(c) \/ SweepEmpty(c) \/ Untrack(c)
    PROVE  Stepped(c)
<1> DEFINE me == cli[c]
<1>1. /\ me \in Command /\ me.op \in Ops /\ TypeOK /\ faults \in 0..MaxFaults
      /\ \A d \in Names : IsFiniteSet(vm[d])
      /\ vm \in [Names -> SUBSET Machine] /\ file \in Trackers
      /\ parts \in [Names -> SUBSET {"network", "subnets", "firewall", "foreign"}]
  BY DEF TypeInv, TypeOK, Command
<1> DEFINE Going(n) == /\ n \in Command /\ n.at = me.at /\ n.op = me.op /\ n.next = me.next
                       /\ Proceed(c, n)
<1>p. ASSUME NEW n, Going(n), Programmed(cloud, me.op), me.at \notin {"await", "key"},
             UNCHANGED <<cloud, key, registered, vm>>,
             parts' \in [Names -> SUBSET {"network", "subnets", "firewall", "foreign"}],
             file' \in Trackers, faults' \in 0..MaxFaults
      PROVE  Stepped(c)
  <2>1. Becomes(c, Advanced(n))
    BY <1>1, <1>p, Proceeded
  <2> QED
    BY <1>1, <1>p, <2>1, SteppedAlong
<1>e. ASSUME NEW answer \in Said, End(c, answer),
             UNCHANGED <<cloud, key, registered, vm, parts, file, faults>>
      PROVE  Stepped(c)
  BY <1>1, <1>e, Ended, SteppedEnd
<1>2. CASE EnsureNetwork(c)
  BY <1>1, <1>2, <1>p, OpAt DEF EnsureNetwork, At, Programmed
<1>3. CASE CreateSubnets(c)
  BY <1>1, <1>3, <1>p, OpAt DEF CreateSubnets, At, Programmed
<1>4. CASE EnsureFirewall(c)
  BY <1>1, <1>4, <1>p, <1>e, OpAt DEF EnsureFirewall, At, Programmed, Said
<1>5. CASE Look(c)
  <2>1. {RefTo(m) : m \in vm[c]} \subseteq Ref
    BY <1>1 DEF RefTo, Ref, Machine
  <2>2. Going([me EXCEPT !.seen = {RefTo(m) : m \in vm[c]}])
    BY <1>1, <1>5, <2>1 DEF Look, Command
  <2> QED
    BY <1>1, <1>5, <1>p, <2>2, OpAt DEF Look, At, Programmed, account
<1>6. CASE Integrate(c)
  BY <1>1, <1>6, <1>p, OpAt DEF Integrate, At, Programmed, account
<1>7. CASE Save(c)
  <2> DEFINE mem == [me.mem EXCEPT ![c] = 0..Workers]
  <2>1. mem \in Trackers
    <3>1. 0..Workers \subseteq Nodes
      BY WorkersAssumption DEF Nodes
    <3> QED
      BY <1>1, <3>1 DEF Command, Trackers
  <2>2. Going([me EXCEPT !.mem = mem])
    BY <1>1, <1>7, <2>1 DEF Save, Command
  <2> QED
    BY <1>1, <1>7, <1>p, <2>1, <2>2, OpAt DEF Save, At, Programmed, account
<1>8. CASE SaveFails(c)
  BY <1>1, <1>8, <1>p, OpAt, LimitsAssumption
     DEF SaveFails, At, Programmed, account, Fault
<1>9. CASE DropFirewall(c)
  <2> DEFINE n == [me EXCEPT !.missed = @ \/ (cloud = "gcp" /\ "firewall" \notin parts[c])]
  <2>1. Going(n)
    BY <1>1, <1>9 DEF DropFirewall, Command
  <2> QED
    BY <1>1, <1>9, <1>p, <2>1, OpAt DEF DropFirewall, At, Programmed
<1>10. CASE DropNetwork(c)
  <2>0. me.at = "dropNetwork" /\ UNCHANGED <<cloud, key, registered, vm, file, faults>>
    BY <1>10 DEF DropNetwork, At
  <2>1. PICK lost \in BOOLEAN : Proceed(c, [me EXCEPT !.missed = lost])
    <3>1. me.missed \in BOOLEAN /\ [me EXCEPT !.missed = me.missed] = me
      BY <1>1 DEF Command
    <3> QED
      BY <1>10, <3>1 DEF DropNetwork
  <2>2. Going([me EXCEPT !.missed = lost])
    BY <1>1, <2>1 DEF Command
  <2>3. parts' \in [Names -> SUBSET {"network", "subnets", "firewall", "foreign"}]
    BY <1>1, <1>10 DEF DropNetwork
  <2> QED
    BY <1>1, <1>p, <2>0, <2>2, <2>3, OpAt DEF Programmed
<1>11. CASE DropSubnets(c)
  BY <1>1, <1>11, <1>p, OpAt DEF DropSubnets, At, Programmed
<1>12. CASE Sweep(c)
  BY <1>1, <1>12, <1>p, OpAt DEF Sweep, At, Programmed
<1>13. CASE SweepEmpty(c)
  BY <1>1, <1>13, <1>p, OpAt DEF SweepEmpty, At, Programmed
<1>14. CASE Untrack(c)
  <2>1. [me.mem EXCEPT ![c] = NoTracker] \in Trackers
    BY <1>1 DEF Command, Trackers, NoTracker
  <2> QED
    BY <1>1, <1>14, <1>p, <2>1, OpAt DEF Untrack, At, Programmed, account
<1> QED
  BY <1>2, <1>3, <1>4, <1>5, <1>6, <1>7, <1>8, <1>9, <1>10, <1>11, <1>12, <1>13, <1>14

\* Steps that stop, start or repeat a command without touching a machine.
LEMMA TypesOfControl ==
    ASSUME TypeInv, NEW c \in Names,
           \/ Stops(c) \/ Aborts(c) \/ PassOver(c) \/ TimesOut(c) \/ Await(c)
           \/ StartCreate(c) \/ StartDelete(c) \/ StartUpgrade(c)
           \/ \E want \in 0..MostWorkers : StartScale(c, want)
    PROVE  Stepped(c)
<1> DEFINE me == cli[c]
<1>1. /\ me \in Command /\ me.op \in Ops /\ TypeOK /\ faults \in 0..MaxFaults
      /\ \A d \in Names : IsFiniteSet(vm[d])
      /\ vm \in [Names -> SUBSET Machine] /\ file \in Trackers /\ cloud \in SixClouds
      /\ parts \in [Names -> SUBSET {"network", "subnets", "firewall", "foreign"}]
      /\ Placed(cloud, me)
  BY CloudSix DEF TypeInv, TypeOK, Command
<1>f. Fault => faults' \in 0..MaxFaults
  BY <1>1, LimitsAssumption DEF Fault
<1>s. ASSUME NEW op \in {"create", "delete", "scale", "upgrade"}, NEW want \in 0..MostWorkers,
             op = "scale" => cloud = "digitalocean", op = "upgrade" => cloud # "gcp",
             Start(c, op, want)
      PROVE  Stepped(c)
  <2> DEFINE X == [NoCommand EXCEPT !.op = op, !.at = Program(op).start,
                                    !.want = want, !.mem = file]
  <2>1. Program(op).start \in Steps
    BY <1>1, <1>s, FirstPlaced
  <2>2. /\ X \in Command
        /\ X.op = op /\ X.at = Program(op).start
    BY <1>1, <2>1, NoCommandFine DEF NoCommand, Command, Ops
  <2>3. Placed(cloud, X) /\ ~Making(cloud, X)
    BY <1>1, <1>s, <2>2, FirstPlaced DEF Placed, Making
  <2>4. Becomes(c, X)
    BY <1>1, <1>s DEF Start, Becomes, TypeOK, Said
  <2>5. UNCHANGED <<cloud, key, registered, parts, vm, file, faults>>
    BY <1>s DEF Start, account
  <2> QED
    BY <1>1, <2>2, <2>3, <2>4, <2>5, SteppedBy
<1>2. CASE Stops(c)
  BY <1>1, <1>2, <1>f, Ended, SteppedEnd DEF Stops, Said, account
<1>3. CASE Aborts(c)
  <2> DEFINE X == [NoCommand EXCEPT !.op = "abort", !.at = "dropDroplets"]
  <2>1. X \in Command /\ X.op = "abort" /\ X.at = "dropDroplets"
    BY NoCommandFine DEF NoCommand, Command, Ops, Steps
  <2>2. Placed(cloud, X) /\ ~Making(cloud, X)
    BY <1>3, <2>1 DEF Aborts, Placed, Making, StepsOf
  <2>3. Becomes(c, X)
    BY <1>1, <1>3 DEF Aborts, Becomes, TypeOK
  <2>4. /\ parts' \in [Names -> SUBSET {"network", "subnets", "firewall", "foreign"}]
        /\ faults' \in 0..MaxFaults
    BY <1>1, <1>3, <1>f DEF Aborts
  <2> QED
    BY <1>1, <1>3, <2>1, <2>2, <2>3, <2>4, SteppedBy DEF Aborts
<1>4. CASE PassOver(c)
  <2> DEFINE n == [me EXCEPT !.missed = TRUE]
  <2>1. /\ n \in Command /\ n.at = me.at /\ n.op = me.op /\ n.next = me.next
        /\ Programmed(cloud, me.op) /\ me.at \notin {"await", "key", "machine", "grow", "joinNew"}
        /\ UNCHANGED <<cloud, key, registered, parts, vm, file>>
        /\ faults' \in 0..MaxFaults
    BY <1>1, <1>4, <1>f, OpAt DEF PassOver, Programmed, account, Command
  <2>2. CASE Becomes(c, Advanced(n))
    BY <1>1, <2>1, <2>2, SteppedAlong
  <2>3. CASE Becomes(c, [n EXCEPT !.next = @ + 1])
    <3>1. [n EXCEPT !.next = @ + 1] \in Command
      BY <2>1, Counted
    <3>2. /\ Placed(cloud, [n EXCEPT !.next = @ + 1])
          /\ ~Making(cloud, [n EXCEPT !.next = @ + 1]) \/ Making(cloud, me)
      BY <1>1, <2>1 DEF Placed, Making, Command
    <3> QED
      BY <1>1, <2>1, <2>3, <3>1, <3>2, SteppedBy
  <2>4. Loop(c, n, Workers) \/ Proceed(c, n)
    BY <1>4 DEF PassOver
  <2> QED
    BY <1>1, <2>1, <2>2, <2>3, <2>4, Looped, Proceeded
<1>5. CASE TimesOut(c)
  BY <1>1, <1>5, Ended, SteppedEnd DEF TimesOut, Said, account
<1>6. CASE Await(c)
  <2>1. UNCHANGED <<cloud, key, registered, parts, vm, file, faults>> /\ me.at = "await"
    BY <1>6 DEF Await, account, At
  <2>2. CASE me.op = "create"
    <3> DEFINE n == [me EXCEPT !.at = "machine"]
    <3>1. /\ n \in Command /\ n.at = "machine" /\ n.op = "create" /\ n.next = me.next
      BY <1>1, <2>2 DEF Command, Steps
    <3>2. /\ me.next <= Workers /\ me.next \in Nat /\ "machine" \in StepsOf(cloud, "create")
      BY <1>1, <2>1, <2>2 DEF Placed, Command, StepsOf, CreateSteps, SixClouds
    <3>3. Placed(cloud, n) /\ Making(cloud, me) /\ Programmed(cloud, "create")
      BY <2>1, <3>1, <3>2 DEF Placed, Making, Programmed
    <3>4. CASE Becomes(c, Advanced(n))
      <4>1. /\ Advanced(n) \in Command /\ Placed(cloud, Advanced(n))
        BY <1>1, <3>1, <3>3, AdvancedFine
      <4> QED
        BY <1>1, <2>1, <3>3, <3>4, <4>1, SteppedBy
    <3>5. CASE n.next < Workers /\ Becomes(c, [n EXCEPT !.next = @ + 1])
      <4>1. [n EXCEPT !.next = @ + 1] \in Command
        BY <3>1, Counted
      <4>2. /\ [n EXCEPT !.next = @ + 1].at = "machine" /\ [n EXCEPT !.next = @ + 1].op = "create"
            /\ [n EXCEPT !.next = @ + 1].next = me.next + 1
        BY <3>1, Counted
      <4>3. Placed(cloud, [n EXCEPT !.next = @ + 1])
        BY <3>1, <3>2, <3>5, <4>2, WorkersAssumption DEF Placed
      <4> QED
        BY <1>1, <2>1, <3>3, <3>5, <4>1, <4>3, SteppedBy
    <3>6. Loop(c, n, Workers)
      BY <1>6, <2>2 DEF Await
    <3>7. n.op \in Ops
      BY <3>1 DEF Ops
    <3>8. \/ n.next < Workers /\ Becomes(c, [n EXCEPT !.next = @ + 1])
          \/ Becomes(c, Advanced(n))
      BY <1>1, <3>6, <3>7, Looped
    <3> QED
      BY <3>4, <3>5, <3>8
  <2>3. CASE me.op # "create"
    <3> DEFINE n == [me EXCEPT !.at = "joinNew"]
    <3>1. /\ n \in Command /\ n.at = "joinNew" /\ n.op = "scale" /\ n.next = me.next
          /\ cloud = "digitalocean" /\ me.op = "scale"
      BY <1>1, <2>1, <2>3, OpAt DEF Command, Steps
    <3>2. Placed(cloud, n) /\ Making(cloud, me)
      BY <1>1, <2>1, <3>1 DEF Placed, Making, StepsOf
    <3>3. Becomes(c, n)
      BY <1>1, <1>6, <2>3 DEF Await, Becomes, TypeOK
    <3> QED
      BY <1>1, <2>1, <3>1, <3>2, <3>3, SteppedBy
  <2> QED
    BY <2>2, <2>3
<1>7. CASE StartCreate(c)
  BY <1>7, <1>s, WorkersAssumption DEF StartCreate
<1>8. CASE StartDelete(c)
  BY <1>8, <1>s, WorkersAssumption DEF StartDelete
<1>9. CASE StartUpgrade(c)
  BY <1>9, <1>s, WorkersAssumption DEF StartUpgrade
<1>10. CASE \E want \in 0..MostWorkers : StartScale(c, want)
  BY <1>10, <1>s DEF StartScale
<1> QED
  BY <1>2, <1>3, <1>4, <1>5, <1>6, <1>7, <1>8, <1>9, <1>10

LEMMA SubsetsFinite ==
    ASSUME TypeInv, vm' \in [Names -> SUBSET Machine],
           \A d \in Names : vm'[d] \subseteq vm[d]
    PROVE  \A d \in Names : IsFiniteSet(vm'[d])
  BY FS_Subset DEF TypeInv

LEMMA ChangeFinite ==
    ASSUME TypeInv, NEW c \in Names, NEW m \in vm[c], NEW n \in Machine, Change(c, m, n)
    PROVE  /\ vm' \in [Names -> SUBSET Machine]
           /\ \A d \in Names : IsFiniteSet(vm'[d])
<1>1. vm \in [Names -> SUBSET Machine] /\ \A d \in Names : IsFiniteSet(vm[d])
  BY DEF TypeInv, TypeOK
<1>2. IsFiniteSet((vm[c] \ {m}) \cup {n})
  <2>1. IsFiniteSet(vm[c] \ {m})
    BY <1>1, FS_RemoveElement
  <2> QED
    BY <2>1, FS_AddElement
<1> QED
  BY <1>1, <1>2 DEF Change

\* Steps of a deletion that take machines away, and Shrink.
LEMMA TypesOfDrops ==
    ASSUME TypeInv, NEW c \in Names,
           \/ DropDroplets(c) \/ DropInstances(c) \/ DropTracked(c) \/ DropGroup(c)
           \/ DropGroupFails(c) \/ Shrink(c)
    PROVE  Stepped(c)
<1> DEFINE me == cli[c]
<1>1. /\ me \in Command /\ me.op \in Ops /\ TypeOK /\ faults \in 0..MaxFaults
      /\ \A d \in Names : IsFiniteSet(vm[d])
      /\ vm \in [Names -> SUBSET Machine] /\ file \in Trackers /\ cloud \in SixClouds
      /\ parts \in [Names -> SUBSET {"network", "subnets", "firewall", "foreign"}]
      /\ Placed(cloud, me)
  BY CloudSix DEF TypeInv, TypeOK, Command
<1>f. Fault => faults' \in 0..MaxFaults
  BY <1>1, LimitsAssumption DEF Fault
<1>g. ASSUME DeleteGroup(c)
      PROVE  /\ vm' \in [Names -> SUBSET Machine] /\ \A d \in Names : IsFiniteSet(vm'[d])
             /\ parts' \in [Names -> SUBSET {"network", "subnets", "firewall", "foreign"}]
  <2>1. /\ vm' \in [Names -> SUBSET Machine] /\ \A d \in Names : vm'[d] \subseteq vm[d]
        /\ parts' \in [Names -> SUBSET {"network", "subnets", "firewall", "foreign"}]
    BY <1>1, <1>g DEF DeleteGroup
  <2> QED
    BY <2>1, SubsetsFinite
<1>2. CASE DropDroplets(c)
  <2>1. vm' \in [Names -> SUBSET Machine] /\ \A d \in Names : IsFiniteSet(vm'[d])
    <3>1. vm' \in [Names -> SUBSET Machine] /\ \A d \in Names : vm'[d] \subseteq vm[d]
      BY <1>1, <1>2 DEF DropDroplets
    <3> QED
      BY <3>1, SubsetsFinite
  <2>2. Becomes(c, Advanced(me))
    BY <1>1, <1>2, Proceeded DEF DropDroplets
  <2> QED
    BY <1>1, <1>2, <2>1, <2>2, OpAt, SteppedAlong DEF DropDroplets, At, Programmed
<1>3. CASE DropInstances(c)
  <2>0. me.at = "dropInstances" /\ Programmed(cloud, me.op)
    BY <1>3, OpAt DEF DropInstances, At
  <2>1. CASE Proceed(c, me) /\ UNCHANGED vm
    <3>1. Becomes(c, Advanced(me))
      BY <1>1, <2>1, Proceeded
    <3> QED
      BY <1>1, <1>3, <2>0, <2>1, <3>1, SteppedAlong DEF DropInstances
  <2>2. CASE (\E m \in vm[c] : vm' = [vm EXCEPT ![c] = @ \ {m}]) /\ UNCHANGED <<cli, said>>
    <3>1. vm' \in [Names -> SUBSET Machine] /\ \A d \in Names : IsFiniteSet(vm'[d])
      <4>1. vm' \in [Names -> SUBSET Machine] /\ \A d \in Names : vm'[d] \subseteq vm[d]
        BY <1>1, <2>2
      <4> QED
        BY <4>1, SubsetsFinite
    <3>2. Becomes(c, me)
      BY <1>1, <2>2 DEF Becomes, TypeOK
    <3> QED
      BY <1>1, <1>3, <2>0, <3>1, <3>2, SteppedBy DEF DropInstances
  <2> QED
    BY <1>3, <2>1, <2>2 DEF DropInstances
<1>4. CASE DropTracked(c)
  <2> DEFINE found == {m \in vm[c] : m.node = me.next}
             n == [me EXCEPT !.missed = @ \/ found = {}]
  <2>1. /\ n \in Command /\ n.at = me.at /\ n.op = me.op /\ n.next = me.next
        /\ Programmed(cloud, me.op) /\ me.at = "dropTracked"
    BY <1>1, <1>4, OpAt DEF DropTracked, Command, At
  <2>2. vm' \in [Names -> SUBSET Machine] /\ \A d \in Names : IsFiniteSet(vm'[d])
    <3>1. vm' = [vm EXCEPT ![c] = vm[c] \ found]
      BY <1>1, <1>4 DEF DropTracked
    <3>2. vm' \in [Names -> SUBSET Machine] /\ \A d \in Names : vm'[d] \subseteq vm[d]
      BY <1>1, <3>1
    <3> QED
      BY <3>2, SubsetsFinite
  <2>3. Loop(c, n, Workers)
    BY <1>4 DEF DropTracked
  <2>4. \/ Becomes(c, [n EXCEPT !.next = @ + 1])
        \/ Becomes(c, Advanced(n))
    BY <1>1, <2>1, <2>3, Looped
  <2>5. CASE Becomes(c, Advanced(n))
    BY <1>1, <1>4, <2>1, <2>2, <2>5, SteppedAlong DEF DropTracked
  <2>6. CASE Becomes(c, [n EXCEPT !.next = @ + 1])
    <3>1. /\ [n EXCEPT !.next = @ + 1] \in Command
          /\ [n EXCEPT !.next = @ + 1].at = "dropTracked" /\ [n EXCEPT !.next = @ + 1].op = me.op
      BY <2>1, Counted
    <3>2. Placed(cloud, [n EXCEPT !.next = @ + 1]) /\ ~Making(cloud, [n EXCEPT !.next = @ + 1])
      BY <1>1, <2>1, <3>1 DEF Placed, Making
    <3> QED
      BY <1>1, <1>4, <2>2, <2>6, <3>1, <3>2, SteppedBy DEF DropTracked
  <2> QED
    BY <2>4, <2>5, <2>6
<1>5. CASE DropGroup(c)
  <2>0. me.at = "dropGroup" /\ Programmed(cloud, me.op)
    BY <1>5, OpAt DEF DropGroup, At
  <2>1. CASE ~Foreign(c) /\ Standing(c)
    <3>1. /\ vm' \in [Names -> SUBSET Machine] /\ \A d \in Names : IsFiniteSet(vm'[d])
          /\ parts' \in [Names -> SUBSET {"network", "subnets", "firewall", "foreign"}]
      BY <1>1, <1>5, <1>g, <2>1 DEF DropGroup
    <3>2. Becomes(c, Advanced(me))
      BY <1>1, <1>5, <2>1, Proceeded DEF DropGroup
    <3> QED
      BY <1>1, <1>5, <2>0, <2>1, <3>1, <3>2, SteppedAlong DEF DropGroup
  <2>2. CASE ~(~Foreign(c) /\ Standing(c))
    <3> DEFINE n == [me EXCEPT !.missed = @ \/ ~Foreign(c)]
    <3>1. n \in Command /\ n.at = me.at /\ n.op = me.op /\ n.next = me.next
      BY <1>1 DEF Command
    <3>2. Becomes(c, Advanced(n))
      BY <1>1, <1>5, <2>2, <3>1, Proceeded DEF DropGroup
    <3> QED
      BY <1>1, <1>5, <2>0, <2>2, <3>1, <3>2, SteppedAlong DEF DropGroup
  <2> QED
    BY <2>1, <2>2
<1>6. CASE DropGroupFails(c)
  <2>1. /\ vm' \in [Names -> SUBSET Machine] /\ \A d \in Names : IsFiniteSet(vm'[d])
        /\ parts' \in [Names -> SUBSET {"network", "subnets", "firewall", "foreign"}]
    BY <1>1, <1>6, <1>g DEF DropGroupFails
  <2>2. Becomes(c, NoCommand)
    BY <1>1, <1>6, Ended DEF DropGroupFails, Said
  <2>3. /\ cli' \in [Names -> Command] /\ cli'[c] = NoCommand
        /\ \A d \in Names \ {c} : cli'[d] = cli[d] /\ key'[d] = key[d]
    BY <1>1, <1>6, <2>2, NoCommandFine DEF DropGroupFails, Becomes, TypeOK
  <2>4. TypeOK'
    BY <1>1, <1>6, <1>f, <2>1, <2>2, <2>3 DEF DropGroupFails, TypeOK, Becomes
  <2>5. cloud' = cloud /\ registered' = registered
    BY <1>6 DEF DropGroupFails
  <2>6. HasKey(c)'
    <3>1. ~Making(cloud', cli'[c])
      BY <2>3, <2>5, NoCommandFine
    <3> QED
      BY <3>1 DEF HasKey
  <2> QED
    BY <2>1, <2>3, <2>4, <2>5, <2>6, NoCommandFine DEF Stepped
<1>7. CASE Shrink(c)
  <2>1. PICK r \in me.seen : Shrink(c)!2!(r)
    BY <1>7 DEF Shrink
  <2>2. vm' \in [Names -> SUBSET Machine] /\ \A d \in Names : IsFiniteSet(vm'[d])
    <3>1. vm' = [vm EXCEPT ![c] = {m \in vm[c] : ~IsOf(m, r)}]
      BY <1>1, <2>1
    <3>2. vm' \in [Names -> SUBSET Machine] /\ \A d \in Names : vm'[d] \subseteq vm[d]
      BY <1>1, <3>1
    <3> QED
      BY <3>2, SubsetsFinite
  <2>3. CASE End(c, "scaled")
    BY <1>1, <1>7, <2>2, <2>3, Ended, SteppedEnd DEF Shrink, Said
  <2>4. CASE cli' = [cli EXCEPT ![c].seen = @ \ {r}] /\ UNCHANGED said
    <3> DEFINE n == [me EXCEPT !.seen = @ \ {r}]
    <3>1. n \in Command /\ n.at = me.at /\ n.op = me.op /\ n.next = me.next
      BY <1>1 DEF Command
    <3>2. Becomes(c, n)
      BY <1>1, <2>4 DEF Becomes, TypeOK
    <3>3. Placed(cloud, n) /\ Making(cloud, n) = Making(cloud, me)
      BY <1>1, <3>1 DEF Placed, Making
    <3> QED
      BY <1>1, <1>7, <2>2, <3>1, <3>2, <3>3, SteppedBy DEF Shrink
  <2> QED
    BY <2>1, <2>3, <2>4
<1> QED
  BY <1>2, <1>3, <1>4, <1>5, <1>6, <1>7

\* Steps of a creation, or of a reset, on one machine.
LEMMA TypesOfMachineSteps ==
    ASSUME TypeInv, NEW c \in Names,
           PrepareHost(c) \/ InitMaster(c) \/ JoinWorker(c) \/ Reset(c)
    PROVE  Stepped(c)
<1> DEFINE me == cli[c]
<1>1. /\ me \in Command /\ me.op \in Ops /\ TypeOK /\ faults \in 0..MaxFaults
      /\ \A d \in Names : IsFiniteSet(vm[d])
      /\ vm \in [Names -> SUBSET Machine] /\ file \in Trackers /\ cloud \in SixClouds
      /\ parts \in [Names -> SUBSET {"network", "subnets", "firewall", "foreign"}]
      /\ Placed(cloud, me)
      /\ \A m \in vm[c] : m \in Machine /\ RefTo(m) \in Ref /\ m.ca \in Keys \cup {Absent}
  BY CloudSix DEF TypeInv, TypeOK, Command, Machine, RefTo, Ref
<1> DEFINE Rest == UNCHANGED <<cloud, key, registered, parts, file, faults>>
<1>l. ASSUME NEW n \in Command, n.at = me.at, n.op = me.op, n.next = me.next, NEW last,
             Programmed(cloud, me.op), me.at \notin {"await", "key", "machine", "grow", "joinNew"},
             Loop(c, n, last), Rest,
             vm' \in [Names -> SUBSET Machine], \A d \in Names : IsFiniteSet(vm'[d])
      PROVE  Stepped(c)
  <2>1. \/ Becomes(c, [n EXCEPT !.next = @ + 1])
        \/ Becomes(c, Advanced(n))
    BY <1>1, <1>l, Looped
  <2>2. CASE Becomes(c, Advanced(n))
    BY <1>1, <1>l, <2>2, SteppedAlong
  <2>3. CASE Becomes(c, [n EXCEPT !.next = @ + 1])
    <3>1. /\ [n EXCEPT !.next = @ + 1] \in Command
          /\ [n EXCEPT !.next = @ + 1].at = me.at /\ [n EXCEPT !.next = @ + 1].op = me.op
      BY <1>l, Counted
    <3>2. /\ Placed(cloud, [n EXCEPT !.next = @ + 1])
          /\ Making(cloud, [n EXCEPT !.next = @ + 1]) = Making(cloud, me)
      BY <1>1, <1>l, <3>1 DEF Placed, Making
    <3> QED
      BY <1>1, <1>l, <2>3, <3>1, <3>2, SteppedBy
  <2> QED
    BY <2>1, <2>2, <2>3
<1>2. CASE PrepareHost(c)
  <2>1. PICK m \in vm[c] :
           /\ Change(c, m, IF m.version = Absent THEN [m EXCEPT !.version = Asked] ELSE m)
           /\ Loop(c, [me EXCEPT !.mine = @ \cup {RefTo(m)}], Workers)
    BY <1>2 DEF PrepareHost
  <2>2. vm' \in [Names -> SUBSET Machine] /\ \A d \in Names : IsFiniteSet(vm'[d])
    <3>1. (IF m.version = Absent THEN [m EXCEPT !.version = Asked] ELSE m) \in Machine
      BY <1>1, VersionsAssumption DEF Machine
    <3> QED
      BY <2>1, <3>1, ChangeFinite
  <2> DEFINE n == [me EXCEPT !.mine = @ \cup {RefTo(m)}]
  <2>3. n \in Command /\ n.at = me.at /\ n.op = me.op /\ n.next = me.next
    BY <1>1 DEF Command
  <2>4. Rest /\ me.at = "prepare" /\ Programmed(cloud, me.op)
    BY <1>2, OpAt DEF PrepareHost, At, Programmed
  <2> HIDE DEF n
  <2> QED
    BY <1>l, <2>1, <2>2, <2>3, <2>4 DEF n
<1>3. CASE InitMaster(c)
  <2>1. PICK m \in Reached(c, me.mine), k \in Keys :
           \/ /\ m.ca # Absent /\ UNCHANGED vm /\ Proceed(c, [me EXCEPT !.token = m.ca])
           \/ /\ Change(c, m, [m EXCEPT !.ca = k])
              /\ Proceed(c, [me EXCEPT !.token = k])
    BY <1>3, KeyNumbers DEF InitMaster
  <2>2. m \in vm[c] /\ m \in Machine /\ m.ca \in Keys \cup {Absent}
    BY <1>1 DEF Reached
  <2>3. vm' \in [Names -> SUBSET Machine] /\ \A d \in Names : IsFiniteSet(vm'[d])
    <3>1. [m EXCEPT !.ca = k] \in Machine
      BY <2>2 DEF Machine
    <3> QED
      BY <1>1, <2>1, <2>2, <3>1, ChangeFinite
  <2>4. PICK t \in Keys \cup {Absent} : Proceed(c, [me EXCEPT !.token = t])
    BY <2>1, <2>2
  <2> DEFINE n == [me EXCEPT !.token = t]
  <2>5. n \in Command /\ n.at = me.at /\ n.op = me.op /\ n.next = me.next
    BY <1>1 DEF Command
  <2>6. Rest /\ me.at = "init" /\ Programmed(cloud, me.op)
    BY <1>3, OpAt DEF InitMaster, At, Programmed
  <2>7. Becomes(c, Advanced(n))
    BY <1>1, <2>4, <2>5, Proceeded
  <2> QED
    BY <1>1, <2>3, <2>5, <2>6, <2>7, SteppedAlong
<1>4. CASE JoinWorker(c)
  <2>1. PICK m \in Reached(c, me.mine) :
           Change(c, m, IF m.ca # Absent THEN m ELSE [m EXCEPT !.ca = me.token])
    BY <1>4 DEF JoinWorker
  <2>2. m \in vm[c] /\ m \in Machine
    BY <1>1 DEF Reached
  <2>3. vm' \in [Names -> SUBSET Machine] /\ \A d \in Names : IsFiniteSet(vm'[d])
    <3>1. (IF m.ca # Absent THEN m ELSE [m EXCEPT !.ca = me.token]) \in Machine
      BY <1>1, <2>2 DEF Machine, Command
    <3> QED
      BY <2>1, <2>2, <3>1, ChangeFinite
  <2>4. Rest /\ me.at = "join" /\ Programmed(cloud, me.op) /\ Loop(c, me, Workers - 1)
    BY <1>4, OpAt DEF JoinWorker, At, Programmed
  <2> QED
    BY <1>1, <1>l, <2>3, <2>4
<1>5. CASE Reset(c)
  <2>1. PICK m \in vm[c] : Change(c, m, [m EXCEPT !.ca = Absent])
    BY <1>5 DEF Reset
  <2>3. vm' \in [Names -> SUBSET Machine] /\ \A d \in Names : IsFiniteSet(vm'[d])
    <3>1. [m EXCEPT !.ca = Absent] \in Machine
      BY <1>1 DEF Machine
    <3> QED
      BY <2>1, <3>1, ChangeFinite
  <2>4. Rest /\ me.at = "reset" /\ Programmed(cloud, me.op) /\ Loop(c, me, Workers)
    BY <1>5, OpAt DEF Reset, At, Programmed
  <2> QED
    BY <1>1, <1>l, <2>3, <2>4
<1> QED
  BY <1>2, <1>3, <1>4, <1>5

\* The cloud starting a machine, a tag deleted, and the steps of `scale` and
\* `upgrade` on one machine.
LEMMA TypesOfOtherSteps ==
    ASSUME TypeInv, NEW c \in Names,
           \/ Boots(c) \/ JoinNew(c) \/ UpgradeMaster(c) \/ UpgradePassesOver(c)
           \/ UpgradeWorker(c) \/ DropTags(c)
    PROVE  Stepped(c)
<1> DEFINE me == cli[c]
<1>1. /\ me \in Command /\ me.op \in Ops /\ TypeOK /\ faults \in 0..MaxFaults
      /\ \A d \in Names : IsFiniteSet(vm[d])
      /\ vm \in [Names -> SUBSET Machine] /\ file \in Trackers /\ cloud \in SixClouds
      /\ parts \in [Names -> SUBSET {"network", "subnets", "firewall", "foreign"}]
      /\ Placed(cloud, me)
      /\ \A m \in vm[c] : m \in Machine /\ RefTo(m) \in Ref /\ m.ca \in Keys \cup {Absent}
  BY CloudSix DEF TypeInv, TypeOK, Command, Machine, RefTo, Ref
<1> DEFINE Rest == UNCHANGED <<cloud, key, registered, parts, file, faults>>
<1>b. ASSUME NEW n \in Command, n.at = me.at, n.op = me.op, n.next = me.next, Rest,
             Becomes(c, n),
             vm' \in [Names -> SUBSET Machine], \A d \in Names : IsFiniteSet(vm'[d])
      PROVE  Stepped(c)
  <2>1. Placed(cloud, n) /\ Making(cloud, n) = Making(cloud, me)
    BY <1>1, <1>b DEF Placed, Making
  <2> QED
    BY <1>1, <1>b, <2>1, SteppedBy
<1>2. CASE Boots(c)
  <2>1. PICK m \in vm[c] : Change(c, m, [m EXCEPT !.up = TRUE])
    BY <1>2 DEF Boots
  <2>2. vm' \in [Names -> SUBSET Machine] /\ \A d \in Names : IsFiniteSet(vm'[d])
    <3>1. [m EXCEPT !.up = TRUE] \in Machine
      BY <1>1 DEF Machine
    <3> QED
      BY <2>1, <3>1, ChangeFinite
  <2>3. Rest /\ Becomes(c, me)
    BY <1>1, <1>2 DEF Boots, Becomes, TypeOK
  <2> QED
    BY <1>1, <1>b, <2>2, <2>3
<1>3. CASE JoinNew(c)
  <2>0. Rest /\ me.at = "joinNew" /\ me.op = "scale" /\ cloud = "digitalocean"
    BY <1>3, OpAt DEF JoinNew, At
  <2>1. PICK m \in Reached(c, me.mine) :
           \/ End(c, "failed") /\ UNCHANGED vm
           \/ /\ Change(c, m, [m EXCEPT !.ca = me.token])
              /\ cli' = [cli EXCEPT ![c].at = "grow", ![c].next = @ + 1, ![c].mine = {}]
              /\ UNCHANGED said
    BY <1>3 DEF JoinNew
  <2>2. m \in vm[c] /\ m \in Machine
    BY <1>1 DEF Reached
  <2>3. CASE End(c, "failed") /\ UNCHANGED vm
    BY <1>1, <2>0, <2>3, Ended, SteppedEnd DEF Said
  <2>4. CASE /\ Change(c, m, [m EXCEPT !.ca = me.token])
             /\ cli' = [cli EXCEPT ![c].at = "grow", ![c].next = @ + 1, ![c].mine = {}]
             /\ UNCHANGED said
    <3>1. vm' \in [Names -> SUBSET Machine] /\ \A d \in Names : IsFiniteSet(vm'[d])
      <4>1. [m EXCEPT !.ca = me.token] \in Machine
        BY <1>1, <2>2 DEF Machine, Command
      <4> QED
        BY <2>2, <2>4, <4>1, ChangeFinite
    <3> DEFINE n == [me EXCEPT !.at = "grow", !.next = @ + 1, !.mine = {}]
    <3>2. n \in Command /\ n.at = "grow" /\ n.op = me.op /\ n.next = me.next + 1
      BY <1>1, Joined
    <3>3. Becomes(c, n)
      BY <1>1, <2>4 DEF Becomes, TypeOK
    <3>4. Placed(cloud, n) /\ Making(cloud, me)
      <4>1. me.next \in Nat
        BY <1>1 DEF Command
      <4> QED
        BY <1>1, <2>0, <3>2, <4>1 DEF Placed, Making, StepsOf
    <3> QED
      BY <1>1, <2>0, <3>1, <3>2, <3>3, <3>4, SteppedBy
  <2> QED
    BY <2>1, <2>3, <2>4
<1>u. ASSUME NEW read, read \subseteq UpgradeWorkersOf(c), UpgradeWith(c, read),
             me.at = "upgradeMaster", UNCHANGED <<cloud, key, registered, parts, file>>,
             faults' \in 0..MaxFaults
      PROVE  Stepped(c)
  <2> DEFINE n == [me EXCEPT !.seen = {RefTo(w) : w \in read},
                             !.missed = read # UpgradeWorkersOf(c)]
             X == [n EXCEPT !.at = "upgradeWorkers", !.next = 0]
  <2>1. PICK m \in vm[c] : /\ Change(c, m, [m EXCEPT !.version = Target])
                           /\ GoTo(c, n, "upgradeWorkers")
    BY <1>u DEF UpgradeWith, ControlPlanes, Masters
  <2>2. vm' \in [Names -> SUBSET Machine] /\ \A d \in Names : IsFiniteSet(vm'[d])
    <3>1. [m EXCEPT !.version = Target] \in Machine
      BY <1>1, VersionsAssumption DEF Machine
    <3> QED
      BY <2>1, <3>1, ChangeFinite
  <2>3. n \in Command /\ n.op = me.op
    <3>1. {RefTo(w) : w \in read} \subseteq Ref
      BY <1>1, <1>u DEF UpgradeWorkersOf, Others
    <3> QED
      BY <1>1, <3>1 DEF Command
  <2> HIDE DEF n
  <2>4. X \in Command /\ X.at = "upgradeWorkers" /\ X.op = me.op
    BY <2>3 DEF Command, Steps
  <2>5. Becomes(c, X)
    BY <1>1, <2>1 DEF GoTo, Becomes, TypeOK
  <2>6. Placed(cloud, X) /\ ~Making(cloud, X)
    BY <1>u, <2>4, OpAt DEF Placed, Making, StepsOf
  <2> QED
    BY <1>1, <1>u, <2>2, <2>4, <2>5, <2>6, SteppedBy
<1>4. CASE UpgradeMaster(c)
  <2>0. Rest /\ me.at = "upgradeMaster"
    BY <1>4 DEF UpgradeMaster, At
  <2>1. CASE End(c, "failed") /\ UNCHANGED vm
    BY <1>1, <2>0, <2>1, Ended, SteppedEnd DEF Said
  <2> QED
    BY <1>1, <1>4, <1>u, <2>0, <2>1 DEF UpgradeMaster
<1>7. CASE UpgradePassesOver(c)
  <2>1. faults' \in 0..MaxFaults
    BY <1>1, <1>7, LimitsAssumption DEF UpgradePassesOver, Fault
  <2> QED
    BY <1>7, <1>u, <2>1 DEF UpgradePassesOver, At
<1>5. CASE UpgradeWorker(c)
  <2>0. Rest /\ me.at = "upgradeWorkers"
    BY <1>5 DEF UpgradeWorker, At
  <2>1. CASE \E answer \in Said : End(c, answer) /\ UNCHANGED vm
    BY <1>1, <2>0, <2>1, Ended, SteppedEnd
  <2>2. CASE \E r \in me.seen, m \in vm[c] :
                /\ Change(c, m, [m EXCEPT !.version = Target])
                /\ cli' = [cli EXCEPT ![c].seen = @ \ {r}]
                /\ UNCHANGED said
    <3>1. PICK r \in me.seen, m \in vm[c] :
             /\ Change(c, m, [m EXCEPT !.version = Target])
             /\ cli' = [cli EXCEPT ![c].seen = @ \ {r}]
             /\ UNCHANGED said
      BY <2>2
    <3>2. vm' \in [Names -> SUBSET Machine] /\ \A d \in Names : IsFiniteSet(vm'[d])
      <4>1. [m EXCEPT !.version = Target] \in Machine
        BY <1>1, VersionsAssumption DEF Machine
      <4> QED
        BY <3>1, <4>1, ChangeFinite
    <3> DEFINE n == [me EXCEPT !.seen = @ \ {r}]
    <3>3. n \in Command /\ n.at = me.at /\ n.op = me.op /\ n.next = me.next
      BY <1>1 DEF Command
    <3>4. Becomes(c, n)
      BY <1>1, <3>1 DEF Becomes, TypeOK
    <3> HIDE DEF n
    <3> QED
      BY <1>b, <2>0, <3>2, <3>3, <3>4
  <2>3. CASE me.seen = {}
    <3>1. \E answer \in Said : End(c, answer)
      BY <1>1, <1>5, <2>3 DEF UpgradeWorker, GoTo, Answer, Said
    <3>2. UNCHANGED vm
      BY <1>5, <2>3 DEF UpgradeWorker
    <3> QED
      BY <2>1, <3>1, <3>2
  <2>4. CASE me.seen # {}
    <3>1. \/ End(c, "failed") /\ UNCHANGED vm
          \/ \E r \in me.seen, m \in vm[c] :
                /\ Change(c, m, [m EXCEPT !.version = Target])
                /\ cli' = [cli EXCEPT ![c].seen = @ \ {r}]
                /\ UNCHANGED said
      BY <1>5, <2>4 DEF UpgradeWorker
    <3> QED
      BY <2>1, <2>2, <3>1 DEF Said
  <2> QED
    BY <2>3, <2>4
<1>6. CASE DropTags(c)
  <2>1. me.at = "dropTags" /\ Programmed(cloud, me.op) /\ Becomes(c, Advanced(me)) /\ Rest
    <3>1. me.at = "dropTags" /\ Rest /\ Proceed(c, me)
      BY <1>6 DEF DropTags, At
    <3>2. Programmed(cloud, me.op)
      BY <3>1, OpAt
    <3>3. Becomes(c, Advanced(me))
      BY <1>1, <3>1, Proceeded
    <3> QED
      BY <3>1, <3>2, <3>3
  <2>2. vm' \in [Names -> SUBSET Machine]
    <3>1. ASSUME NEW d \in Names, NEW m \in vm[d] PROVE [m EXCEPT !.role = FALSE] \in Machine
      <4>1. m \in Machine
        BY <1>1
      <4> QED
        BY <4>1 DEF Machine
    <3>2. ASSUME NEW d \in Names
          PROVE  {[m EXCEPT !.role = FALSE] : m \in vm[d]} \in SUBSET Machine
      BY <3>1
    <3>3. vm' = [d \in Names |-> {[m EXCEPT !.role = FALSE] : m \in vm[d]}]
      BY <1>6 DEF DropTags
    <3> QED
      BY <3>2, <3>3
  <2>3. ASSUME NEW d \in Names PROVE IsFiniteSet(vm'[d])
    <3> DEFINE T == {[m EXCEPT !.role = FALSE] : m \in vm[d]}
               f == [m \in vm[d] |-> [m EXCEPT !.role = FALSE]]
    <3>1. f \in Surjection(vm[d], T)
      BY DEF Surjection
    <3>2. vm'[d] = T
      BY <1>6 DEF DropTags
    <3> QED
      BY <1>1, <3>1, <3>2, FS_Surjection
  <2> QED
    BY <1>1, <2>1, <2>2, <2>3, SteppedAlong
<1> QED
  BY <1>2, <1>3, <1>4, <1>5, <1>6, <1>7

\* A machine made while the key is there.
LEMMA TypesOfProvision ==
    ASSUME TypeInv, NEW c \in Names, NEW n \in Nodes, NEW version \in Nat,
           Making(cloud, cli[c]), cli[c].at \in {"machine", "grow"},
           Provision(c, n, version), UNCHANGED said,
           UNCHANGED <<cloud, key, registered, parts, file, faults>>
    PROVE  Stepped(c)
<1> DEFINE me == cli[c]
<1>1. /\ me \in Command /\ TypeOK /\ faults \in 0..MaxFaults
      /\ \A d \in Names : IsFiniteSet(vm[d])
      /\ vm \in [Names -> SUBSET Machine] /\ file \in Trackers /\ cloud \in SixClouds
      /\ parts \in [Names -> SUBSET {"network", "subnets", "firewall", "foreign"}]
      /\ key \in [Names -> Keys \cup {Absent}] /\ registered \in [Names -> Keys \cup {Absent}]
      /\ Placed(cloud, me)
  BY CloudSix DEF TypeInv, TypeOK
<1>2. PICK k \in Copies :
         /\ vm' = [vm EXCEPT ![c] = @ \cup {Made(c, n, k, version)}]
         /\ cli' = [cli EXCEPT ![c].at = "await",
                              ![c].mine = @ \cup {[node |-> n, copy |-> k, addr |-> TRUE]}]
  BY DEF Provision
<1>3. Made(c, n, k, version) \in Machine
  <2>1. key[c] \in Keys /\ (Registers => registered[c] \in Keys)
    BY <1>1 DEF TypeInv, HasKey
  <2> QED
    BY <2>1 DEF Made, Machine
<1>4. vm' \in [Names -> SUBSET Machine] /\ \A d \in Names : IsFiniteSet(vm'[d])
  <2>1. IsFiniteSet(vm[c] \cup {Made(c, n, k, version)})
    BY <1>1, FS_AddElement
  <2> QED
    BY <1>1, <1>2, <1>3, <2>1
<1> DEFINE X == [me EXCEPT !.at = "await",
                           !.mine = @ \cup {[node |-> n, copy |-> k, addr |-> TRUE]}]
<1>5. X \in Command /\ X.at = "await" /\ X.op = me.op /\ X.next = me.next
  <2>1. "await" \in Steps /\ [node |-> n, copy |-> k, addr |-> TRUE] \in Ref
    BY DEF Steps, Ref
  <2> QED
    BY <1>1, <2>1 DEF Command
<1>6. Placed(cloud, X)
  <2>1. CASE me.at = "machine"
    <3>1. me.op = "create"
      BY <2>1, OpAt
    <3>2. "await" \in CreateSteps(cloud)
      BY <1>1, <2>1, <3>1 DEF Placed, StepsOf, CreateSteps, SixClouds
    <3> QED
      BY <1>1, <1>5, <2>1, <3>1, <3>2 DEF Placed, StepsOf
  <2>2. CASE me.at = "grow"
    BY <1>1, <1>5, <2>2, OpAt DEF Placed, StepsOf
  <2> QED
    BY <2>1, <2>2
<1>7. Becomes(c, X)
  BY <1>1, <1>2 DEF Becomes, TypeOK
<1> HIDE DEF X
<1> QED
  BY <1>1, <1>4, <1>5, <1>6, <1>7, SteppedBy

LEMMA TypesOfCreations ==
    ASSUME TypeInv, NEW c \in Names, CreateMachine(c) \/ Grow(c)
    PROVE  Stepped(c)
<1> DEFINE me == cli[c]
<1>1. /\ me \in Command /\ me.op \in Ops /\ TypeOK /\ faults \in 0..MaxFaults
      /\ \A d \in Names : IsFiniteSet(vm[d])
      /\ vm \in [Names -> SUBSET Machine] /\ file \in Trackers /\ cloud \in SixClouds
      /\ parts \in [Names -> SUBSET {"network", "subnets", "firewall", "foreign"}]
      /\ Placed(cloud, me) /\ me.next \in Nat
  BY CloudSix DEF TypeInv, TypeOK, Command
<1>r. ASSUME NEW m \in vm[c] PROVE [RefTo(m) EXCEPT !.addr = TRUE] \in Ref
  <2>1. m \in Machine
    BY <1>1
  <2> QED
    BY <2>1 DEF Machine, RefTo, Ref
<1> DEFINE Rest == UNCHANGED <<cloud, key, registered, parts, file, faults>>
<1>2. CASE CreateMachine(c)
  <2>1. /\ Rest /\ me.at = "machine" /\ me.op = "create" /\ Making(cloud, me)
        /\ me.next <= Workers /\ me.next \in Nodes
    <3>1. Rest /\ me.at = "machine" /\ me.op = "create"
      BY <1>2, OpAt DEF CreateMachine, At
    <3> QED
      BY <1>1, <3>1, WorkersAssumption DEF Making, Placed, Nodes
  <2>2. CASE End(c, "failed") /\ UNCHANGED vm
    BY <1>1, <2>1, <2>2, Ended, SteppedEnd DEF Said
  <2>3. CASE Provision(c, me.next, Asked) /\ UNCHANGED said
    BY <2>1, <2>3, TypesOfProvision, VersionsAssumption
  <2>4. CASE UNCHANGED vm /\ \E r \in Ref : Loop(c, [me EXCEPT !.mine = @ \cup {r}], Workers)
    <3>1. PICK r \in Ref : Loop(c, [me EXCEPT !.mine = @ \cup {r}], Workers)
      BY <2>4
    <3> DEFINE n == [me EXCEPT !.mine = @ \cup {r}]
    <3>2. n \in Command /\ n.at = me.at /\ n.op = me.op /\ n.next = me.next
      BY <1>1 DEF Command
    <3> HIDE DEF n
    <3>3. \/ n.next < Workers /\ Becomes(c, [n EXCEPT !.next = @ + 1])
          \/ Becomes(c, Advanced(n))
      <4>1. Loop(c, n, Workers)
        BY <3>1 DEF n
      <4> QED
        BY <1>1, <3>2, <4>1, Looped
    <3>4. CASE Becomes(c, Advanced(n))
      BY <1>1, <2>1, <2>4, <3>2, <3>4, SteppedAlong DEF Programmed
    <3>5. CASE n.next < Workers /\ Becomes(c, [n EXCEPT !.next = @ + 1])
      <4> DEFINE X == [n EXCEPT !.next = @ + 1]
      <4>1. X \in Command /\ X.at = "machine" /\ X.op = "create" /\ X.next = me.next + 1
        BY <2>1, <3>2, Counted
      <4> HIDE DEF X
      <4>2. Placed(cloud, X)
        BY <1>1, <2>1, <3>2, <3>5, <4>1, WorkersAssumption DEF Placed
      <4>3. Becomes(c, X)
        BY <3>5 DEF X
      <4> QED
        BY <1>1, <2>1, <2>4, <4>1, <4>2, <4>3, SteppedBy
    <3> QED
      BY <3>3, <3>4, <3>5
  <2> DEFINE known == IF cloud = "digitalocean" THEN {r \in me.seen : r.node = me.next}
                      ELSE IF cloud = "azure" THEN {[RefTo(m) EXCEPT !.addr = TRUE] :
                                                      m \in {x \in vm[c] : x.node = me.next}}
                      ELSE {}
  <2>5. known \subseteq Ref
    BY <1>1, <1>r DEF Command
  <2>6. \/ (\E r \in known : Loop(c, [me EXCEPT !.mine = @ \cup {r}], Workers)) /\ UNCHANGED vm
        \/ End(c, "failed") /\ UNCHANGED vm
        \/ Provision(c, me.next, Asked) /\ UNCHANGED said
    BY <1>2 DEF CreateMachine
  <2> HIDE DEF known
  <2> QED
    BY <2>2, <2>3, <2>4, <2>5, <2>6
<1>3. CASE Grow(c)
  <2>1. Rest /\ me.at = "grow" /\ Making(cloud, me)
    BY <1>3 DEF Grow, At, Making
  <2>2. CASE End(c, "scaled") /\ UNCHANGED vm
    BY <1>1, <2>1, <2>2, Ended, SteppedEnd DEF Said
  <2>3. CASE /\ me.next <= me.want
             /\ Provision(c, Workers + me.next, Default) /\ UNCHANGED said
    <3>1. me.want \in 0..MostWorkers
      BY <1>1 DEF Command
    <3>2. Workers + me.next \in Nodes
      BY <1>1, <2>3, <3>1, WorkersAssumption DEF Nodes
    <3> QED
      BY <2>1, <2>3, <3>2, TypesOfProvision, VersionsAssumption
  <2>4. me.want \in Nat
    BY <1>1, WorkersAssumption DEF Command
  <2> QED
    BY <1>1, <1>3, <2>2, <2>3, <2>4 DEF Grow
<1> QED
  BY <1>2, <1>3

\* Steps that change keys.
LEMMA TypesOfKeys ==
    ASSUME TypeInv, NEW c \in Names, EnsureKey(c) \/ DropKey(c) \/ Forget(c) \/ Survey(c)
    PROVE  Stepped(c)
<1> DEFINE me == cli[c]
<1>1. /\ me \in Command /\ me.op \in Ops /\ TypeOK /\ faults \in 0..MaxFaults
      /\ \A d \in Names : IsFiniteSet(vm[d])
      /\ vm \in [Names -> SUBSET Machine] /\ file \in Trackers /\ cloud \in SixClouds
      /\ parts \in [Names -> SUBSET {"network", "subnets", "firewall", "foreign"}]
      /\ key \in [Names -> Keys \cup {Absent}] /\ registered \in [Names -> Keys \cup {Absent}]
      /\ Placed(cloud, me) /\ me.next \in Nat
  BY CloudSix DEF TypeInv, TypeOK, Command
<1>k. ASSUME NEW X \in Command, Becomes(c, X), Placed(cloud, X),
             UNCHANGED <<cloud, vm, file, faults>>,
             parts' \in [Names -> SUBSET {"network", "subnets", "firewall", "foreign"}],
             key' \in [Names -> Keys \cup {Absent}],
             registered' \in [Names -> Keys \cup {Absent}],
             \A d \in Names \ {c} : key'[d] = key[d] /\ registered'[d] = registered[d],
             Making(cloud, X) => key'[c] # Absent /\ (Registers => registered'[c] # Absent)
      PROVE  Stepped(c)
  <2>1. cli' \in [Names -> Command] /\ cli'[c] = X /\ \A d \in Names \ {c} : cli'[d] = cli[d]
    BY <1>1, <1>k DEF Becomes, TypeOK
  <2>2. TypeOK'
    BY <1>1, <1>k, <2>1 DEF TypeOK, Becomes
  <2>3. HasKey(c)'
    <3>1. Making(cloud', cli'[c]) = Making(cloud, X)
      BY <1>k, <2>1
    <3> QED
      BY <1>k, <3>1 DEF HasKey, Registers
  <2>4. Placed(cloud, cli'[c])
    BY <1>k, <2>1
  <2> QED
    BY <1>1, <1>k, <2>1, <2>2, <2>3, <2>4 DEF Stepped
<1>a. ASSUME Programmed(cloud, me.op), me.at # "await", Proceed(c, me)
      PROVE  /\ Becomes(c, Advanced(me)) /\ Advanced(me) \in Command
             /\ Placed(cloud, Advanced(me))
             /\ Making(cloud, Advanced(me)) => me.at = "key" \/ Making(cloud, me)
  BY <1>1, <1>a, AdvancedFine, Proceeded
<1>2. CASE EnsureKey(c)
  <2>1. me.at = "key" /\ Programmed(cloud, me.op)
    BY <1>2, OpAt DEF EnsureKey, At, Programmed
  <2>2. /\ key' \in [Names -> Keys \cup {Absent}] /\ key'[c] \in Keys
        /\ \A d \in Names \ {c} : key'[d] = key[d]
    BY <1>1, <1>2 DEF EnsureKey, EnsureLocalKey
  <2>3. /\ registered' \in [Names -> Keys \cup {Absent}]
        /\ Registers => registered'[c] \in Keys
        /\ \A d \in Names \ {c} : registered'[d] = registered[d]
    BY <1>1, <1>2, <2>2 DEF EnsureKey
  <2>4. UNCHANGED <<cloud, vm, file, faults, parts>> /\ Proceed(c, me)
    BY <1>2 DEF EnsureKey
  <2> QED
    BY <1>1, <1>a, <1>k, <2>1, <2>2, <2>3, <2>4, KeyNumbers
<1>3. CASE DropKey(c)
  <2>1. me.at = "dropKey" /\ Programmed(cloud, me.op) /\ ~Making(cloud, me)
    BY <1>3, OpAt DEF DropKey, At, Making
  <2>2. UNCHANGED <<cloud, key, vm, file, faults, parts>> /\ Proceed(c, me)
    BY <1>3 DEF DropKey
  <2>3. /\ registered' \in [Names -> Keys \cup {Absent}]
        /\ \A d \in Names \ {c} : registered'[d] = registered[d]
    BY <1>1, <1>3 DEF DropKey
  <2> QED
    BY <1>1, <1>a, <1>k, <2>1, <2>2, <2>3
<1>4. CASE Forget(c)
  <2>1. me.at = "forget" /\ Programmed(cloud, me.op) /\ ~Making(cloud, me)
    BY <1>4, OpAt DEF Forget, At, Making
  <2>2. UNCHANGED <<cloud, registered, vm, file, faults, parts>> /\ Proceed(c, me)
    BY <1>4 DEF Forget, account
  <2>3. /\ key' \in [Names -> Keys \cup {Absent}]
        /\ \A d \in Names \ {c} : key'[d] = key[d]
    BY <1>1, <1>4 DEF Forget
  <2> QED
    BY <1>1, <1>a, <1>k, <2>1, <2>2, <2>3
<1>5. CASE Survey(c)
  <2> DEFINE count == Cardinality(Others(c))
             grows == me.want > count
  <2>1. count \in Nat
    <3>1. IsFiniteSet(Others(c))
      BY <1>1, FS_Subset DEF Others
    <3> QED
      BY <3>1, FS_CardinalityType
  <2>2. /\ me.op = "scale" /\ cloud = "digitalocean"
        /\ UNCHANGED <<cloud, key, vm, file, faults>>
        /\ parts' \in [Names -> SUBSET {"network", "subnets", "firewall", "foreign"}]
        /\ registered' \in [Names -> Keys \cup {Absent}]
        /\ \A d \in Names \ {c} : registered'[d] = registered[d]
        /\ grows => registered'[c] = IF registered[c] = Absent THEN key[c] ELSE registered[c]
    BY <1>1, <1>5, OpAt DEF Survey, At
  <2>3. \/ \E answer \in Said : End(c, answer)
        \/ GoTo(c, [me EXCEPT !.seen = {RefTo(m) : m \in Others(c)}], "shrink")
        \/ /\ grows /\ key[c] # Absent /\ UNCHANGED said
           /\ \E m \in Masters(c) :
                 cli' = [cli EXCEPT ![c] = [me EXCEPT !.at = "grow", !.next = count + 1,
                                                      !.token = m.ca]]
    BY <1>5 DEF Survey, Said
  <2>4. CASE \E answer \in Said : End(c, answer)
    BY <1>1, <1>k, <2>2, <2>4, Ended, NoCommandFine
  <2>5. CASE GoTo(c, [me EXCEPT !.seen = {RefTo(m) : m \in Others(c)}], "shrink")
    <3> DEFINE n == [me EXCEPT !.seen = {RefTo(m) : m \in Others(c)}]
               X == [n EXCEPT !.at = "shrink", !.next = 0]
    <3>1. {RefTo(m) : m \in Others(c)} \subseteq Ref
      <4>1. \A m \in vm[c] : m \in Machine
        BY <1>1
      <4> QED
        BY <4>1 DEF Others, RefTo, Ref, Machine
    <3>2. n \in Command /\ n.op = "scale"
      BY <1>1, <2>2, <3>1 DEF Command
    <3> HIDE DEF n
    <3>3. X \in Command /\ X.at = "shrink" /\ X.op = "scale"
      BY <3>2 DEF Command, Steps
    <3>4. Becomes(c, X)
      BY <1>1, <2>5 DEF GoTo, Becomes, TypeOK, n
    <3> HIDE DEF X
    <3>5. Placed(cloud, X) /\ ~Making(cloud, X)
      BY <2>2, <3>3 DEF Placed, Making, StepsOf
    <3> QED
      BY <1>1, <1>k, <2>2, <3>3, <3>4, <3>5
  <2>6. CASE /\ grows /\ key[c] # Absent /\ UNCHANGED said
             /\ \E m \in Masters(c) :
                   cli' = [cli EXCEPT ![c] = [me EXCEPT !.at = "grow", !.next = count + 1,
                                                        !.token = m.ca]]
    <3>1. PICK m \in Masters(c) :
             cli' = [cli EXCEPT ![c] = [me EXCEPT !.at = "grow", !.next = count + 1,
                                                  !.token = m.ca]]
      BY <2>6
    <3>2. m.ca \in Keys \cup {Absent}
      <4>1. m \in Machine
        BY <1>1 DEF Masters
      <4> QED
        BY <4>1 DEF Machine
    <3> DEFINE X == [me EXCEPT !.at = "grow", !.next = count + 1, !.token = m.ca]
    <3>3. X \in Command /\ X.at = "grow" /\ X.op = "scale" /\ X.next = count + 1
      <4>1. "grow" \in Steps /\ count + 1 \in Nat
        BY <2>1 DEF Steps
      <4> HIDE DEF count
      <4> QED
        BY <1>1, <2>2, <3>2, <4>1 DEF Command
    <3>4. Becomes(c, X)
      BY <1>1, <2>6, <3>1 DEF Becomes, TypeOK
    <3> HIDE DEF X
    <3>5. Placed(cloud, X)
      BY <2>1, <2>2, <3>3 DEF Placed, StepsOf
    <3>6. key'[c] # Absent /\ registered'[c] # Absent
      BY <1>1, <2>2, <2>6
    <3> QED
      BY <1>1, <1>k, <2>2, <3>3, <3>4, <3>5, <3>6
  <2> QED
    BY <2>3, <2>4, <2>5, <2>6
<1> QED
  BY <1>2, <1>3, <1>4, <1>5

LEMMA InitTyped == Init => TypeInv
<1> SUFFICES ASSUME Init PROVE TypeInv
  OBVIOUS
<1>1. ASSUME NEW c \in Names PROVE vm[c] \subseteq Machine /\ IsFiniteSet(vm[c])
  <2>1. CASE cloud # "custom"
    BY <2>1, FS_EmptySet DEF Init
  <2>2. CASE cloud = "custom"
    <3> DEFINE Host(n) == [node |-> n, copy |-> 1, key |-> 1, up |-> TRUE, role |-> n = 0,
                           ca |-> Absent, version |-> Absent]
               f == [n \in 0..Workers |-> Host(n)]
    <3>1. vm[c] = {Host(n) : n \in 0..Workers}
      BY <2>2 DEF Init
    <3>2. \A n \in 0..Workers : Host(n) \in Machine
      BY KeyNumbers, WorkersAssumption, LimitsAssumption
         DEF Machine, Nodes, Copies, Absent
    <3>3. IsFiniteSet(0..Workers)
      BY WorkersAssumption, FS_Interval
    <3>4. f \in Surjection(0..Workers, vm[c])
      BY <3>1 DEF Surjection
    <3>5. IsFiniteSet(vm[c])
      BY <3>3, <3>4, FS_Surjection
    <3> QED
      BY <3>1, <3>2, <3>5
  <2> QED
    BY <2>1, <2>2
<1>2. vm \in [Names -> SUBSET Machine]
  <2>1. vm = [c \in Names |-> vm[c]]
    BY DEF Init
  <2> QED
    BY <1>1, <2>1
<1>3. TypeOK
  BY <1>2, KeyNumbers, NoCommandFine, LimitsAssumption
     DEF Init, TypeOK, Trackers, NoTracker, Said
<1>4. \A c \in Names : cli[c] = NoCommand
  BY DEF Init
<1> QED
  BY <1>1, <1>3, <1>4, NoCommandFine DEF TypeInv, HasKey

LEMMA NextStepped ==
    ASSUME TypeInv, Next
    PROVE  \E c \in Names : Stepped(c)
<1>1. PICK c \in Names :
         \/ Step(c) \/ Boots(c) \/ Stops(c) \/ Aborts(c) \/ PassOver(c) \/ SaveFails(c)
         \/ DropGroupFails(c) \/ UpgradePassesOver(c) \/ StartCreate(c) \/ StartDelete(c) \/ StartUpgrade(c)
         \/ \E want \in 0..MostWorkers : StartScale(c, want)
  BY DEF Next
<1>2. CASE Step(c)
  BY <1>2, TypesOfMoves, TypesOfControl, TypesOfDrops, TypesOfMachineSteps,
     TypesOfOtherSteps, TypesOfCreations, TypesOfKeys
     DEF Step, CreateStep, DeleteStep, OtherStep
<1>3. CASE Boots(c) \/ UpgradePassesOver(c)
  BY <1>3, TypesOfOtherSteps
<1>4. CASE SaveFails(c)
  BY <1>4, TypesOfMoves
<1>5. CASE DropGroupFails(c)
  BY <1>5, TypesOfDrops
<1> QED
  BY <1>1, <1>2, <1>3, <1>4, <1>5, TypesOfControl

LEMMA NextTyped == TypeInv /\ [Next]_vars => TypeInv'
<1>1. CASE Next
  BY <1>1, NextStepped, SteppedKeeps
<1>2. ASSUME TypeInv, UNCHANGED vars PROVE TypeInv'
  BY <1>2 DEF vars, account, TypeInv, TypeOK, HasKey, Registers, Placed
<1> QED
  BY <1>1, <1>2

\* Every reachable state is well typed; every command is at a step of its
\* program; and it makes machines only while it has a key for them.
THEOREM Typed == Spec => []TypeInv
  BY InitTyped, NextTyped, PTL DEF Spec

\* TypeOK: no command, on any cloud, failing or not, takes a variable out of
\* its type.
THEOREM TypeCorrect == Spec => []TypeOK
  BY Typed, PTL DEF TypeInv
====
