---- MODULE ClustersUpgradeProofs ----
(***************************************************************************)
(* Proofs about Clusters: only a deletion takes a control plane away, and  *)
(* an upgrade that answers success left no member of the cluster behind.   *)
(***************************************************************************)
EXTENDS ClustersVersionsProofs

-----------------------------------------------------------------------------
(* The invariant *)

\* References name one machine, and what joined a cluster was running.
Distinct(c) == \A m, o \in vm[c] : m.node = o.node /\ m.copy = o.copy => m = o
Powered(c) == \A m \in vm[c] : m.ca # Absent => m.up

\* Scaling makes workers only.
Grown(me) == me.op = "scale" => \A r \in me.mine : r.node # 0

\* clusters.json lists no part of a cluster, and an upgrade on Azure reads all of it.
Listings == {NoTracker, 0..Workers}
Remembers(me) == \A d \in Names : me.mem[d] \in Listings
Knows(c) == cloud = "azure" /\ cli[c].op = "upgrade" => cli[c].mem[c] = 0..Workers


\* The workers of an upgrade are all those that are left, but on Azure for some
\* whose address could not be read.
Headed(c) == \E m \in vm[c] : m.node = 0 /\ m.ca # Absent
Passed(w, lost) == lost /\ cloud = "azure" /\ w.node # 0
Left(c, seen, lost) == \A m, w \in vm[c] :
    m.node = 0 /\ m.ca # Absent /\ w.ca = m.ca /\ w.version # Target
        => RefTo(w) \in seen \/ Passed(w, lost)
Caught(c) ==
    cloud # "civo" /\ cli[c].op = "upgrade" /\ cli[c].at = "upgradeWorkers" /\ ~Razed(c)
        => Headed(c) /\ Left(c, cli[c].seen, cli[c].missed)
Succeeded == {"upgraded", "partial"}
Risen(c) == said[c] \in Succeeded =>
    /\ cli[c].op = "none"
    /\ cloud # "civo" /\ ~(cloud = "azure" /\ Shares) =>
         Headed(c) /\ Left(c, {}, said[c] = "partial")

Single(c) == Distinct(c) /\ Powered(c)
Informed(c) == Grown(cli[c]) /\ Remembers(cli[c]) /\ Knows(c)
UpgradeInv == /\ VersionInv
              /\ \A d \in Names : file[d] \in Listings
              /\ \A c \in Names : Single(c) /\ Informed(c) /\ Caught(c) /\ Risen(c)

-----------------------------------------------------------------------------
(* What a step does to the machines of its cluster *)

\* No initialised control plane is lost, initialised again or made older.
Retained(c) == \A m \in vm[c] : m.node = 0 /\ m.ca # Absent =>
    \E n \in vm'[c] : n.node = 0 /\ n.copy = m.copy /\ n.ca = m.ca /\ n.version >= m.version

\* A machine and what a step makes of it.
Follows(c, m, n) ==
    /\ n.node = m.node /\ n.copy = m.copy
    /\ n.ca # Absent => n.up
    /\ cli[c].op # "delete" /\ m.node = 0 /\ m.ca # Absent =>
         n.ca = m.ca /\ n.version >= m.version

Moves(c) ==
    \/ vm'[c] = vm[c]
    \/ vm'[c] = Untagged(vm[c])
    \/ \E n : /\ vm'[c] = vm[c] \cup {n} /\ n.ca = Absent
              /\ \A m \in vm[c] : ~(m.node = n.node /\ m.copy = n.copy)
    \/ \E m \in vm[c] : \E n : vm'[c] = (vm[c] \ {m}) \cup {n} /\ Follows(c, m, n)
    \/ /\ vm'[c] \subseteq vm[c]
       /\ \/ cli[c].op = "delete"
          \/ \A m \in vm[c] : m.node = 0 /\ m.ca # Absent => m \in vm'[c]

LEMMA MovesKeep ==
    ASSUME TypeInv, NEW c \in Names, Moves(c), Single(c)
    PROVE  Single(c)' /\ (cli[c].op # "delete" => Retained(c))
<1>0. vm[c] \in SUBSET Machine /\ \A m \in vm[c] : m.version \in Nat /\ m.version >= m.version
  BY DEF TypeInv, TypeOK, Machine
<1>1. CASE vm'[c] = vm[c]
  BY <1>0, <1>1 DEF Single, Distinct, Powered, Retained
<1>2. CASE vm'[c] = Untagged(vm[c])
  <2>1. ASSUME NEW o \in vm[c]
        PROVE  LET n == [o EXCEPT !.role = FALSE] IN
               /\ n.node = o.node /\ n.copy = o.copy /\ n.ca = o.ca /\ n.up = o.up
               /\ n.version = o.version
    BY <1>0 DEF Machine
  <2>2. \A n \in vm'[c] : \E o \in vm[c] : n = [o EXCEPT !.role = FALSE]
    BY <1>2 DEF Untagged
  <2>3. \A o \in vm[c] : [o EXCEPT !.role = FALSE] \in vm'[c]
    BY <1>2 DEF Untagged
  <2>4. Distinct(c)'
    <3> SUFFICES ASSUME NEW m \in vm'[c], NEW n \in vm'[c], m.node = n.node, m.copy = n.copy
                 PROVE  m = n
      BY DEF Distinct
    <3>1. PICK o \in vm[c], p \in vm[c] : m = [o EXCEPT !.role = FALSE] /\ n = [p EXCEPT !.role = FALSE]
      BY <2>2
    <3>2. o = p
      BY <2>1, <3>1 DEF Single, Distinct
    <3> QED
      BY <3>1, <3>2
  <2>5. Powered(c)'
    BY <2>1, <2>2 DEF Single, Powered
  <2>6. Retained(c)
    BY <1>0, <2>1, <2>3 DEF Retained
  <2> QED
    BY <2>4, <2>5, <2>6 DEF Single
<1>3. CASE \E n : /\ vm'[c] = vm[c] \cup {n} /\ n.ca = Absent
                  /\ \A m \in vm[c] : ~(m.node = n.node /\ m.copy = n.copy)
  BY <1>0, <1>3 DEF Single, Distinct, Powered, Retained
<1>4. CASE \E m \in vm[c] : \E n : vm'[c] = (vm[c] \ {m}) \cup {n} /\ Follows(c, m, n)
  <2>1. PICK m \in vm[c] : \E n : vm'[c] = (vm[c] \ {m}) \cup {n} /\ Follows(c, m, n)
    BY <1>4
  <2>2. PICK n : vm'[c] = (vm[c] \ {m}) \cup {n} /\ Follows(c, m, n)
    BY <2>1
  <2>3. Single(c)'
    BY <2>2 DEF Follows, Single, Distinct, Powered
  <2>4. cli[c].op # "delete" => Retained(c)
    BY <1>0, <2>2 DEF Follows, Retained
  <2> QED
    BY <2>3, <2>4
<1>5. CASE /\ vm'[c] \subseteq vm[c]
           /\ \/ cli[c].op = "delete"
              \/ \A m \in vm[c] : m.node = 0 /\ m.ca # Absent => m \in vm'[c]
  BY <1>0, <1>5 DEF Single, Distinct, Powered, Retained
<1> QED
  BY <1>1, <1>2, <1>3, <1>4, <1>5 DEF Moves

LEMMA MovesChange ==
    ASSUME TypeInv, NEW c \in Names, NEW m \in vm[c], NEW n, Follows(c, m, n), Change(c, m, n)
    PROVE  Moves(c)
<1>1. vm'[c] = (vm[c] \ {m}) \cup {n}
  BY DEF Change, TypeInv, TypeOK
<1> QED
  BY <1>1 DEF Moves

LEMMA MovesProvision ==
    ASSUME TypeInv, NEW c \in Names, NEW node, NEW version, Provision(c, node, version)
    PROVE  Moves(c)
<1>1. PICK k \in Copies :
        /\ Fresh(k, {m.copy : m \in {x \in vm[c] : x.node = node}})
        /\ vm' = [vm EXCEPT ![c] = @ \cup {Made(c, node, k, version)}]
  BY DEF Provision
<1> DEFINE new == Made(c, node, k, version)
<1>2. new.node = node /\ new.copy = k /\ new.ca = Absent
  BY DEF Made
<1>3. vm'[c] = vm[c] \cup {new}
  BY <1>1 DEF TypeInv, TypeOK
<1>4. \A m \in vm[c] : ~(m.node = node /\ m.copy = k)
  BY <1>1 DEF Fresh
<1> HIDE DEF new
<1> QED
  BY <1>2, <1>3, <1>4 DEF Moves

\* Steps that give one machine a certificate authority, a version or an address.
LEMMA MovesMachine ==
    ASSUME TypeInv, NEW c \in Names, Single(c), Members(c), Versions(c), Grown(cli[c]),
           \/ PrepareHost(c) \/ InitMaster(c) \/ JoinWorker(c) \/ JoinNew(c) \/ Boots(c)
           \/ UpgradeMaster(c) \/ UpgradePassesOver(c) \/ UpgradeWorker(c) \/ Reset(c)
    PROVE  Moves(c)
<1> DEFINE me == cli[c]
<1>1. /\ me \in Command /\ TypeOK /\ vm[c] \in SUBSET Machine
      /\ Asked \in Nat /\ Target \in Nat /\ Asked >= Absent
  BY VersionsAssumption DEF TypeInv, TypeOK, Absent
<1>2. ASSUME UNCHANGED vm PROVE Moves(c)
  BY <1>2 DEF Moves
<1>3. ASSUME NEW m \in vm[c]
      PROVE  /\ m \in Machine /\ m.version \in Nat /\ m.version <= Target /\ m.version >= m.version
             /\ m.ca # Absent => m.up
             /\ Follows(c, m, m)
  <2>1. m \in Machine /\ m.version \in Nat /\ m.version <= Target /\ (m.ca # Absent => m.up)
    BY <1>1 DEF Machine, Versions, Bounded, Single, Powered
  <2> QED
    BY <2>1 DEF Follows
<1>4. CASE PrepareHost(c)
  <2>1. PICK m \in vm[c] :
           Change(c, m, IF m.version = Absent THEN [m EXCEPT !.version = Asked] ELSE m)
    BY <1>4 DEF PrepareHost
  <2>2. PICK n : n = IF m.version = Absent THEN [m EXCEPT !.version = Asked] ELSE m
    OBVIOUS
  <2>3. Follows(c, m, n)
    <3>1. CASE m.version = Absent
      <4>1. /\ n.node = m.node /\ n.copy = m.copy /\ n.ca = m.ca /\ n.up = m.up
            /\ n.version = Asked
        BY <1>3, <2>2, <3>1 DEF Machine
      <4> QED
        BY <1>1, <1>3, <3>1, <4>1 DEF Follows
    <3> QED
      BY <1>3, <2>2, <3>1
  <2> QED
    BY <2>1, <2>2, <2>3, MovesChange
<1>5. CASE InitMaster(c)
  <2>1. PICK m \in Reached(c, me.mine) :
          \/ UNCHANGED vm
          \/ m.ca = Absent /\ \E k \in Keys : Change(c, m, [m EXCEPT !.ca = k])
    BY <1>5 DEF InitMaster
  <2>2. m \in vm[c] /\ m.up
    BY DEF Reached
  <2>3. CASE m.ca = Absent /\ \E k \in Keys : Change(c, m, [m EXCEPT !.ca = k])
    <3>1. PICK k \in Keys : Change(c, m, [m EXCEPT !.ca = k])
      BY <2>3
    <3>2. PICK n : n = [m EXCEPT !.ca = k]
      OBVIOUS
    <3>3. n.node = m.node /\ n.copy = m.copy /\ n.up = m.up
      BY <1>3, <2>2, <3>2 DEF Machine
    <3>4. Follows(c, m, n)
      BY <2>2, <2>3, <3>3 DEF Follows
    <3> QED
      BY <2>2, <3>1, <3>2, <3>4, MovesChange
  <2> QED
    BY <1>2, <2>1, <2>3
<1>6. CASE JoinWorker(c)
  <2>1. PICK m \in Reached(c, me.mine) :
         /\ m.node = me.next + 1
         /\ Change(c, m, IF m.ca # Absent THEN m ELSE [m EXCEPT !.ca = me.token])
    BY <1>6 DEF JoinWorker
  <2>2. m \in vm[c] /\ m.up /\ m.node # 0
    BY <1>1, <2>1 DEF Reached, Command
  <2>3. PICK n : n = IF m.ca # Absent THEN m ELSE [m EXCEPT !.ca = me.token]
    OBVIOUS
  <2>4. n.node = m.node /\ n.copy = m.copy /\ n.up = m.up
    BY <1>3, <2>2, <2>3 DEF Machine
  <2>5. Follows(c, m, n)
    BY <2>2, <2>4 DEF Follows
  <2> QED
    BY <2>1, <2>2, <2>3, <2>5, MovesChange
<1>7. CASE JoinNew(c)
  <2>1. PICK m \in Reached(c, me.mine) :
          UNCHANGED vm \/ Change(c, m, [m EXCEPT !.ca = me.token])
    BY <1>7 DEF JoinNew
  <2>2. m \in vm[c] /\ m.up /\ m.node # 0
    <3>1. me.op = "scale"
      BY <1>7, OpAt DEF JoinNew, At
    <3> QED
      BY <3>1 DEF Reached, IsOf, Grown
  <2>3. CASE Change(c, m, [m EXCEPT !.ca = me.token])
    <3>1. PICK n : n = [m EXCEPT !.ca = me.token]
      OBVIOUS
    <3>2. n.node = m.node /\ n.copy = m.copy /\ n.up = m.up
      BY <1>3, <2>2, <3>1 DEF Machine
    <3>3. Follows(c, m, n)
      BY <2>2, <3>2 DEF Follows
    <3> QED
      BY <2>2, <2>3, <3>1, <3>3, MovesChange
  <2> QED
    BY <1>2, <2>1, <2>3
<1>8. CASE Boots(c)
  <2>1. PICK m \in vm[c] : Change(c, m, [m EXCEPT !.up = TRUE])
    BY <1>8 DEF Boots
  <2>2. PICK n : n = [m EXCEPT !.up = TRUE]
    OBVIOUS
  <2>3. n.node = m.node /\ n.copy = m.copy /\ n.up /\ n.ca = m.ca /\ n.version = m.version
    BY <1>3, <2>2 DEF Machine
  <2>4. Follows(c, m, n)
    BY <1>3, <2>3 DEF Follows
  <2> QED
    BY <2>1, <2>2, <2>4, MovesChange
<1>9. CASE UpgradeMaster(c) \/ UpgradePassesOver(c) \/ UpgradeWorker(c)
  <2>1. \/ UNCHANGED vm
        \/ \E m \in vm[c] : Change(c, m, [m EXCEPT !.version = Target])
    BY <1>9 DEF UpgradeMaster, UpgradePassesOver, UpgradeWith, UpgradeWorker, ControlPlanes,
                Masters
  <2>2. CASE \E m \in vm[c] : Change(c, m, [m EXCEPT !.version = Target])
    <3>1. PICK m \in vm[c] : Change(c, m, [m EXCEPT !.version = Target])
      BY <2>2
    <3>2. PICK n : n = [m EXCEPT !.version = Target]
      OBVIOUS
    <3>3. /\ n.node = m.node /\ n.copy = m.copy /\ n.up = m.up /\ n.ca = m.ca
          /\ n.version = Target
      BY <1>3, <3>2 DEF Machine
    <3>4. Follows(c, m, n)
      BY <1>1, <1>3, <3>3 DEF Follows
    <3> QED
      BY <3>1, <3>2, <3>4, MovesChange
  <2> QED
    BY <1>2, <2>1, <2>2
<1>10. CASE Reset(c)
  <2>1. PICK m \in vm[c] : Change(c, m, [m EXCEPT !.ca = Absent])
    BY <1>10 DEF Reset
  <2>2. PICK n : n = [m EXCEPT !.ca = Absent]
    OBVIOUS
  <2>3. n.node = m.node /\ n.copy = m.copy /\ n.ca = Absent
    BY <1>3, <2>2 DEF Machine
  <2>4. me.op = "delete"
    BY <1>10, OpAt DEF Reset, At, Programmed, TypeInv, Placed, StepsOf
  <2>5. Follows(c, m, n)
    BY <2>3, <2>4 DEF Follows
  <2> QED
    BY <2>1, <2>2, <2>5, MovesChange
<1> QED
  BY <1>4, <1>5, <1>6, <1>7, <1>8, <1>9, <1>10

\* Machines are deleted by deletions, by AWS's clean-up, where none has joined yet,
\* and by scaling, which deletes workers.
LEMMA MovesFewer ==
    ASSUME TypeInv, NEW c \in Names, Members(c), Versions(c),
           \/ DropDroplets(c) \/ DropInstances(c) \/ DropTracked(c) \/ DropGroup(c)
           \/ DropGroupFails(c) \/ Shrink(c)
    PROVE  Moves(c)
<1> DEFINE me == cli[c]
<1>1. /\ me \in Command /\ vm \in [Names -> SUBSET Machine] /\ me.at \in StepsOf(cloud, me.op)
  BY DEF TypeInv, TypeOK, Placed
<1>2. vm'[c] \subseteq vm[c]
  <2>1. CASE DropGroup(c) \/ DropGroupFails(c)
    BY <2>1 DEF DropGroup, DropGroupFails, DeleteGroup, Mates
  <2>2. CASE DropDroplets(c) \/ DropInstances(c) \/ DropTracked(c) \/ Shrink(c)
    BY <1>1, <2>2 DEF DropDroplets, DropInstances, DropTracked, Shrink
  <2> QED
    BY <2>1, <2>2
<1>3. CASE Shrink(c)
  <2>1. PICK r \in me.seen : vm' = [vm EXCEPT ![c] = {m \in @ : ~IsOf(m, r)}]
    BY <1>3 DEF Shrink
  <2>2. me.op = "scale" /\ me.at = "shrink"
    BY <1>3, OpAt DEF Shrink, At
  <2>3. r.node # 0
    BY <2>2 DEF Members, Scaling
  <2>4. vm'[c] = {m \in vm[c] : ~IsOf(m, r)}
    BY <1>1, <2>1
  <2>5. \A m \in vm[c] : m.node = 0 /\ m.ca # Absent => m \in vm'[c]
    BY <2>3, <2>4 DEF IsOf
  <2> QED
    BY <1>2, <2>5 DEF Moves
<1>4. CASE ~Shrink(c)
  <2>1. /\ me.at \in {"dropDroplets", "dropInstances", "dropTracked", "dropGroup"}
        /\ me.op = "delete" \/ (me.op = "abort" /\ cloud = "aws")
    <3>1. me.at \in {"dropDroplets", "dropInstances", "dropTracked", "dropGroup"}
      BY <1>4 DEF DropDroplets, DropInstances, DropTracked, DropGroup, DropGroupFails, At
    <3> QED
      BY <3>1, OpAt DEF Programmed
  <2>2. CASE me.op = "delete"
    BY <1>2, <2>2 DEF Moves
  <2>3. CASE cloud = "aws"
    BY <1>2, <2>3 DEF Moves, Versions, Unjoined
  <2> QED
    BY <2>1, <2>2, <2>3
<1> QED
  BY <1>3, <1>4

LEMMA ActsMove ==
    ASSUME TypeInv, NEW c \in Names, Single(c), Members(c), Versions(c), Grown(cli[c]), Acts(c)
    PROVE  Moves(c)
<1>1. vm \in [Names -> SUBSET Machine]
  BY DEF TypeInv, TypeOK
<1>2. ASSUME UNCHANGED vm PROVE Moves(c)
  BY <1>2 DEF Moves
<1>3. CASE CreateStep(c)
  <2>1. CASE PrepareHost(c) \/ InitMaster(c) \/ JoinWorker(c)
    BY <2>1, MovesMachine
  <2>2. CASE CreateMachine(c)
    <3>1. (UNCHANGED vm) \/ \E node, version : Provision(c, node, version)
      BY <2>2 DEF CreateMachine
    <3> QED
      BY <1>2, <3>1, MovesProvision
  <2>3. CASE \/ EnsureKey(c) \/ EnsureNetwork(c) \/ CreateSubnets(c) \/ EnsureFirewall(c)
             \/ Look(c) \/ Await(c) \/ Save(c) \/ Integrate(c) \/ TimesOut(c)
    BY <1>2, <2>3 DEF EnsureKey, EnsureNetwork, CreateSubnets, EnsureFirewall, Look, Await, Save,
                      Integrate, TimesOut, account
  <2> QED
    BY <1>3, <2>1, <2>2, <2>3 DEF CreateStep
<1>4. CASE DeleteStep(c)
  <2>1. CASE DropTags(c)
    BY <1>1, <2>1 DEF DropTags, Moves, Untagged
  <2>2. CASE DropDroplets(c) \/ DropInstances(c) \/ DropTracked(c) \/ DropGroup(c)
    BY <2>2, MovesFewer
  <2>3. CASE Reset(c)
    BY <2>3, MovesMachine
  <2>4. CASE \/ DropFirewall(c) \/ DropSubnets(c) \/ DropNetwork(c) \/ Sweep(c)
             \/ SweepEmpty(c) \/ DropKey(c) \/ Untrack(c) \/ Forget(c)
    BY <1>2, <2>4 DEF DropFirewall, DropSubnets, DropNetwork, Sweep, SweepEmpty, DropKey, Untrack,
                      Forget, account
  <2> QED
    BY <1>4, <2>1, <2>2, <2>3, <2>4 DEF DeleteStep
<1>5. CASE OtherStep(c)
  <2>1. CASE Survey(c)
    BY <1>2, <2>1 DEF Survey
  <2>2. CASE Grow(c)
    <3>1. (UNCHANGED vm) \/ \E node, version : Provision(c, node, version)
      BY <2>2 DEF Grow
    <3> QED
      BY <1>2, <3>1, MovesProvision
  <2>3. CASE JoinNew(c) \/ UpgradeMaster(c) \/ UpgradeWorker(c)
    BY <2>3, MovesMachine
  <2>4. CASE Shrink(c)
    BY <2>4, MovesFewer
  <2> QED
    BY <1>5, <2>1, <2>2, <2>3, <2>4 DEF OtherStep
<1>6. CASE Boots(c) \/ UpgradePassesOver(c)
  BY <1>6, MovesMachine
<1>7. CASE DropGroupFails(c)
  BY <1>7, MovesFewer
<1>8. CASE \/ Stops(c) \/ Aborts(c) \/ PassOver(c) \/ SaveFails(c)
           \/ StartCreate(c) \/ StartDelete(c) \/ StartUpgrade(c)
           \/ \E want \in 0..MostWorkers : StartScale(c, want)
  BY <1>2, <1>8 DEF Stops, Aborts, PassOver, SaveFails, StartCreate, StartDelete, StartUpgrade,
                    StartScale, Start, account
<1> QED
  BY <1>3, <1>4, <1>5, <1>6, <1>7, <1>8 DEF Acts, Step

-----------------------------------------------------------------------------
(* What a step does to the command of its cluster *)

Fits(me) == Grown(me) /\ Remembers(me)

\* A step of a command that does not upgrade.
Onward(c) ==
    \/ cli'[c] = NoCommand /\ said'[c] \notin Succeeded
    \/ /\ cli[c].op # "none" /\ said'[c] = said[c]
       /\ cli'[c].op \notin {"none", "upgrade"} /\ Fits(cli'[c])

LEMMA NoCommandFits == Fits(NoCommand)
  BY DEF Fits, Grown, Remembers, NoCommand, Listings

LEMMA OnwardEnd ==
    ASSUME TypeInv, NEW c \in Names, NEW answer, answer \notin Succeeded, End(c, answer)
    PROVE  Onward(c)
  BY DEF End, Onward, TypeInv, TypeOK

LEMMA OnwardBy ==
    ASSUME TypeInv, NEW c \in Names, NEW n \in Command, n.op = cli[c].op,
           n.op \in {"create", "abort", "delete"}, Remembers(n),
           NEW last, Proceed(c, n) \/ Loop(c, n, last)
    PROVE  Onward(c)
<1>1. TypeOK /\ cli \in [Names -> Command] /\ said \in [Names -> Said]
  BY DEF TypeInv, TypeOK
<1>2. CASE Proceed(c, n)
  <2>1. CASE After(n) = "done"
    <3>1. PICK answer : answer \notin Succeeded /\ End(c, answer)
      BY <1>2, <2>1 DEF Proceed, GoTo, After, Answer, Succeeded
    <3> QED
      BY <3>1, OnwardEnd
  <2>2. CASE After(n) # "done"
    <3>1. cli' = [cli EXCEPT ![c] = [n EXCEPT !.at = After(n), !.next = 0]] /\ UNCHANGED said
      BY <1>2, <2>2 DEF Proceed, GoTo, After
    <3>2. cli'[c].op = n.op /\ cli'[c].mem = n.mem
      BY <1>1, <3>1 DEF Command
    <3> QED
      BY <3>1, <3>2 DEF Onward, Fits, Grown, Remembers
  <2> QED
    BY <2>1, <2>2
<1>3. CASE Becomes(c, [n EXCEPT !.next = @ + 1]) /\ UNCHANGED said
  <2>1. cli'[c] = [n EXCEPT !.next = @ + 1]
    BY <1>1, <1>3 DEF Becomes
  <2>2. cli'[c].op = n.op /\ cli'[c].mem = n.mem
    BY <2>1, Counted
  <2> QED
    BY <1>3, <2>2 DEF Onward, Fits, Grown, Remembers
<1> QED
  BY <1>1, <1>2, <1>3, Looped DEF Command

\* The steps of creations and deletions, and what they write to clusters.json.
Recorded == \A d \in Names : file'[d] \in Listings

LEMMA OnwardPlain ==
    ASSUME TypeInv, NEW c \in Names, Remembers(cli[c]), \A d \in Names : file[d] \in Listings,
           \/ EnsureKey(c) \/ EnsureNetwork(c) \/ CreateSubnets(c) \/ EnsureFirewall(c)
           \/ SaveFails(c) \/ JoinWorker(c) \/ Integrate(c)
           \/ DropDroplets(c) \/ DropSubnets(c) \/ Sweep(c) \/ SweepEmpty(c) \/ DropTags(c)
           \/ DropKey(c) \/ Untrack(c) \/ Forget(c) \/ Reset(c)
    PROVE  Onward(c) /\ Recorded
<1> DEFINE me == cli[c]
<1>1. me \in Command /\ me.mem \in Trackers
  BY DEF TypeInv, TypeOK, Command
<1>2. me.op \in {"create", "abort", "delete"}
  <2>1. me.at \in {"key", "network", "subnets", "firewall", "save", "join", "integrate",
                   "dropDroplets", "dropSubnets", "sweep", "sweepEmpty", "dropTags",
                   "dropKey", "untrack", "forget", "reset"}
    BY DEF EnsureKey, EnsureNetwork, CreateSubnets, EnsureFirewall, SaveFails, JoinWorker,
           Integrate, DropDroplets, DropSubnets, Sweep, SweepEmpty, DropTags, DropKey, Untrack,
           Forget, Reset, At
  <2> QED
    BY <2>1, OpAt
<1>3. End(c, "failed") \/ Proceed(c, me) \/ \E last : Loop(c, me, last)
  BY DEF EnsureKey, EnsureNetwork, CreateSubnets, EnsureFirewall, SaveFails, JoinWorker,
         Integrate, DropDroplets, DropSubnets, Sweep, SweepEmpty, DropTags, DropKey, Untrack,
         Forget, Reset
<1>4. Onward(c)
  BY <1>1, <1>2, <1>3, OnwardBy, OnwardEnd DEF Succeeded
<1>5. file' = file \/ file' = [me.mem EXCEPT ![c] = NoTracker]
  BY DEF EnsureKey, EnsureNetwork, CreateSubnets, EnsureFirewall, SaveFails, JoinWorker,
         Integrate, DropDroplets, DropSubnets, Sweep, SweepEmpty, DropTags, DropKey, Untrack,
         Forget, Reset
<1>6. Recorded
  BY <1>1, <1>5 DEF Recorded, Remembers, Listings, Trackers
<1> QED
  BY <1>4, <1>6

\* The ones that take something down first.
LEMMA OnwardNoting ==
    ASSUME TypeInv, NEW c \in Names, Remembers(cli[c]), \A d \in Names : file[d] \in Listings,
           \/ Look(c) \/ Save(c) \/ PrepareHost(c) \/ InitMaster(c) \/ DropTracked(c)
           \/ DropFirewall(c) \/ DropNetwork(c) \/ PassOver(c) \/ DropGroup(c)
    PROVE  Onward(c) /\ Recorded
<1> DEFINE me == cli[c]
<1>1. /\ me \in Command /\ me.mem \in Trackers /\ me.missed \in BOOLEAN
      /\ vm[c] \in SUBSET Machine
  BY DEF TypeInv, TypeOK, Command
<1>2. me.op \in {"create", "abort", "delete"}
  <2>1. me.at \in {"look", "save", "prepare", "init", "dropTracked", "dropFirewall",
                   "dropNetwork", "dropTags", "dropKey", "dropSubnets", "sweep", "sweepEmpty",
                   "dropGroup", "untrack", "reset", "dropDroplets"}
    BY DEF Look, Save, PrepareHost, InitMaster, DropTracked, DropFirewall, DropNetwork,
           PassOver, DropGroup, At
  <2> QED
    BY <2>1, OpAt
<1>3. ASSUME NEW n \in Command, n.op = me.op, Remembers(n), NEW last,
             Proceed(c, n) \/ Loop(c, n, last)
      PROVE  Onward(c)
  BY <1>2, <1>3, OnwardBy
<1>4. ASSUME NEW missed \in BOOLEAN
      PROVE  LET n == [me EXCEPT !.missed = missed] IN
             n \in Command /\ n.op = me.op /\ Remembers(n)
  BY <1>1 DEF Command, Remembers
<1>5. CASE Look(c)
  <2>1. {RefTo(m) : m \in vm[c]} \in SUBSET Ref
    BY <1>1 DEF RefTo, Ref, Machine
  <2>2. PICK refs \in SUBSET Ref : Proceed(c, [me EXCEPT !.seen = refs])
    BY <1>5, <2>1 DEF Look
  <2>3. LET n == [me EXCEPT !.seen = refs] IN n \in Command /\ n.op = me.op /\ Remembers(n)
    BY <1>1 DEF Command, Remembers
  <2> QED
    BY <1>3, <1>5, <2>2, <2>3 DEF Look, Recorded
<1>6. CASE Save(c)
  <2>1. PICK mem : mem = [me.mem EXCEPT ![c] = 0..Workers]
    OBVIOUS
  <2>2. mem \in Trackers /\ \A d \in Names : mem[d] \in Listings
    <3>1. 0..Workers \in SUBSET Nodes
      BY WorkersAssumption DEF Nodes
    <3> QED
      BY <1>1, <2>1, <3>1 DEF Trackers, Listings, Remembers
  <2>3. file' = mem /\ Proceed(c, [me EXCEPT !.mem = mem])
    BY <1>6, <2>1 DEF Save
  <2>4. LET n == [me EXCEPT !.mem = mem] IN n \in Command /\ n.op = me.op /\ Remembers(n)
    BY <1>1, <2>2 DEF Command, Remembers
  <2> QED
    BY <1>3, <2>2, <2>3, <2>4 DEF Recorded
<1>7. CASE PrepareHost(c)
  <2>1. PICK m \in vm[c] : Loop(c, [me EXCEPT !.mine = @ \cup {RefTo(m)}], Workers)
    BY <1>7 DEF PrepareHost
  <2>2. RefTo(m) \in Ref
    BY <1>1 DEF RefTo, Ref, Machine
  <2>3. LET n == [me EXCEPT !.mine = @ \cup {RefTo(m)}] IN
        n \in Command /\ n.op = me.op /\ Remembers(n)
    BY <1>1, <2>2 DEF Command, Remembers
  <2> QED
    BY <1>3, <1>7, <2>1, <2>3 DEF PrepareHost, Recorded
<1>8. CASE InitMaster(c)
  <2>1. \E m \in vm[c] : \E ca \in Keys \cup {m.ca} : Proceed(c, [me EXCEPT !.token = ca])
    BY <1>8 DEF InitMaster, Reached
  <2>2. PICK ca \in Keys \cup {Absent} : Proceed(c, [me EXCEPT !.token = ca])
    BY <1>1, <2>1 DEF Machine
  <2>3. LET n == [me EXCEPT !.token = ca] IN n \in Command /\ n.op = me.op /\ Remembers(n)
    BY <1>1 DEF Command, Remembers
  <2> QED
    BY <1>3, <1>8, <2>2, <2>3 DEF InitMaster, Recorded
<1>9. CASE DropTracked(c)
  <2> DEFINE found == {m \in vm[c] : m.node = me.next}
  <2>1. Loop(c, [me EXCEPT !.missed = @ \/ found = {}], Workers)
    BY <1>9 DEF DropTracked
  <2>2. PICK missed \in BOOLEAN : missed = (me.missed \/ found = {})
    OBVIOUS
  <2>3. [me EXCEPT !.missed = @ \/ found = {}] = [me EXCEPT !.missed = missed]
    BY <2>2
  <2> HIDE DEF found
  <2> QED
    BY <1>3, <1>4, <1>9, <2>1, <2>3 DEF DropTracked, Recorded
<1>10. CASE DropFirewall(c)
  <2> DEFINE lost == cloud = "gcp" /\ "firewall" \notin parts[c]
  <2>1. Proceed(c, [me EXCEPT !.missed = @ \/ lost])
    BY <1>10 DEF DropFirewall
  <2>2. PICK missed \in BOOLEAN : missed = (me.missed \/ lost)
    OBVIOUS
  <2>3. [me EXCEPT !.missed = @ \/ lost] = [me EXCEPT !.missed = missed]
    BY <2>2
  <2> HIDE DEF lost
  <2> QED
    BY <1>3, <1>4, <1>10, <2>1, <2>3 DEF DropFirewall, Recorded
<1>11. CASE DropNetwork(c)
  <2>1. [me EXCEPT !.missed = me.missed] = me
    BY <1>1 DEF Command
  <2>2. PICK lost \in BOOLEAN : Proceed(c, [me EXCEPT !.missed = lost])
    BY <1>1, <1>11, <2>1 DEF DropNetwork
  <2> QED
    BY <1>3, <1>4, <1>11, <2>2 DEF DropNetwork, Recorded
<1>12. CASE PassOver(c)
  <2>1. Loop(c, [me EXCEPT !.missed = TRUE], Workers) \/ Proceed(c, [me EXCEPT !.missed = TRUE])
    BY <1>12 DEF PassOver
  <2> QED
    BY <1>3, <1>4, <1>12, <2>1 DEF PassOver, Recorded
<1>13. CASE DropGroup(c)
  <2>1. PICK lost \in BOOLEAN : lost = (me.missed \/ ~Foreign(c))
    OBVIOUS
  <2>2. Proceed(c, me) \/ Proceed(c, [me EXCEPT !.missed = lost])
    BY <1>13, <2>1 DEF DropGroup
  <2> QED
    BY <1>1, <1>3, <1>4, <1>13, <2>2 DEF DropGroup, Recorded
<1> QED
  BY <1>5, <1>6, <1>7, <1>8, <1>9, <1>10, <1>11, <1>12, <1>13

LEMMA OnwardControl ==
    ASSUME TypeInv, NEW c \in Names, Remembers(cli[c]), \A d \in Names : file[d] \in Listings,
           Stops(c) \/ TimesOut(c) \/ Aborts(c) \/ DropGroupFails(c) \/ DropInstances(c)
    PROVE  Onward(c) /\ Recorded
<1> DEFINE me == cli[c]
<1>1. /\ me \in Command /\ cli \in [Names -> Command] /\ me.mem \in Trackers
      /\ file' = file
  BY DEF TypeInv, TypeOK, Command, Stops, TimesOut, Aborts, DropGroupFails, DropInstances
<1>2. CASE Stops(c) \/ TimesOut(c) \/ DropGroupFails(c)
  BY <1>1, <1>2, OnwardEnd DEF Succeeded, Stops, TimesOut, DropGroupFails, Recorded
<1>3. CASE Aborts(c)
  <2>1. cli'[c] = [NoCommand EXCEPT !.op = "abort", !.at = "dropDroplets"]
    BY <1>1, <1>3 DEF Aborts
  <2>2. cli'[c].op = "abort" /\ cli'[c].mem = NoCommand.mem
    BY <2>1 DEF NoCommand
  <2>3. Fits(cli'[c])
    BY <2>2, NoCommandFits DEF Fits, Grown, Remembers
  <2> QED
    BY <1>1, <1>3, <2>2, <2>3 DEF Aborts, Onward, Recorded
<1>4. CASE DropInstances(c)
  <2>1. me.op \in {"delete", "abort"}
    BY <1>4, OpAt DEF DropInstances, At
  <2>2. CASE Proceed(c, me)
    BY <1>1, <2>1, <2>2, OnwardBy DEF Recorded
  <2>3. CASE UNCHANGED <<cli, said>>
    BY <1>1, <2>1, <2>3 DEF Onward, Fits, Grown, Recorded
  <2> QED
    BY <1>4, <2>2, <2>3 DEF DropInstances
<1> QED
  BY <1>2, <1>3, <1>4

LEMMA OnwardProvision ==
    ASSUME TypeInv, NEW c \in Names, Remembers(cli[c]), Grown(cli[c]),
           NEW node, NEW version, Provision(c, node, version), UNCHANGED said,
           cli[c].op \in {"create", "scale"}, cli[c].op = "scale" => node # 0
    PROVE  Onward(c)
<1>1. cli[c] \in Command /\ cli \in [Names -> Command]
  BY DEF TypeInv, TypeOK
<1>2. PICK k \in Copies :
         cli' = [cli EXCEPT ![c].at = "await",
                            ![c].mine = @ \cup {[node |-> node, copy |-> k, addr |-> TRUE]}]
  BY DEF Provision
<1>3. /\ cli'[c].op = cli[c].op /\ cli'[c].mem = cli[c].mem
      /\ cli'[c].mine = cli[c].mine \cup {[node |-> node, copy |-> k, addr |-> TRUE]}
  BY <1>1, <1>2 DEF Command
<1>4. Fits(cli'[c])
  BY <1>3 DEF Fits, Grown, Remembers
<1> QED
  BY <1>3, <1>4 DEF Onward

LEMMA OnwardMachine ==
    ASSUME TypeInv, NEW c \in Names, Remembers(cli[c]), Grown(cli[c]),
           \A d \in Names : file[d] \in Listings, CreateMachine(c) \/ Await(c)
    PROVE  Onward(c) /\ Recorded
<1> DEFINE me == cli[c]
           n == me.next
<1>1. me \in Command /\ cli \in [Names -> Command] /\ vm[c] \in SUBSET Machine /\ file' = file
  BY DEF TypeInv, TypeOK, CreateMachine, Await
<1>2. Recorded
  BY <1>1 DEF Recorded
<1>3. CASE CreateMachine(c)
  <2> DEFINE known == IF cloud = "digitalocean" THEN {r \in me.seen : r.node = n}
                      ELSE IF cloud = "azure" THEN {[RefTo(m) EXCEPT !.addr = TRUE] :
                                                      m \in {x \in vm[c] : x.node = n}}
                      ELSE {}
  <2>1. me.op = "create"
    BY <1>3, OpAt DEF CreateMachine, At
  <2>2. \/ \E r \in known : Loop(c, [me EXCEPT !.mine = @ \cup {r}], Workers)
        \/ End(c, "failed")
        \/ Provision(c, n, Asked) /\ UNCHANGED said
    BY <1>3 DEF CreateMachine
  <2>3. known \subseteq Ref
    <3>1. ASSUME NEW m \in vm[c] PROVE [RefTo(m) EXCEPT !.addr = TRUE] \in Ref
      <4>1. m \in Machine
        BY <1>1
      <4> QED
        BY <4>1 DEF Machine, RefTo, Ref
    <3>2. me.seen \subseteq Ref
      BY <1>1 DEF Command
    <3> QED
      BY <3>1, <3>2
  <2> HIDE DEF known
  <2>4. ASSUME NEW r \in known, Loop(c, [me EXCEPT !.mine = @ \cup {r}], Workers)
        PROVE  Onward(c)
    <3>1. LET x == [me EXCEPT !.mine = @ \cup {r}] IN
          x \in Command /\ x.op = me.op /\ Remembers(x)
      BY <1>1, <2>3 DEF Command, Remembers
    <3> QED
      BY <2>1, <2>4, <3>1, OnwardBy
  <2> QED
    BY <1>2, <2>1, <2>2, <2>4, OnwardEnd, OnwardProvision DEF Succeeded
<1>4. CASE Await(c)
  <2>1. me.op \in {"create", "scale"}
    BY <1>4, OpAt DEF Await, At
  <2>2. CASE me.op = "create"
    <3>1. LET x == [me EXCEPT !.at = "machine"] IN
          x \in Command /\ x.op = me.op /\ Remembers(x)
      BY <1>1 DEF Command, Remembers, Steps
    <3> QED
      BY <1>2, <1>4, <2>2, <3>1, OnwardBy DEF Await
  <2>3. CASE me.op = "scale"
    <3>1. cli' = [cli EXCEPT ![c].at = "joinNew"] /\ UNCHANGED said
      BY <1>4, <2>3 DEF Await
    <3>2. cli'[c].op = me.op /\ cli'[c].mem = me.mem /\ cli'[c].mine = me.mine
      BY <1>1, <3>1 DEF Command
    <3> QED
      BY <1>2, <2>3, <3>1, <3>2 DEF Onward, Fits, Grown, Remembers
  <2> QED
    BY <2>1, <2>2, <2>3
<1> QED
  BY <1>3, <1>4

LEMMA OnwardScale ==
    ASSUME TypeInv, NEW c \in Names, Remembers(cli[c]), Grown(cli[c]),
           \A d \in Names : file[d] \in Listings,
           Survey(c) \/ Grow(c) \/ JoinNew(c) \/ Shrink(c)
    PROVE  Onward(c) /\ Recorded
<1> DEFINE me == cli[c]
<1>1. /\ me \in Command /\ cli \in [Names -> Command] /\ me.op = "scale" /\ file' = file
      /\ me.next \in Nat
  <2>1. me.at \in {"survey", "grow", "joinNew", "shrink"}
    BY DEF Survey, Grow, JoinNew, Shrink, At
  <2> QED
    BY <2>1, OpAt DEF TypeInv, TypeOK, Command, Survey, Grow, JoinNew, Shrink
<1>2. Recorded
  BY <1>1 DEF Recorded
<1>3. ASSUME cli'[c].op = "scale", cli'[c].mem = me.mem, cli'[c].mine \subseteq me.mine,
             UNCHANGED said
      PROVE  Onward(c)
  BY <1>1, <1>3 DEF Onward, Fits, Grown, Remembers
<1>4. CASE Survey(c)
  <2> DEFINE refs == {RefTo(m) : m \in Others(c)}
             count == Cardinality(Others(c)) + 1
  <2>1. \/ \E answer \in {"failed", "scaled"} : End(c, answer)
        \/ GoTo(c, [me EXCEPT !.seen = refs], "shrink")
        \/ \E m \in Masters(c) :
             /\ cli' = [cli EXCEPT ![c] = [me EXCEPT !.at = "grow", !.next = count, !.token = m.ca]]
             /\ UNCHANGED said
    BY <1>4 DEF Survey
  <2> HIDE DEF refs, count
  <2>2. CASE GoTo(c, [me EXCEPT !.seen = refs], "shrink")
    <3>1. /\ cli' = [cli EXCEPT ![c] = [[me EXCEPT !.seen = refs] EXCEPT !.at = "shrink", !.next = 0]]
          /\ UNCHANGED said
      BY <2>2 DEF GoTo
    <3>2. cli'[c].op = me.op /\ cli'[c].mem = me.mem /\ cli'[c].mine = me.mine
      BY <1>1, <3>1 DEF Command
    <3> QED
      BY <1>1, <1>2, <1>3, <3>1, <3>2
  <2>3. CASE \E m \in Masters(c) :
             /\ cli' = [cli EXCEPT ![c] = [me EXCEPT !.at = "grow", !.next = count, !.token = m.ca]]
             /\ UNCHANGED said
    <3>1. cli'[c].op = me.op /\ cli'[c].mem = me.mem /\ cli'[c].mine = me.mine
      BY <1>1, <2>3 DEF Command
    <3> QED
      BY <1>1, <1>2, <1>3, <2>3, <3>1
  <2> QED
    BY <1>2, <2>1, <2>2, <2>3, OnwardEnd DEF Succeeded
<1>5. CASE Grow(c)
  <2>1. Workers + me.next # 0
    BY <1>1, WorkersAssumption
  <2>2. End(c, "scaled") \/ (Provision(c, Workers + me.next, Default) /\ UNCHANGED said)
    BY <1>5 DEF Grow
  <2> QED
    BY <1>1, <1>2, <2>1, <2>2, OnwardEnd, OnwardProvision DEF Succeeded
<1>6. CASE JoinNew(c)
  <2>1. \/ End(c, "failed")
        \/ /\ cli' = [cli EXCEPT ![c].at = "grow", ![c].next = @ + 1, ![c].mine = {}]
           /\ UNCHANGED said
    BY <1>6 DEF JoinNew
  <2>2. CASE /\ cli' = [cli EXCEPT ![c].at = "grow", ![c].next = @ + 1, ![c].mine = {}]
             /\ UNCHANGED said
    <3>1. cli'[c].op = me.op /\ cli'[c].mem = me.mem /\ cli'[c].mine = {}
      BY <1>1, <2>2 DEF Command
    <3> QED
      BY <1>1, <1>2, <1>3, <2>2, <3>1
  <2> QED
    BY <1>2, <2>1, <2>2, OnwardEnd DEF Succeeded
<1>7. CASE Shrink(c)
  <2>1. PICK r \in me.seen :
          \/ End(c, "scaled")
          \/ cli' = [cli EXCEPT ![c].seen = @ \ {r}] /\ UNCHANGED said
    BY <1>7 DEF Shrink
  <2>2. CASE cli' = [cli EXCEPT ![c].seen = @ \ {r}] /\ UNCHANGED said
    <3>1. cli'[c].op = me.op /\ cli'[c].mem = me.mem /\ cli'[c].mine = me.mine
      BY <1>1, <2>2 DEF Command
    <3> QED
      BY <1>1, <1>2, <1>3, <2>2, <3>1
  <2> QED
    BY <1>2, <2>1, <2>2, OnwardEnd DEF Succeeded
<1> QED
  BY <1>4, <1>5, <1>6, <1>7

LEMMA ActsOnward ==
    ASSUME TypeInv, NEW c \in Names, Remembers(cli[c]), Grown(cli[c]),
           \A d \in Names : file[d] \in Listings, Acts(c)
    PROVE  \/ Onward(c) /\ Recorded
           \/ Boots(c) \/ UpgradeMaster(c) \/ UpgradePassesOver(c) \/ UpgradeWorker(c)
           \/ StartCreate(c) \/ StartDelete(c) \/ StartUpgrade(c)
           \/ \E want \in 0..MostWorkers : StartScale(c, want)
<1>1. CASE CreateStep(c)
  <2>1. CASE \/ EnsureKey(c) \/ EnsureNetwork(c) \/ CreateSubnets(c) \/ EnsureFirewall(c)
             \/ JoinWorker(c) \/ Integrate(c)
    BY <2>1, OnwardPlain
  <2>2. CASE Look(c) \/ Save(c) \/ PrepareHost(c) \/ InitMaster(c)
    BY <2>2, OnwardNoting
  <2>3. CASE CreateMachine(c) \/ Await(c)
    BY <2>3, OnwardMachine
  <2>4. CASE TimesOut(c)
    BY <2>4, OnwardControl
  <2> QED
    BY <1>1, <2>1, <2>2, <2>3, <2>4 DEF CreateStep
<1>2. CASE DeleteStep(c)
  <2>1. CASE \/ DropDroplets(c) \/ DropSubnets(c) \/ Sweep(c) \/ SweepEmpty(c) \/ DropTags(c)
             \/ DropKey(c) \/ Untrack(c) \/ Forget(c) \/ Reset(c)
    BY <2>1, OnwardPlain
  <2>2. CASE DropTracked(c) \/ DropFirewall(c) \/ DropNetwork(c) \/ DropGroup(c)
    BY <2>2, OnwardNoting
  <2>3. CASE DropInstances(c)
    BY <2>3, OnwardControl
  <2> QED
    BY <1>2, <2>1, <2>2, <2>3 DEF DeleteStep
<1>3. CASE OtherStep(c)
  BY <1>3, OnwardScale DEF OtherStep
<1>4. CASE Stops(c) \/ Aborts(c) \/ DropGroupFails(c)
  BY <1>4, OnwardControl
<1>5. CASE PassOver(c)
  BY <1>5, OnwardNoting
<1>6. CASE SaveFails(c)
  BY <1>6, OnwardPlain
<1> QED
  BY <1>1, <1>2, <1>3, <1>4, <1>5, <1>6 DEF Acts, Step

-----------------------------------------------------------------------------
(* Each kind of step keeps the invariant of its cluster *)

LEMMA UpgradeOnward ==
    ASSUME NEW c \in Names, cloud' = cloud, Onward(c), Risen(c)
    PROVE  (Informed(c) /\ Caught(c) /\ Risen(c))'
<1>1. CASE cli'[c] = NoCommand /\ said'[c] \notin Succeeded
  <2>1. cli'[c].op = "none" /\ Fits(cli'[c])
    BY <1>1, NoCommandFits DEF NoCommand
  <2> QED
    BY <1>1, <2>1 DEF Informed, Knows, Caught, Risen, Fits
<1>2. CASE /\ cli[c].op # "none" /\ said'[c] = said[c]
           /\ cli'[c].op \notin {"none", "upgrade"} /\ Fits(cli'[c])
  BY <1>2 DEF Informed, Knows, Caught, Risen, Fits
<1> QED
  BY <1>1, <1>2 DEF Onward

LEMMA UpgradeStart ==
    ASSUME TypeInv, NEW c \in Names, cloud' = cloud, \A d \in Names : file[d] \in Listings,
           \/ StartCreate(c) \/ StartDelete(c) \/ StartUpgrade(c)
           \/ \E want \in 0..MostWorkers : StartScale(c, want)
    PROVE  (Informed(c) /\ Caught(c) /\ Risen(c))'
<1>1. PICK op \in {"create", "delete", "scale", "upgrade"}, want \in 0..MostWorkers :
        Start(c, op, want) /\ (op = "upgrade" /\ Tracks => file[c] # NoTracker)
  <2>1. 0 \in 0..MostWorkers
    BY WorkersAssumption
  <2> QED
    BY <2>1 DEF StartCreate, StartDelete, StartUpgrade, StartScale
<1>2. PICK at : at = Program(op).start
  OBVIOUS
<1>3. cli'[c] = [NoCommand EXCEPT !.op = op, !.at = at, !.want = want, !.mem = file]
  BY <1>1, <1>2 DEF Start, TypeInv, TypeOK
<1>4. /\ cli'[c].op = op /\ cli'[c].at = at /\ cli'[c].mem = file /\ cli'[c].mine = {}
      /\ said'[c] = "nothing"
  BY <1>1, <1>3 DEF Start, NoCommand, TypeInv, TypeOK
<1>5. op = "upgrade" => at = "upgradeMaster"
  BY <1>2 DEF Program
<1>6. cloud = "azure" /\ op = "upgrade" => file[c] = 0..Workers
  BY <1>1 DEF Tracks, Listings
<1> QED
  BY <1>4, <1>5, <1>6 DEF Informed, Grown, Remembers, Knows, Caught, Risen, Succeeded

\* A machine that starts had not joined.
LEMMA UpgradeBoots ==
    ASSUME TypeInv, NEW c \in Names, cloud' = cloud, Single(c), Informed(c), Caught(c), Risen(c),
           Boots(c)
    PROVE  (Informed(c) /\ Caught(c) /\ Risen(c))'
<1>1. PICK m \in vm[c] : ~m.up /\ Change(c, m, [m EXCEPT !.up = TRUE])
  BY DEF Boots
<1>2. m \in Machine /\ UNCHANGED <<cli, said>> /\ vm \in [Names -> SUBSET Machine]
  BY <1>1 DEF Boots, TypeInv, TypeOK
<1>3. PICK n : n = [m EXCEPT !.up = TRUE]
  OBVIOUS
<1>4. n.ca = Absent /\ m.ca = Absent
  BY <1>1, <1>2, <1>3 DEF Machine, Single, Powered
<1>5. vm'[c] = (vm[c] \ {m}) \cup {n}
  BY <1>1, <1>2, <1>3 DEF Change
<1>6. Headed(c) => Headed(c)'
  BY <1>4, <1>5 DEF Headed
<1>7. ASSUME NEW seen, NEW lost, Left(c, seen, lost)
      PROVE  \A o, w \in vm'[c] :
               o.node = 0 /\ o.ca # Absent /\ w.ca = o.ca /\ w.version # Target
                   => RefTo(w) \in seen \/ Passed(w, lost)
  BY <1>4, <1>5, <1>7 DEF Left
<1>8. Informed(c)'
  BY <1>2 DEF Informed, Knows
<1>9. Caught(c)'
  <2>1. ~Razed(c)
    BY <1>1 DEF Razed
  <2> QED
    BY <1>2, <1>6, <1>7, <2>1 DEF Caught, Left, Passed
<1>10. Risen(c)'
  <2>1. Left(c, {}, said[c] = "partial") => Left(c, {}, said[c] = "partial")'
    BY <1>2, <1>4, <1>5 DEF Left, Passed
  <2> QED
    BY <1>2, <1>6, <2>1 DEF Risen
<1> QED
  BY <1>8, <1>9, <1>10

\* The control plane is upgraded, and every member of its cluster is listed whose
\* address is read.
LEMMA UpgradeFirst ==
    ASSUME TypeInv, NEW c \in Names, cloud' = cloud, Consistent(c), Members(c), Versions(c),
           Single(c), Informed(c), Risen(c), UpgradeMaster(c) \/ UpgradePassesOver(c)
    PROVE  (Informed(c) /\ Caught(c) /\ Risen(c))'
<1> DEFINE me == cli[c]
<1>1. /\ me \in Command /\ me.op = "upgrade" /\ cli \in [Names -> Command]
      /\ vm \in [Names -> SUBSET Machine]
  BY OpAt DEF TypeInv, TypeOK, UpgradeMaster, UpgradePassesOver, At
<1>2. CASE End(c, "failed")
  <2>1. Onward(c) /\ cli'[c] = NoCommand /\ said'[c] = "failed"
    BY <1>1, <1>2, OnwardEnd DEF Succeeded, End, TypeInv, TypeOK
  <2>2. cli'[c].op = "none" /\ Fits(cli'[c])
    BY <2>1, NoCommandFits DEF NoCommand
  <2> QED
    BY <2>1, <2>2 DEF Informed, Knows, Caught, Risen, Fits, Succeeded
<1>3. CASE \E read \in SUBSET UpgradeWorkersOf(c) :
             (read # UpgradeWorkersOf(c) => cloud = "azure") /\ UpgradeWith(c, read)
  <2>0. PICK read \in SUBSET UpgradeWorkersOf(c) :
             (read # UpgradeWorkersOf(c) => cloud = "azure") /\ UpgradeWith(c, read)
    BY <1>3
  <2> DEFINE refs == {RefTo(w) : w \in read}
             lost == read # UpgradeWorkersOf(c)
  <2>1. PICK m \in ControlPlanes(c) :
             /\ Serves(c, m)
             /\ Change(c, m, [m EXCEPT !.version = Target])
             /\ GoTo(c, [me EXCEPT !.seen = refs, !.missed = lost], "upgradeWorkers")
    BY <2>0 DEF UpgradeWith
  <2>2. m \in vm[c] /\ m \in Machine /\ m.node = 0 /\ m.ca # Absent /\ cloud # "aws"
    BY <1>1, <2>1 DEF ControlPlanes, Masters, Serves, Routed, Members, Founded, RoleZero
  <2>3. PICK n : n = [m EXCEPT !.version = Target]
    OBVIOUS
  <2>4. n.node = 0 /\ n.ca = m.ca /\ n.version = Target
    BY <2>2, <2>3 DEF Machine
  <2>5. vm'[c] = (vm[c] \ {m}) \cup {n}
    BY <1>1, <2>1, <2>3 DEF Change
  <2>6. ASSUME cloud # "civo", NEW w \in vm[c], w # m, w.ca # Absent
        PROVE  RefTo(w) \in refs \/ Passed(w, lost)
    <3>1. w.node # 0
      BY <2>2, <2>6, WorkersAssumption DEF Consistent, Kept, Unique
    <3>2. w \in Others(c) /\ w.up
      BY <2>6, <3>1 DEF Others, Masters, Members, Founded, RoleZero, Single, Powered
    <3>3. cloud = "azure" => w.node \in me.mem[c]
      <4>1. cloud = "azure" => w.node <= Workers /\ me.mem[c] = 0..Workers
        BY <1>1 DEF Consistent, Kept, LowNodes, Informed, Knows
      <4>2. w.node \in Nat
        BY Numbers
      <4> QED
        BY <4>1, <4>2, WorkersAssumption
    <3>4. w \in UpgradeWorkersOf(c)
      BY <3>2, <3>3 DEF UpgradeWorkersOf
    <3> QED
      BY <2>0, <3>1, <3>4 DEF Passed
  <2> HIDE DEF refs, lost
  <2>7. cloud # "civo" => Headed(c)'
    BY <2>2, <2>4, <2>5 DEF Headed
  <2>8. cloud # "civo" => \A o, w \in vm'[c] :
          o.node = 0 /\ o.ca # Absent /\ w.ca = o.ca /\ w.version # Target
              => RefTo(w) \in refs \/ Passed(w, lost)
    BY <2>4, <2>5, <2>6
  <2>9. /\ cli' = [cli EXCEPT ![c] = [[me EXCEPT !.seen = refs, !.missed = lost]
                                         EXCEPT !.at = "upgradeWorkers", !.next = 0]]
        /\ UNCHANGED said
    BY <2>1 DEF GoTo
  <2>10. /\ cli'[c].op = "upgrade" /\ cli'[c].mem = me.mem /\ cli'[c].seen = refs
         /\ cli'[c].missed = lost
    BY <1>1, <2>9 DEF Command
  <2>11. Informed(c)'
    BY <1>1, <2>10 DEF Informed, Grown, Remembers, Knows
  <2>12. Caught(c)'
    BY <2>7, <2>8, <2>10 DEF Caught, Left, Passed
  <2>13. Risen(c)'
    BY <1>1, <2>9 DEF Risen
  <2> QED
    BY <2>11, <2>12, <2>13
<1> QED
  BY <1>2, <1>3 DEF UpgradeMaster, UpgradePassesOver

\* One of the workers is upgraded, or none is left.
LEMMA UpgradeNext ==
    ASSUME TypeInv, NEW c \in Names, cloud' = cloud, Single(c), Informed(c), Caught(c), Risen(c),
           UpgradeWorker(c)
    PROVE  (Informed(c) /\ Caught(c) /\ Risen(c))'
<1> DEFINE me == cli[c]
<1>1. /\ me \in Command /\ me.op = "upgrade" /\ me.at = "upgradeWorkers"
      /\ cli \in [Names -> Command] /\ vm \in [Names -> SUBSET Machine]
      /\ said \in [Names -> Said]
  BY OpAt DEF TypeInv, TypeOK, UpgradeWorker, At
<1>2. cloud # "civo" /\ ~Razed(c) => Headed(c) /\ Left(c, me.seen, me.missed)
  BY <1>1 DEF Caught
<1>3. ASSUME NEW answer, End(c, answer), UNCHANGED vm,
             answer \in Succeeded => me.seen = {} /\ me.missed = (answer = "partial")
      PROVE  (Informed(c) /\ Caught(c) /\ Risen(c))'
  <2>1. cli'[c] = NoCommand /\ said'[c] = answer
    BY <1>1, <1>3 DEF End
  <2>2. cli'[c].op = "none" /\ Fits(cli'[c])
    BY <2>1, NoCommandFits DEF NoCommand
  <2>3. cloud # "civo" /\ ~(cloud = "azure" /\ Shares) /\ answer \in Succeeded =>
          Headed(c)' /\ Left(c, {}, said[c] = "partial")'
    BY <1>2, <1>3, <2>1 DEF Headed, Left, Passed, Razed
  <2> QED
    BY <1>3, <2>1, <2>2, <2>3 DEF Informed, Knows, Caught, Risen, Fits
<1>4. CASE me.seen = {}
  <2>1. UNCHANGED vm /\ me.missed \in BOOLEAN
    BY <1>1, <1>4 DEF UpgradeWorker, Command
  <2>2. PICK answer : End(c, answer) /\ (answer \in Succeeded => me.missed = (answer = "partial"))
    BY <1>1, <1>4, <2>1 DEF UpgradeWorker, GoTo, Answer, Succeeded
  <2> QED
    BY <1>3, <1>4, <2>1, <2>2
<1>5. CASE me.seen # {}
  <2>1. \/ End(c, "failed") /\ UNCHANGED vm
        \/ \E m \in vm[c] :
             /\ Serves(c, m) /\ Change(c, m, [m EXCEPT !.version = Target])
             /\ cli' = [cli EXCEPT ![c].seen = @ \ {RefTo(m)}]
             /\ UNCHANGED said
    BY <1>5 DEF UpgradeWorker
  <2>2. CASE End(c, "failed") /\ UNCHANGED vm
    BY <1>3, <2>2 DEF Succeeded
  <2>3. CASE \E m \in vm[c] :
               /\ Serves(c, m) /\ Change(c, m, [m EXCEPT !.version = Target])
               /\ cli' = [cli EXCEPT ![c].seen = @ \ {RefTo(m)}]
               /\ UNCHANGED said
    <3>0. PICK m \in vm[c] :
             /\ Serves(c, m) /\ Change(c, m, [m EXCEPT !.version = Target])
             /\ cli' = [cli EXCEPT ![c].seen = @ \ {RefTo(m)}]
             /\ UNCHANGED said
      BY <2>3
    <3>1. PICK n : n = [m EXCEPT !.version = Target]
      OBVIOUS
    <3>2. n.node = m.node /\ n.ca = m.ca /\ n.version = Target
      BY <1>1, <3>1 DEF Machine
    <3>3. vm'[c] = (vm[c] \ {m}) \cup {n}
      BY <1>1, <3>0, <3>1 DEF Change
    <3>4. /\ cli'[c].op = "upgrade" /\ cli'[c].mem = me.mem
          /\ cli'[c].seen = me.seen \ {RefTo(m)} /\ cli'[c].missed = me.missed
      BY <1>1, <3>0 DEF Command
    <3>5. Headed(c) => Headed(c)'
      BY <3>2, <3>3 DEF Headed
    <3>6. ASSUME NEW w \in vm[c], w # m PROVE RefTo(w) # RefTo(m)
      BY <3>6 DEF RefTo, Single, Distinct
    <3>7. Left(c, me.seen, me.missed) => \A o, w \in vm'[c] :
            o.node = 0 /\ o.ca # Absent /\ w.ca = o.ca /\ w.version # Target
            => RefTo(w) \in me.seen \ {RefTo(m)} \/ Passed(w, me.missed)
      BY <3>2, <3>3, <3>6 DEF Left
    <3>8. Informed(c)'
      BY <1>1, <3>4 DEF Informed, Grown, Remembers, Knows
    <3>9. Caught(c)'
      BY <1>2, <3>4, <3>5, <3>7 DEF Caught, Left, Passed, Razed
    <3>10. Risen(c)'
      BY <1>1, <3>0 DEF Risen
    <3> QED
      BY <3>8, <3>9, <3>10
  <2> QED
    BY <2>1, <2>2, <2>3
<1> QED
  BY <1>4, <1>5

\* What another cluster's command does to this one: nothing, or its tags are gone,
\* or the resource group of both is.
LEMMA UpgradeApart ==
    ASSUME TypeInv, NEW d \in Names, cloud' = cloud, cli'[d] = cli[d], said'[d] = said[d],
           \/ vm'[d] = vm[d] \/ vm'[d] = Untagged(vm[d])
           \/ cloud = "azure" /\ Shares /\ vm'[d] = {},
           Single(d), Informed(d), Caught(d), Risen(d)
    PROVE  (Single(d) /\ Informed(d) /\ Caught(d) /\ Risen(d))'
<1>1. Single(d)'
  BY MovesKeep DEF Moves, Single, Distinct, Powered
<1>2. Informed(d)'
  BY DEF Informed, Knows
<1>3. CASE vm'[d] = vm[d]
  BY <1>1, <1>2, <1>3 DEF Caught, Risen, Headed, Left, Passed, Razed
<1>5. CASE cloud = "azure" /\ Shares /\ vm'[d] = {}
  BY <1>1, <1>2, <1>5 DEF Caught, Risen, Razed
<1>4. CASE vm'[d] = Untagged(vm[d])
  <2>1. ASSUME NEW o \in vm[d]
        PROVE  LET n == [o EXCEPT !.role = FALSE] IN
               /\ n.node = o.node /\ n.ca = o.ca /\ n.version = o.version
               /\ RefTo(n) = RefTo(o)
    <3>1. o \in Machine
      BY DEF TypeInv, TypeOK
    <3> QED
      BY <3>1 DEF Machine, RefTo
  <2>2. \A n \in vm'[d] : \E o \in vm[d] : /\ n.node = o.node /\ n.ca = o.ca
                                          /\ n.version = o.version /\ RefTo(n) = RefTo(o)
    BY <1>4, <2>1 DEF Untagged
  <2>3. \A o \in vm[d] : \E n \in vm'[d] : n.node = o.node /\ n.ca = o.ca
    BY <1>4, <2>1 DEF Untagged
  <2>4. Headed(d) => Headed(d)'
    BY <2>3 DEF Headed
  <2>5. ASSUME NEW seen, NEW lost, Left(d, seen, lost)
        PROVE  \A o, w \in vm'[d] :
                 o.node = 0 /\ o.ca # Absent /\ w.ca = o.ca /\ w.version # Target
                     => RefTo(w) \in seen \/ Passed(w, lost)
    BY <2>2, <2>5 DEF Left, Passed
  <2>6. Caught(d)'
    <3>1. Left(d, cli[d].seen, cli[d].missed) => \A o, w \in vm'[d] :
            o.node = 0 /\ o.ca # Absent /\ w.ca = o.ca /\ w.version # Target
            => RefTo(w) \in cli[d].seen \/ Passed(w, cli[d].missed)
      BY <2>5
    <3>2. Razed(d) => Razed(d)'
      BY <2>2 DEF Razed
    <3> QED
      BY <2>4, <3>1, <3>2 DEF Caught, Left, Passed
  <2>7. Risen(d)'
    <3>1. Left(d, {}, said[d] = "partial") => Left(d, {}, said[d] = "partial")'
      BY <2>2 DEF Left, Passed
    <3> QED
      BY <2>4, <3>1 DEF Risen
  <2> QED
    BY <1>1, <1>2, <2>6, <2>7
<1> QED
  BY <1>3, <1>4, <1>5

-----------------------------------------------------------------------------
(* The theorems *)

LEMMA InitUpgrade == Init => UpgradeInv
<1> SUFFICES ASSUME Init PROVE UpgradeInv
  OBVIOUS
<1>1. VersionInv
  BY InitVersions
<1>2. \A d \in Names : file[d] \in Listings
  BY DEF Init, Listings
<1>3. ASSUME NEW c \in Names PROVE Single(c) /\ Informed(c) /\ Caught(c) /\ Risen(c)
  <2>1. cli[c] = NoCommand /\ cli[c].op = "none" /\ said[c] = "nothing"
    BY DEF Init, NoCommand
  <2>2. Informed(c) /\ Caught(c) /\ Risen(c)
    BY <2>1, NoCommandFits DEF Informed, Fits, Knows, Caught, Risen, Succeeded
  <2>3. Single(c)
    <3>1. CASE cloud # "custom"
      BY <3>1 DEF Init, Single, Distinct, Powered
    <3>2. CASE cloud = "custom"
      <4> DEFINE Host(n) == [node |-> n, copy |-> 1, key |-> 1, up |-> TRUE, role |-> n = 0,
                             ca |-> Absent, version |-> Absent]
      <4>1. \A m \in vm[c] : \E n \in 0..Workers : m = Host(n)
        BY <3>2 DEF Init
      <4>2. \A n \in 0..Workers : Host(n).node = n /\ Host(n).ca = Absent
        OBVIOUS
      <4> HIDE DEF Host
      <4> QED
        BY <4>1, <4>2 DEF Single, Distinct, Powered
    <3> QED
      BY <3>1, <3>2
  <2> QED
    BY <2>2, <2>3
<1> QED
  BY <1>1, <1>2, <1>3 DEF UpgradeInv

\* A step of the command of one cluster: its machines, and what is remembered.
LEMMA ActsUpgrade ==
    ASSUME UpgradeInv, NEW c \in Names, cloud' = cloud, Acts(c)
    PROVE  /\ (Single(c) /\ Informed(c) /\ Caught(c) /\ Risen(c))'
           /\ \A d \in Names : file'[d] \in Listings
           /\ cli[c].op # "delete" => Retained(c)
<1>1. /\ TypeInv /\ Consistent(c) /\ Members(c) /\ Versions(c)
      /\ Single(c) /\ Informed(c) /\ Caught(c) /\ Risen(c)
      /\ Remembers(cli[c]) /\ Grown(cli[c]) /\ \A d \in Names : file[d] \in Listings
  BY DEF UpgradeInv, VersionInv, MemberInv, SafeInv, Informed
<1>2. Moves(c)
  BY <1>1, ActsMove
<1>3. Single(c)' /\ (cli[c].op # "delete" => Retained(c))
  BY <1>1, <1>2, MovesKeep
<1>4. ASSUME UNCHANGED file PROVE \A d \in Names : file'[d] \in Listings
  BY <1>1, <1>4
<1>5. CASE Onward(c) /\ Recorded
  BY <1>1, <1>3, <1>5, UpgradeOnward DEF Recorded
<1>6. CASE Boots(c)
  BY <1>1, <1>3, <1>4, <1>6, UpgradeBoots DEF Boots
<1>7. CASE UpgradeMaster(c) \/ UpgradePassesOver(c)
  BY <1>1, <1>3, <1>4, <1>7, UpgradeFirst DEF UpgradeMaster, UpgradePassesOver
<1>8. CASE UpgradeWorker(c)
  BY <1>1, <1>3, <1>4, <1>8, UpgradeNext DEF UpgradeWorker
<1>9. CASE \/ StartCreate(c) \/ StartDelete(c) \/ StartUpgrade(c)
           \/ \E want \in 0..MostWorkers : StartScale(c, want)
  <2>1. UNCHANGED file
    BY <1>9 DEF StartCreate, StartDelete, StartUpgrade, StartScale, Start
  <2> QED
    BY <1>1, <1>3, <1>4, <1>9, <2>1, UpgradeStart
<1> QED
  BY <1>1, <1>5, <1>6, <1>7, <1>8, <1>9, ActsOnward

\* No deletion is running that could take the control plane of a cluster away.
Spares(c) == /\ cli[c].op # "delete"
             /\ Exposed => \A d \in Names : cli[d].op # "delete"

LEMMA StepUpgrade ==
    ASSUME UpgradeInv, VersionInv', [Next]_vars
    PROVE  /\ UpgradeInv'
           /\ \A c \in Names : Spares(c) => Retained(c)
<1>0. TypeInv
  BY DEF UpgradeInv, VersionInv, MemberInv, SafeInv
<1>1. CASE Next
  <2>1. PICK c \in Names : Acts(c)
    BY <1>1, NextActs
  <2>2. Stepped(c) /\ Apart(c) /\ cloud' = cloud
    BY <2>1, NextGood DEF UpgradeInv, VersionInv, MemberInv, Good, Stepped
  <2>3. /\ (Single(c) /\ Informed(c) /\ Caught(c) /\ Risen(c))'
        /\ \A d \in Names : file'[d] \in Listings
        /\ cli[c].op # "delete" => Retained(c)
    BY <2>1, <2>2, ActsUpgrade
  <2>4. ASSUME NEW d \in Names, d # c
        PROVE  (Single(d) /\ Informed(d) /\ Caught(d) /\ Risen(d))' /\ (Spares(d) => Retained(d))
    <3>1. /\ cli'[d] = cli[d] /\ said'[d] = said[d]
          /\ \/ vm'[d] = vm[d] \/ vm'[d] = Untagged(vm[d])
             \/ cloud = "azure" /\ Shares /\ cli[c].op = "delete" /\ vm'[d] = {}
      BY <2>2, <2>4 DEF Stepped, Apart
    <3>2. Single(d) /\ Informed(d) /\ Caught(d) /\ Risen(d)
      BY DEF UpgradeInv
    <3>4. Spares(d) => Retained(d)
      <4> SUFFICES ASSUME Spares(d) PROVE Retained(d)
        OBVIOUS
      <4>1. cli[d].op # "delete" /\ (vm'[d] = vm[d] \/ vm'[d] = Untagged(vm[d]))
        BY <3>1 DEF Spares, Exposed
      <4> QED
        BY <1>0, <3>2, <4>1, MovesKeep DEF Moves
    <3> QED
      BY <1>0, <2>2, <3>1, <3>2, <3>4, UpgradeApart
  <2> QED
    BY <2>3, <2>4 DEF UpgradeInv, Spares
<1>2. CASE UNCHANGED vars
  <2>1. /\ cloud' = cloud /\ vm' = vm /\ cli' = cli /\ said' = said /\ file' = file
    BY <1>2 DEF vars
  <2>2. ASSUME NEW d \in Names
        PROVE  (Single(d) /\ Informed(d) /\ Caught(d) /\ Risen(d))' /\ (Spares(d) => Retained(d))
    <3>1. Single(d) /\ Informed(d) /\ Caught(d) /\ Risen(d)
      BY DEF UpgradeInv
    <3>2. Spares(d) => Retained(d)
      BY <1>0, <2>1, <3>1, MovesKeep DEF Moves, Spares
    <3> QED
      BY <1>0, <2>1, <3>1, <3>2, UpgradeApart
  <2> QED
    BY <2>1, <2>2 DEF UpgradeInv
<1> QED
  BY <1>1, <1>2

LEMMA Upgrades == Spec => []UpgradeInv
<1>1. UpgradeInv /\ VersionInv' /\ [Next]_vars => UpgradeInv'
  BY StepUpgrade
<1>2. VersionInv /\ MemberInv' /\ [Next]_vars => VersionInv'
  BY StepVersions
<1>3. Spec => []VersionInv
  BY <1>2, InitVersions, Membership, PTL DEF Spec
<1> QED
  BY <1>1, <1>3, InitUpgrade, PTL DEF Spec

\* ControlPlaneKept: only a deletion takes a control plane away, of its own cluster
\* or, on Azure, of one in the same resource group; creations that are run again,
\* scalings, upgrades and clean-ups, of this cluster and of every other one, neither
\* delete one, nor initialise it again, nor make it older; nor does a deletion of
\* another cluster that only shares the account, or GCP's network.
THEOREM ControlPlanesStay == Spec => ControlPlaneKept
<1>1. ASSUME UpgradeInv, VersionInv', [Next]_vars
      PROVE  [\A c \in Names : \A m \in vm[c] :
                /\ m.node = 0 /\ m.ca # Absent /\ cli[c].op # "delete"
                /\ Exposed => \A d \in Names : cli[d].op # "delete"
                => \E n \in vm'[c] : /\ n.node = 0 /\ n.copy = m.copy /\ n.ca = m.ca
                                     /\ n.version >= m.version]_vars
  BY <1>1, StepUpgrade DEF Retained, Spares
<1>2. Spec => []VersionInv
  BY Upgrades, PTL DEF UpgradeInv
<1> QED
  BY <1>1, <1>2, Upgrades, PTL DEF Spec, ControlPlaneKept

\* UpgradedIsWhole: an upgrade that answers success left no member of the
\* cluster at another version, whatever ran, failed or was interrupted before it,
\* but on Azure for workers whose address it could not read; nothing is
\* said of a resource group that clusters share, which may be gone since.
THEOREM NoneLeftBehind == Spec => []UpgradedIsWhole
<1>1. UpgradeInv => UpgradedIsWhole
  BY DEF UpgradeInv, Risen, Succeeded, Headed, Left, Passed, UpgradedIsWhole, Exposed
<1> QED
  BY <1>1, Upgrades, PTL
====
