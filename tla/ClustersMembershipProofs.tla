---- MODULE ClustersMembershipProofs ----
(***************************************************************************)
(* Proofs about Clusters: a cluster whose creation answers Running has its *)
(* control plane, and every worker is a member of that very cluster.       *)
(***************************************************************************)
EXTENDS ClustersSafetyProofs

-----------------------------------------------------------------------------
(* The invariant *)

RoleZero(c) == \A m \in vm[c] : m.role => m.node = 0

\* Where machines are taken over, none is a member of a cluster that is gone.
Rooted(c) == cloud \in {"digitalocean", "azure"} =>
    \A w \in vm[c] : w.ca # Absent => \E o \in vm[c] : o.node = 0 /\ o.ca = w.ca

\* Where they are not, those a creation made are members of nothing at first.
NewOnes(c) ==
    cloud \notin {"digitalocean", "azure", "custom"} /\ cli[c].op = "create" /\ cli[c].at # "join"
        => \A w \in vm[c] : (\E r \in cli[c].mine : IsOf(w, r)) => w.ca = Absent

Rooting(c, ca) == ca # Absent /\ \E m \in vm[c] : m.node = 0 /\ m.ca = ca
JoinedUpTo(c, ca, last) == \A n \in 1..last : \E w \in vm[c] : w.node = n /\ w.ca = ca

\* A mate's deletion has taken the resource group of Azure that they share.
Razed(c) == cloud = "azure" /\ Shares /\ vm[c] = {}

Joining(c) == cloud # "custom" /\ cli[c].op = "create" =>
    /\ cli[c].at = "join" /\ ~Razed(c) =>
         /\ Rooting(c, cli[c].token) /\ JoinedUpTo(c, cli[c].token, cli[c].next)
         /\ \A w \in vm[c] : (\E r \in cli[c].mine : IsOf(w, r)) => w.ca \in {Absent, cli[c].token}
    /\ cli[c].at = "integrate" => Whole(c)

Scaling(c) == cli[c].op = "scale" =>
    /\ cli[c].at \in {"grow", "await", "joinNew"} => Rooting(c, cli[c].token)
    /\ cli[c].at = "shrink" => \A r \in cli[c].seen : r.node # 0

Running(c) == said[c] = "running" =>
    cli[c].op = "none" /\ (cloud # "custom" /\ ~(cloud = "azure" /\ Shares) => Whole(c))

Founded(c) == RoleZero(c) /\ Rooted(c)
Members(c) == Founded(c) /\ NewOnes(c) /\ Joining(c) /\ Scaling(c) /\ Running(c)

MemberInv == SafeInv /\ \A c \in Names : Members(c)

-----------------------------------------------------------------------------
(* Steps after which the machines are the same, up to power, version and tags *)

Like(m, o) == m.node = o.node /\ m.copy = o.copy /\ m.ca = o.ca /\ (m.role => o.role)
Alike(c) == /\ \A m \in vm'[c] : \E o \in vm[c] : Like(m, o)
            /\ \A o \in vm[c] : \E m \in vm'[c] : Like(m, o)

LEMMA SameAlike == ASSUME NEW c, vm'[c] = vm[c] PROVE Alike(c)
  BY DEF Alike, Like

LEMMA UntaggedAlike ==
    ASSUME TypeInv, NEW c \in Names, vm'[c] = Untagged(vm[c])
    PROVE  Alike(c)
<1>1. vm[c] \in SUBSET Machine
  BY DEF TypeInv, TypeOK
<1>2. ASSUME NEW o \in vm[c] PROVE Like([o EXCEPT !.role = FALSE], o)
  BY <1>1 DEF Like, Machine
<1>3. \A m \in vm'[c] : \E o \in vm[c] : m = [o EXCEPT !.role = FALSE]
  BY DEF Untagged
<1>4. \A o \in vm[c] : [o EXCEPT !.role = FALSE] \in vm'[c]
  BY DEF Untagged
<1> QED
  BY <1>2, <1>3, <1>4 DEF Alike

LEMMA ChangeAlike ==
    ASSUME TypeInv, NEW c \in Names, NEW m \in vm[c], NEW n, Change(c, m, n), Like(n, m)
    PROVE  Alike(c) /\ \A d \in Names \ {c} : vm'[d] = vm[d]
<1>1. vm'[c] = (vm[c] \ {m}) \cup {n} /\ \A d \in Names \ {c} : vm'[d] = vm[d]
  BY DEF Change, TypeInv, TypeOK
<1>2. \A o : Like(o, o)
  BY DEF Like
<1> HIDE DEF Like
<1> QED
  BY <1>1, <1>2 DEF Alike

LEMMA AlikeKeeps ==
    ASSUME NEW c, cloud' = cloud, Alike(c)
    PROVE  /\ Founded(c) => Founded(c)'
           /\ Whole(c) => Whole(c)'
           /\ \A ca : Rooting(c, ca) => Rooting(c, ca)'
           /\ \A ca, last : JoinedUpTo(c, ca, last) => JoinedUpTo(c, ca, last)'
<1>1. Founded(c) => Founded(c)'
  BY DEF Alike, Like, Founded, RoleZero, Rooted
<1>2. Whole(c) => Whole(c)'
  <2> SUFFICES ASSUME Whole(c) PROVE Whole(c)'
    OBVIOUS
  <2>1. PICK m \in vm[c] : /\ m.node = 0 /\ m.ca # Absent
                           /\ \A n \in 1..Workers : \E w \in vm[c] : w.node = n /\ w.ca = m.ca
    BY DEF Whole
  <2>2. PICK x \in vm'[c] : x.node = 0 /\ x.ca = m.ca
    BY <2>1 DEF Alike, Like
  <2>3. \A n \in 1..Workers : \E w \in vm'[c] : w.node = n /\ w.ca = x.ca
    BY <2>1, <2>2 DEF Alike, Like
  <2> QED
    BY <2>1, <2>2, <2>3 DEF Whole
<1>3. \A ca : Rooting(c, ca) => Rooting(c, ca)'
  BY DEF Alike, Like, Rooting
<1>4. \A ca, last : JoinedUpTo(c, ca, last) => JoinedUpTo(c, ca, last)'
  BY DEF Alike, Like, JoinedUpTo
<1> QED
  BY <1>1, <1>2, <1>3, <1>4

\* The same holds of a cluster whose command does not move.
LEMMA AlikeMembers ==
    ASSUME NEW c \in Names, Members(c), cloud' = cloud, Alike(c),
           cli'[c] = cli[c], said'[c] = said[c]
    PROVE  Members(c)'
<1> DEFINE me == cli[c]
<1>1. Founded(c)' /\ (Whole(c) => Whole(c)')
  BY AlikeKeeps DEF Members
<1>2. ASSUME NEW w \in vm'[c], NEW r, IsOf(w, r)
      PROVE  \E o \in vm[c] : IsOf(o, r) /\ o.ca = w.ca
  BY <1>2 DEF Alike, Like, IsOf
<1>3. NewOnes(c)'
  BY <1>2 DEF Members, NewOnes
<1>4. \A ca : Rooting(c, ca) => Rooting(c, ca)'
  BY AlikeKeeps
<1>5. \A ca, last : JoinedUpTo(c, ca, last) => JoinedUpTo(c, ca, last)'
  BY AlikeKeeps
<1>6. PICK ca, last : ca = cli[c].token /\ last = cli[c].next
  OBVIOUS
<1>7. (Rooting(c, cli[c].token) => Rooting(c, cli[c].token)')
  <2>1. Rooting(c, ca) => Rooting(c, ca)'
    BY <1>4
  <2> QED
    BY <1>6, <2>1 DEF Rooting
<1>8. JoinedUpTo(c, cli[c].token, cli[c].next) => JoinedUpTo(c, cli[c].token, cli[c].next)'
  <2>1. JoinedUpTo(c, ca, last) => JoinedUpTo(c, ca, last)'
    BY <1>5
  <2> QED
    BY <1>6, <2>1 DEF JoinedUpTo
<1>9. Joining(c)'
  <2>1. Razed(c) => Razed(c)'
    BY DEF Razed, Alike
  <2> QED
    BY <1>1, <1>2, <1>7, <1>8, <2>1 DEF Members, Joining
<1>10. Scaling(c)'
  BY <1>7 DEF Members, Scaling
<1>11. Running(c)'
  BY <1>1 DEF Members, Running
<1> QED
  BY <1>1, <1>3, <1>9, <1>10, <1>11 DEF Members

-----------------------------------------------------------------------------
(* What a command goes on to *)

LEMMA OthersMembers ==
    ASSUME MemberInv, NEW c \in Names, Stepped(c), Apart(c), NEW d \in Names, d # c
    PROVE  Members(d)'
<1>1. /\ cloud' = cloud /\ cli'[d] = cli[d] /\ said'[d] = said[d]
      /\ \/ vm'[d] = vm[d] \/ vm'[d] = Untagged(vm[d])
         \/ cloud = "azure" /\ Shares /\ vm'[d] = {}
  BY DEF Stepped, Apart
<1>2. CASE vm'[d] = vm[d] \/ vm'[d] = Untagged(vm[d])
  <2>1. Alike(d)
    BY <1>2, SameAlike, UntaggedAlike DEF MemberInv, SafeInv
  <2> QED
    BY <1>1, <2>1, AlikeMembers DEF MemberInv
<1>3. CASE cloud = "azure" /\ Shares /\ vm'[d] = {}
  <2>1. Founded(d)' /\ NewOnes(d)'
    BY <1>3 DEF Founded, RoleZero, Rooted, NewOnes
  <2>2. /\ cli[d].op = "create" => cli[d].at # "integrate"
        /\ cli[d].op # "scale"
    BY <1>3 DEF MemberInv, SafeInv, TypeInv, Placed, StepsOf, CreateSteps
  <2>3. Joining(d)' /\ Scaling(d)'
    BY <1>1, <1>3, <2>2 DEF Joining, Razed, Scaling
  <2>4. Running(d)'
    BY <1>1, <1>3 DEF MemberInv, Members, Running
  <2> QED
    BY <2>1, <2>3, <2>4 DEF Members
<1> QED
  BY <1>1, <1>2, <1>3

\* Commands other than creations and scalings have nothing to remember.
LEMMA Unbound ==
    ASSUME NEW c \in Names, cloud' = cloud, cli'[c].op \notin {"create", "scale"},
           said'[c] # "running", Founded(c)'
    PROVE  Members(c)'
  BY DEF Members, NewOnes, Joining, Scaling, Running

LEMMA UnboundEnd ==
    ASSUME TypeInv, NEW c \in Names, cloud' = cloud, NEW answer, answer # "running",
           End(c, answer), Founded(c)'
    PROVE  Members(c)'
<1>1. cli'[c] = NoCommand /\ said'[c] = answer
  BY DEF End, TypeInv, TypeOK
<1> QED
  BY <1>1, Unbound DEF NoCommand

\* A deletion, or the undoing of a creation, goes on.
LEMMA UnboundProceed ==
    ASSUME TypeInv, NEW c \in Names, Members(c), cloud' = cloud,
           cli[c].op \in {"delete", "abort"}, NEW n \in Command, n.op = cli[c].op,
           Proceed(c, n), Founded(c)'
    PROVE  Members(c)'
<1>1. TypeOK /\ n.op \in Ops /\ cli \in [Names -> Command] /\ said \in [Names -> Said]
  BY DEF TypeInv, TypeOK, Ops
<1>2. said[c] # "running"
  BY DEF Members, Running
<1>3. said'[c] # "running"
  BY <1>1, <1>2 DEF Proceed, GoTo, End, Answer
<1>4. cli'[c] = Advanced(n)
  BY <1>1, Proceeded DEF Becomes
<1>5. Advanced(n).op \in {"none", "delete", "abort"}
  <2>1. CASE After(n) = "done"
    BY <2>1 DEF Advanced, NoCommand
  <2>2. CASE After(n) # "done"
    <3>1. Advanced(n) = [n EXCEPT !.at = After(n), !.next = 0]
      BY <2>2 DEF Advanced
    <3>2. Advanced(n).op = n.op
      BY <3>1 DEF Command
    <3> QED
      BY <3>2
  <2> QED
    BY <2>1, <2>2
<1> QED
  BY <1>3, <1>4, <1>5, Unbound

LEMMA UnboundLoop ==
    ASSUME TypeInv, NEW c \in Names, Members(c), cloud' = cloud,
           cli[c].op \in {"delete", "abort"}, NEW n \in Command, n.op = cli[c].op, NEW last,
           Loop(c, n, last), Founded(c)'
    PROVE  Members(c)'
<1>1. TypeOK /\ n.op \in Ops /\ cli \in [Names -> Command] /\ said \in [Names -> Said]
  BY DEF TypeInv, TypeOK, Ops
<1>2. CASE Proceed(c, n)
  BY <1>2, UnboundProceed
<1>3. CASE Becomes(c, [n EXCEPT !.next = @ + 1]) /\ UNCHANGED said
  <2>1. cli'[c] = [n EXCEPT !.next = @ + 1] /\ said' = said
    BY <1>1, <1>3 DEF Becomes
  <2>2. cli'[c].op = n.op
    BY <2>1, Counted
  <2>3. said'[c] # "running"
    BY <2>1 DEF Members, Running
  <2> QED
    BY <2>2, <2>3, Unbound
<1> QED
  BY <1>1, <1>2, <1>3, Looped

\* Where the steps of a creation lead.
LEMMA AfterInit ==
    ASSUME NEW at \in CreateSteps(cloud), cloud \in SixClouds, at # "await"
    PROVE  LET next == Program("create")[at] IN
           /\ at \notin {"init", "join", "integrate"} =>
                next \notin {"join", "integrate", "done"}
           /\ at = "init" => next = "join"
           /\ at = "join" => next = IF cloud = "digitalocean" THEN "integrate" ELSE "done"
           /\ at = "integrate" => next = "done"
  BY DEF SixClouds, Program, CreateSteps, DigitalOceanCreate, CivoCreate, GcpCreate,
         AzureCreate, AwsCreate, CustomCreate

\* A creation that has not got to kubeadm goes on: what it has made is new.
LEMMA CreationMembers ==
    ASSUME NEW c \in Names, cloud' = cloud, cli'[c].op = "create",
           cli'[c].at \notin {"join", "integrate"}, said'[c] # "running", Founded(c)', NewOnes(c)'
    PROVE  Members(c)'
  BY DEF Members, Joining, Scaling, Running

LEMMA CreationProceed ==
    ASSUME TypeInv, NEW c \in Names, Members(c), cloud' = cloud, cli[c].op = "create",
           NEW n \in Command, n.op = "create",
           n.at \in StepsOf(cloud, "create") \ {"await", "init", "join", "integrate"},
           cli[c].at # "join",
           \/ cloud \in {"digitalocean", "azure", "custom"} \/ n.mine = cli[c].mine,
           Proceed(c, n), Alike(c)
    PROVE  Members(c)'
<1>1. /\ TypeOK /\ n.op \in Ops /\ cloud \in SixClouds /\ cli \in [Names -> Command]
      /\ After(n) \notin {"join", "integrate", "done"}
  BY CloudSix, AfterInit DEF TypeInv, TypeOK, Ops, StepsOf, After
<1>2. cli'[c] = [n EXCEPT !.at = After(n), !.next = 0] /\ said' = said
  BY <1>1 DEF Proceed, GoTo, After
<1>3. cli'[c].op = "create" /\ cli'[c].at = After(n) /\ cli'[c].mine = n.mine
  BY <1>2 DEF Command
<1>4. said'[c] # "running"
  BY <1>2 DEF Members, Running
<1>5. Founded(c)'
  BY AlikeKeeps DEF Members
<1>6. NewOnes(c)'
  BY <1>3 DEF Members, NewOnes, Alike, Like, IsOf
<1> QED
  BY <1>1, <1>3, <1>4, <1>5, <1>6, CreationMembers

LEMMA CreationLoop ==
    ASSUME TypeInv, NEW c \in Names, Members(c), cloud' = cloud, cli[c].op = "create",
           NEW n \in Command, n.op = "create",
           n.at \in StepsOf(cloud, "create") \ {"await", "init", "join", "integrate"},
           cli[c].at # "join",
           \/ cloud \in {"digitalocean", "azure", "custom"} \/ n.mine = cli[c].mine,
           NEW last, Loop(c, n, last), Alike(c)
    PROVE  Members(c)'
<1>1. TypeOK /\ n.op \in Ops /\ cli \in [Names -> Command]
  BY DEF TypeInv, TypeOK, Ops
<1>2. CASE Proceed(c, n)
  BY <1>2, CreationProceed
<1>3. CASE Becomes(c, [n EXCEPT !.next = @ + 1]) /\ UNCHANGED said
  <2>1. cli'[c] = [n EXCEPT !.next = @ + 1] /\ said' = said
    BY <1>1, <1>3 DEF Becomes
  <2>2. cli'[c].op = "create" /\ cli'[c].at = n.at /\ cli'[c].mine = n.mine
    BY <2>1, Counted
  <2>3. said'[c] # "running"
    BY <2>1 DEF Members, Running
  <2>4. Founded(c)'
    BY AlikeKeeps DEF Members
  <2>5. NewOnes(c)'
    BY <2>2 DEF Members, NewOnes, Alike, Like, IsOf
  <2> QED
    BY <2>2, <2>3, <2>4, <2>5, CreationMembers
<1> QED
  BY <1>1, <1>2, <1>3, Looped

-----------------------------------------------------------------------------
(* Creation *)

LEMMA MembersCreation ==
    ASSUME TypeInv, NEW c \in Names, Members(c), cloud' = cloud,
           \/ EnsureKey(c) \/ EnsureNetwork(c) \/ CreateSubnets(c) \/ EnsureFirewall(c)
           \/ Save(c) \/ SaveFails(c) \/ Look(c)
    PROVE  Members(c)'
<1> DEFINE me == cli[c]
<1>1. /\ me \in Command /\ TypeOK /\ cloud \in SixClouds /\ me.at \in StepsOf(cloud, me.op)
  BY CloudSix DEF TypeInv, TypeOK, Placed
<1>2. /\ me.at \in {"key", "network", "subnets", "firewall", "save", "look"} /\ vm' = vm
  BY DEF EnsureKey, EnsureNetwork, CreateSubnets, EnsureFirewall, Save, SaveFails, Look, At,
         account
<1>3. me.op = "create"
  BY <1>2, OpAt
<1>4. Alike(c) /\ Founded(c)'
  BY <1>2, SameAlike, AlikeKeeps DEF Members
<1>5. \/ End(c, "failed")
      \/ \E n \in Command : n.op = me.op /\ n.at = me.at /\ n.mine = me.mine /\ Proceed(c, n)
  <2>1. CASE Save(c)
    <3> DEFINE n == [me EXCEPT !.mem = [me.mem EXCEPT ![c] = 0..Workers]]
    <3>1. n \in Command /\ n.op = me.op /\ n.at = me.at /\ n.mine = me.mine
      <4>1. [me.mem EXCEPT ![c] = 0..Workers] \in Trackers
        BY <1>1, WorkersAssumption DEF Command, Trackers, Nodes
      <4> QED
        BY <1>1, <4>1 DEF Command
    <3>2. Proceed(c, n)
      BY <2>1 DEF Save
    <3> QED
      BY <3>1, <3>2
  <2>2. CASE Look(c)
    <3> DEFINE n == [me EXCEPT !.seen = {RefTo(m) : m \in vm[c]}]
    <3>1. n \in Command /\ n.op = me.op /\ n.at = me.at /\ n.mine = me.mine
      <4>1. {RefTo(m) : m \in vm[c]} \in SUBSET Ref
        BY <1>1 DEF TypeOK, RefTo, Ref, Machine
      <4> QED
        BY <1>1, <4>1 DEF Command
    <3>2. Proceed(c, n)
      BY <2>2 DEF Look
    <3> QED
      BY <3>1, <3>2
  <2>3. CASE ~Save(c) /\ ~Look(c)
    BY <1>1, <2>3 DEF EnsureKey, EnsureNetwork, CreateSubnets, EnsureFirewall, SaveFails
  <2> QED
    BY <2>1, <2>2, <2>3
<1>6. CASE End(c, "failed")
  BY <1>4, <1>6, UnboundEnd
<1>7. CASE \E n \in Command : n.op = me.op /\ n.at = me.at /\ n.mine = me.mine /\ Proceed(c, n)
  BY <1>1, <1>2, <1>3, <1>4, <1>7, CreationProceed
<1> QED
  BY <1>5, <1>6, <1>7

LEMMA MembersProvision ==
    ASSUME TypeInv, NEW c \in Names, Members(c), cloud' = cloud,
           NEW node, NEW version, Provision(c, node, version), UNCHANGED said,
           cli[c].op \in {"create", "scale"}, cli[c].at \in {"machine", "grow"}
    PROVE  Members(c)'
<1>1. TypeOK /\ cli[c] \in Command
  BY DEF TypeInv, TypeOK
<1>2. PICK k \in Copies :
         /\ Fresh(k, {m.copy : m \in {x \in vm[c] : x.node = node}})
         /\ vm' = [vm EXCEPT ![c] = @ \cup {Made(c, node, k, version)}]
         /\ cli' = [cli EXCEPT ![c].at = "await",
                              ![c].mine = @ \cup {[node |-> node, copy |-> k, addr |-> TRUE]}]
  BY DEF Provision
<1> DEFINE new == Made(c, node, k, version)
           ref == [node |-> node, copy |-> k, addr |-> TRUE]
<1>3. /\ new.node = node /\ new.copy = k /\ new.ca = Absent /\ (new.role => new.node = 0)
      /\ ref.node = node /\ ref.copy = k
  BY DEF Made
<1>4. \A m \in vm[c] : ~IsOf(m, ref)
  <2>1. \A m \in vm[c] : m.node = node => m.copy # k
    BY <1>2 DEF Fresh
  <2> QED
    BY <1>3, <2>1 DEF IsOf
<1>5. /\ vm'[c] = vm[c] \cup {new}
      /\ cli'[c].op = cli[c].op /\ cli'[c].at = "await" /\ cli'[c].token = cli[c].token
      /\ cli'[c].mine = cli[c].mine \cup {ref}
  BY <1>1, <1>2 DEF TypeOK, Command
<1> HIDE DEF new, ref
<1>6. Founded(c)'
  BY <1>3, <1>5 DEF Members, Founded, RoleZero, Rooted
<1>7. said'[c] # "running"
  BY DEF Members, Running
<1>8. NewOnes(c)'
  BY <1>3, <1>4, <1>5 DEF Members, NewOnes
<1>9. Joining(c)' /\ Running(c)'
  BY <1>5, <1>7 DEF Joining, Running
<1>10. Scaling(c)'
  <2> SUFFICES ASSUME cli[c].op = "scale" PROVE Rooting(c, cli[c].token)'
    BY <1>5 DEF Scaling
  <2>1. cli[c].at = "grow"
    BY OpAt
  <2>2. Rooting(c, cli[c].token)
    BY <2>1 DEF Members, Scaling
  <2> QED
    BY <1>5, <2>2 DEF Rooting
<1> QED
  BY <1>6, <1>8, <1>9, <1>10 DEF Members

LEMMA MembersCreateMachine ==
    ASSUME TypeInv, NEW c \in Names, Members(c), cloud' = cloud, CreateMachine(c)
    PROVE  Members(c)'
<1> DEFINE me == cli[c]
           n == me.next
           known == IF cloud = "digitalocean" THEN {r \in me.seen : r.node = n}
                    ELSE IF cloud = "azure" THEN {[RefTo(m) EXCEPT !.addr = TRUE] :
                                                    m \in {x \in vm[c] : x.node = n}}
                    ELSE {}
<1>1. /\ me \in Command /\ TypeOK /\ me.at = "machine" /\ me.op = "create"
      /\ me.at \in StepsOf(cloud, "create")
  BY OpAt DEF TypeInv, TypeOK, Placed, CreateMachine, At
<1>2. IF known # {}
      THEN /\ \E r \in known : Loop(c, [me EXCEPT !.mine = @ \cup {r}], Workers)
           /\ UNCHANGED vm
      ELSE IF Lost(c) \/ (cloud = "gcp" /\ \E m \in vm[c] : m.node = n)
      THEN End(c, "failed") /\ UNCHANGED vm
      ELSE Provision(c, n, Asked) /\ UNCHANGED said
  BY DEF CreateMachine
<1>3. known \subseteq Ref /\ (known # {} => cloud \in {"digitalocean", "azure"})
  <2>1. ASSUME NEW m \in vm[c] PROVE [RefTo(m) EXCEPT !.addr = TRUE] \in Ref
    <3>1. m \in Machine
      BY <1>1 DEF TypeOK
    <3> QED
      BY <3>1 DEF Machine, RefTo, Ref
  <2>2. me.seen \subseteq Ref
    BY <1>1 DEF Command
  <2> QED
    BY <2>1, <2>2
<1> HIDE DEF known
<1>4. CASE known # {}
  <2>1. PICK r \in known : Loop(c, [me EXCEPT !.mine = @ \cup {r}], Workers)
    BY <1>2, <1>4
  <2>2. PICK me2 \in Command : me2 = [me EXCEPT !.mine = @ \cup {r}]
    <3>1. [me EXCEPT !.mine = @ \cup {r}] \in Command
      BY <1>1, <1>3 DEF Command
    <3> QED
      BY <3>1
  <2>3. me2.op = "create" /\ me2.at = "machine" /\ Loop(c, me2, Workers)
    BY <1>1, <2>1, <2>2 DEF Command
  <2>4. Alike(c)
    BY <1>2, <1>4, SameAlike
  <2> QED
    BY <1>1, <1>3, <1>4, <2>3, <2>4, CreationLoop
<1>5. CASE known = {} /\ (Lost(c) \/ (cloud = "gcp" /\ \E m \in vm[c] : m.node = n))
  <2>1. End(c, "failed") /\ Founded(c)'
    BY <1>2, <1>5, SameAlike, AlikeKeeps DEF Members
  <2> QED
    BY <2>1, UnboundEnd
<1>6. CASE known = {} /\ ~(Lost(c) \/ (cloud = "gcp" /\ \E m \in vm[c] : m.node = n))
  BY <1>1, <1>2, <1>6, MembersProvision
<1> QED
  BY <1>4, <1>5, <1>6

LEMMA MembersAwait ==
    ASSUME TypeInv, NEW c \in Names, Members(c), cloud' = cloud, Await(c)
    PROVE  Members(c)'
<1> DEFINE me == cli[c]
<1>1. /\ me \in Command /\ TypeOK /\ me.at = "await" /\ me.op \in {"create", "scale"}
      /\ cloud \in SixClouds /\ me.at \in StepsOf(cloud, me.op)
      /\ vm' = vm
  BY CloudSix, OpAt DEF TypeInv, TypeOK, Placed, Await, At, account
<1>2. Alike(c) /\ Founded(c)'
  BY <1>1, SameAlike, AlikeKeeps DEF Members
<1>3. CASE me.op = "create"
  <2>1. PICK n \in Command : n = [me EXCEPT !.at = "machine"]
    <3>1. [me EXCEPT !.at = "machine"] \in Command
      BY <1>1 DEF Command, Steps
    <3> QED
      BY <3>1
  <2>2. /\ n.at = "machine" /\ n.op = "create" /\ n.mine = me.mine /\ Loop(c, n, Workers)
    BY <1>1, <1>3, <2>1 DEF Await, Command
  <2>3. n.at \in StepsOf(cloud, "create")
    BY <1>1, <1>3, <2>2 DEF StepsOf, CreateSteps, SixClouds
  <2> QED
    BY <1>1, <1>2, <1>3, <2>2, <2>3, CreationLoop
<1>4. CASE me.op = "scale"
  <2>1. cli' = [cli EXCEPT ![c].at = "joinNew"] /\ said' = said
    BY <1>4 DEF Await
  <2>2. cli'[c].op = "scale" /\ cli'[c].at = "joinNew" /\ cli'[c].token = me.token
    BY <1>1, <1>4, <2>1 DEF TypeOK, Command
  <2>3. Rooting(c, me.token)
    BY <1>1, <1>4 DEF Members, Scaling
  <2>4. said'[c] # "running"
    BY <1>4, <2>1 DEF Members, Running
  <2>5. Rooting(c, cli[c].token)'
    BY <1>1, <2>2, <2>3 DEF Rooting
  <2> QED
    BY <1>2, <2>2, <2>4, <2>5 DEF Members, NewOnes, Joining, Scaling, Running
<1> QED
  BY <1>1, <1>3, <1>4

LEMMA MembersPrepare ==
    ASSUME TypeInv, NEW c \in Names, Members(c), cloud' = cloud, PrepareHost(c)
    PROVE  Members(c)'
<1> DEFINE me == cli[c]
<1>1. /\ me \in Command /\ TypeOK /\ me.at = "prepare" /\ me.op = "create"
      /\ cloud \in SixClouds /\ me.at \in StepsOf(cloud, me.op)
  BY CloudSix, OpAt DEF TypeInv, TypeOK, Placed, PrepareHost, At
<1>2. cloud = "custom"
  BY <1>1 DEF StepsOf, CreateSteps, SixClouds
<1>3. PICK m \in vm[c] :
         /\ Change(c, m, IF m.version = Absent THEN [m EXCEPT !.version = Asked] ELSE m)
         /\ Loop(c, [me EXCEPT !.mine = @ \cup {RefTo(m)}], Workers)
  BY DEF PrepareHost
<1>4. m \in Machine
  BY <1>1 DEF TypeOK
<1>5. Alike(c)
  <2>1. Like(IF m.version = Absent THEN [m EXCEPT !.version = Asked] ELSE m, m)
    BY <1>4 DEF Like, Machine
  <2> QED
    BY <1>3, <2>1, ChangeAlike
<1>6. PICK n \in Command : n = [me EXCEPT !.mine = @ \cup {RefTo(m)}]
  <2>1. [me EXCEPT !.mine = @ \cup {RefTo(m)}] \in Command
    <3>1. RefTo(m) \in Ref
      BY <1>4 DEF RefTo, Ref, Machine
    <3> QED
      BY <1>1, <3>1 DEF Command
  <2> QED
    BY <2>1
<1>7. n.op = "create" /\ n.at = "prepare" /\ Loop(c, n, Workers)
  BY <1>1, <1>3, <1>6 DEF Command
<1> QED
  BY <1>1, <1>2, <1>5, <1>7, CreationLoop

\* On the hosts of the custom provider no more is known of a creation.
LEMMA CustomMembers ==
    ASSUME NEW c \in Names, cloud' = cloud, cloud = "custom", cli'[c].op \in {"create", "none"},
           said'[c] = "running" => cli'[c].op = "none", Founded(c)'
    PROVE  Members(c)'
  BY DEF Members, NewOnes, Joining, Scaling, Running

\* Two members of the machines a creation goes by, one of them its control plane,
\* are members of the same cluster.
LEMMA Agree ==
    ASSUME TypeInv, NEW c \in Names, Members(c), Consistent(c), cloud # "custom",
           cli[c].op = "create", cli[c].at = "init",
           NEW m \in vm[c], NEW w \in vm[c], m.node = 0, w.ca # Absent,
           \E r \in cli[c].mine : IsOf(w, r)
    PROVE  m.ca = w.ca
<1>1. CASE cloud \in {"digitalocean", "azure"}
  <2>1. PICK o \in vm[c] : o.node = 0 /\ o.ca = w.ca
    BY <1>1 DEF Members, Founded, Rooted
  <2>2. o = m
    BY <1>1, <2>1, WorkersAssumption DEF Consistent, Kept, Unique
  <2> QED
    BY <2>1, <2>2
<1>2. CASE cloud \notin {"digitalocean", "azure"}
  BY <1>2 DEF Members, NewOnes
<1> QED
  BY <1>1, <1>2

LEMMA MembersInit ==
    ASSUME TypeInv, NEW c \in Names, Members(c), Consistent(c), cloud' = cloud, InitMaster(c)
    PROVE  Members(c)'
<1> DEFINE me == cli[c]
<1>1. /\ me \in Command /\ TypeOK /\ me.at = "init" /\ me.op = "create"
      /\ cloud \in SixClouds /\ me.at \in StepsOf(cloud, me.op)
      /\ cli \in [Names -> Command] /\ vm \in [Names -> SUBSET Machine]
  BY CloudSix, OpAt DEF TypeInv, TypeOK, Placed, InitMaster, At
<1>2. PICK m \in Reached(c, me.mine) :
         /\ m.node = 0
         /\ IF m.ca # Absent THEN UNCHANGED vm /\ Proceed(c, [me EXCEPT !.token = m.ca])
            ELSE \E k \in Keys : /\ Fresh(k, UsedCAs(c) \cup {Absent})
                                 /\ Change(c, m, [m EXCEPT !.ca = k])
                                 /\ Proceed(c, [me EXCEPT !.token = k])
  BY DEF InitMaster
<1>3. m \in vm[c] /\ m \in Machine /\ \E r \in me.mine : IsOf(m, r)
  BY <1>1, <1>2 DEF Reached
<1>4. PICK k \in Keys, n \in Machine :
         /\ n.node = 0 /\ n.ca = k /\ n.copy = m.copy /\ n.role = m.role
         /\ Proceed(c, [me EXCEPT !.token = k])
         /\ \/ m.ca = k /\ n = m /\ vm' = vm
            \/ m.ca = Absent /\ vm'[c] = (vm[c] \ {m}) \cup {n}
  <2>1. CASE m.ca # Absent
    <3>1. m.ca \in Keys
      BY <1>3, <2>1 DEF Machine
    <3> QED
      BY <1>2, <1>3, <2>1, <3>1
  <2>2. CASE m.ca = Absent
    <3>1. PICK k \in Keys : /\ Change(c, m, [m EXCEPT !.ca = k])
                            /\ Proceed(c, [me EXCEPT !.token = k])
      BY <1>2, <2>2
    <3>2. PICK n \in Machine : n = [m EXCEPT !.ca = k]
      <4>1. [m EXCEPT !.ca = k] \in Machine
        BY <1>3 DEF Machine
      <4> QED
        BY <4>1
    <3>3. n.node = 0 /\ n.ca = k /\ n.copy = m.copy /\ n.role = m.role
      BY <1>2, <1>3, <3>2 DEF Machine
    <3>4. vm'[c] = (vm[c] \ {m}) \cup {n}
      BY <1>1, <3>1, <3>2 DEF Change
    <3> QED
      BY <2>2, <3>1, <3>3, <3>4
  <2> QED
    BY <2>1, <2>2
<1>5. k # Absent
  BY KeyNumbers
<1>6. Program("create")["init"] = "join"
  BY <1>1, AfterInit DEF StepsOf
<1>6a. PICK x \in Command : x = [me EXCEPT !.token = k]
  <2>1. [me EXCEPT !.token = k] \in Command
    BY <1>1 DEF Command
  <2> QED
    BY <2>1
<1>6b. /\ x.op = "create" /\ x.at = "init" /\ x.token = k /\ x.mine = me.mine
       /\ Proceed(c, x)
  BY <1>1, <1>4, <1>6a DEF Command
<1>7. cli'[c] = [x EXCEPT !.at = "join", !.next = 0] /\ said' = said
  BY <1>1, <1>6, <1>6b DEF Proceed, GoTo
<1>8. /\ cli'[c].op = "create" /\ cli'[c].at = "join" /\ cli'[c].next = 0
      /\ cli'[c].token = k /\ cli'[c].mine = me.mine
  BY <1>6b, <1>7 DEF Command
<1>9. said'[c] # "running"
  BY <1>1, <1>7 DEF Members, Running
<1>10. vm'[c] = (vm[c] \ {m}) \cup {n}
  BY <1>3, <1>4
<1>11. Founded(c)'
  BY <1>2, <1>3, <1>4, <1>5, <1>10 DEF Members, Founded, RoleZero, Rooted
<1>12. CASE cloud = "custom"
  BY <1>8, <1>9, <1>11, <1>12, CustomMembers
<1>13. CASE cloud # "custom"
  <2>1. ASSUME NEW w \in vm'[c], NEW r \in me.mine, IsOf(w, r) PROVE w.ca \in {Absent, k}
    <3>1. CASE w = n
      BY <1>4, <3>1
    <3>2. CASE w # n /\ w.ca # Absent
      <4>1. w \in vm[c]
        BY <1>10, <3>2
      <4>2. m.ca = w.ca
        BY <1>1, <1>2, <1>3, <1>13, <2>1, <3>2, <4>1, Agree
      <4> QED
        BY <1>4, <3>2, <4>2
    <3> QED
      BY <3>1, <3>2
  <2>2. Rooting(c, k)'
    BY <1>4, <1>5, <1>10 DEF Rooting
  <2>3. Rooting(c, cli[c].token)' /\ JoinedUpTo(c, cli[c].token, cli[c].next)'
    BY <1>8, <2>2 DEF Rooting, JoinedUpTo
  <2>4. Joining(c)'
    BY <1>8, <2>1, <2>3 DEF Joining
  <2> QED
    BY <1>8, <1>9, <1>11, <2>4 DEF Members, NewOnes, Scaling, Running
<1> QED
  BY <1>12, <1>13

LEMMA MembersJoin ==
    ASSUME TypeInv, NEW c \in Names, Members(c), cloud' = cloud, JoinWorker(c)
    PROVE  Members(c)'
<1> DEFINE me == cli[c]
<1>1. /\ me \in Command /\ TypeOK /\ me.at = "join" /\ me.op = "create" /\ me.next \in Nat
      /\ cloud \in SixClouds /\ me.at \in StepsOf(cloud, me.op) /\ me.op \in Ops
      /\ cli \in [Names -> Command] /\ said \in [Names -> Said]
      /\ vm \in [Names -> SUBSET Machine] /\ me.token \in Keys \cup {Absent}
  BY CloudSix, OpAt DEF TypeInv, TypeOK, Placed, JoinWorker, At, Command
<1>2. PICK m \in Reached(c, me.mine) :
         /\ m.node = me.next + 1
         /\ Change(c, m, IF m.ca # Absent THEN m ELSE [m EXCEPT !.ca = me.token])
         /\ Loop(c, me, Workers - 1)
  BY DEF JoinWorker
<1>3. m \in vm[c] /\ m \in Machine /\ \E r \in me.mine : IsOf(m, r)
  BY <1>1, <1>2 DEF Reached
<1>4. PICK n \in Machine : n = IF m.ca # Absent THEN m ELSE [m EXCEPT !.ca = me.token]
  <2>1. [m EXCEPT !.ca = me.token] \in Machine
    BY <1>1, <1>3 DEF Machine
  <2> QED
    BY <1>3, <2>1
<1>5. /\ n.node = m.node /\ n.copy = m.copy /\ n.role = m.role
      /\ n.ca = IF m.ca # Absent THEN m.ca ELSE me.token
  BY <1>3, <1>4 DEF Machine
<1>6. vm'[c] = (vm[c] \ {m}) \cup {n}
  BY <1>1, <1>2, <1>4 DEF Change
<1>7. cloud # "custom" =>
         /\ Rooting(c, me.token) /\ JoinedUpTo(c, me.token, me.next)
         /\ n.ca = me.token /\ (m.ca = Absent \/ m.ca = me.token)
         /\ \A w \in vm[c] : (\E r \in me.mine : IsOf(w, r)) => w.ca \in {Absent, me.token}
  BY <1>1, <1>3, <1>5 DEF Members, Joining, Razed
<1>8. RoleZero(c)'
  BY <1>3, <1>5, <1>6 DEF Members, Founded, RoleZero
<1>9. Rooted(c)'
  <2> SUFFICES ASSUME cloud \in {"digitalocean", "azure"}, NEW w \in vm'[c], w.ca # Absent
               PROVE  \E o \in vm'[c] : o.node = 0 /\ o.ca = w.ca
    BY DEF Rooted
  <2>1. PICK o \in vm[c] : o.node = 0 /\ o.ca = w.ca
    <3>1. CASE w = n
      BY <1>7, <3>1 DEF Rooting
    <3>2. CASE w # n
      BY <1>6, <3>2 DEF Members, Founded, Rooted
    <3> QED
      BY <3>1, <3>2
  <2>2. m.node # 0
    BY <1>1, <1>2
  <2> QED
    BY <1>6, <2>1, <2>2
<1>10. said[c] # "running"
  BY <1>1 DEF Members, Running
<1>11. \/ /\ me.next < Workers - 1 /\ said' = said
          /\ cli'[c].op = "create" /\ cli'[c].at = "join" /\ cli'[c].next = me.next + 1
          /\ cli'[c].token = me.token /\ cli'[c].mine = me.mine
       \/ /\ ~(me.next < Workers - 1) /\ cloud = "digitalocean" /\ said' = said
          /\ cli'[c].op = "create" /\ cli'[c].at = "integrate"
       \/ /\ ~(me.next < Workers - 1) /\ cloud # "digitalocean"
          /\ cli'[c].op = "none"
  <2>1. CASE me.next < Workers - 1
    <3>1. cli'[c] = [me EXCEPT !.next = @ + 1] /\ said' = said
      BY <1>1, <1>2, <2>1 DEF Loop
    <3> QED
      BY <1>1, <2>1, <3>1, Counted
  <2>2. CASE ~(me.next < Workers - 1)
    <3>1. Proceed(c, me)
      BY <1>2, <2>2 DEF Loop
    <3>2. After(me) = IF cloud = "digitalocean" THEN "integrate" ELSE "done"
      BY <1>1, AfterInit DEF StepsOf, After
    <3>3. CASE cloud = "digitalocean"
      <4>1. cli'[c] = [me EXCEPT !.at = "integrate", !.next = 0] /\ said' = said
        BY <1>1, <3>1, <3>2, <3>3 DEF Proceed, GoTo, After
      <4>2. cli'[c].op = "create" /\ cli'[c].at = "integrate"
        BY <1>1, <4>1 DEF Command
      <4> QED
        BY <2>2, <3>3, <4>1, <4>2
    <3>4. CASE cloud # "digitalocean"
      <4>1. Becomes(c, Advanced(me)) /\ Advanced(me) = NoCommand
        BY <1>1, <3>1, <3>2, <3>4, Proceeded DEF Advanced
      <4> QED
        BY <1>1, <2>2, <3>4, <4>1 DEF Becomes, NoCommand
    <3> QED
      BY <3>3, <3>4
  <2> QED
    BY <2>1, <2>2
<1>12. CASE cloud = "custom"
  BY <1>8, <1>9, <1>10, <1>11, <1>12, CustomMembers DEF Founded
<1>13. CASE cloud # "custom"
  <2>1. /\ me.token # Absent
        /\ \E o \in vm'[c] : o.node = 0 /\ o.ca = me.token
    BY <1>1, <1>2, <1>6, <1>7, <1>13 DEF Rooting
  <2>2. ASSUME NEW j \in 1..(me.next + 1) PROVE \E w \in vm'[c] : w.node = j /\ w.ca = me.token
    <3>1. CASE j = me.next + 1
      BY <1>2, <1>5, <1>6, <1>7, <1>13, <3>1
    <3>2. CASE j # me.next + 1
      <4>1. j \in 1..me.next
        BY <1>1, <3>2
      <4> QED
        BY <1>2, <1>6, <1>7, <1>13, <3>2, <4>1 DEF JoinedUpTo
    <3> QED
      BY <3>1, <3>2
  <2>3. CASE /\ me.next < Workers - 1 /\ said' = said
             /\ cli'[c].op = "create" /\ cli'[c].at = "join" /\ cli'[c].next = me.next + 1
             /\ cli'[c].token = me.token /\ cli'[c].mine = me.mine
    <3>1. Rooting(c, cli[c].token)' /\ JoinedUpTo(c, cli[c].token, cli[c].next)'
      BY <2>1, <2>2, <2>3 DEF Rooting, JoinedUpTo
    <3>2. \A w \in vm'[c] : (\E r \in me.mine : IsOf(w, r)) => w.ca \in {Absent, me.token}
      BY <1>6, <1>7, <1>13
    <3>3. Joining(c)'
      BY <2>3, <3>1, <3>2 DEF Joining
    <3> QED
      BY <1>8, <1>9, <1>10, <2>3, <3>3 DEF Members, Founded, NewOnes, Scaling, Running
  <2>4. ASSUME ~(me.next < Workers - 1) PROVE Whole(c)'
    <3>1. \A j \in 1..Workers : j \in 1..(me.next + 1)
      BY <1>1, <2>4, WorkersAssumption
    <3> QED
      BY <2>1, <2>2, <3>1 DEF Whole
  <2>5. CASE /\ ~(me.next < Workers - 1) /\ cloud = "digitalocean" /\ said' = said
             /\ cli'[c].op = "create" /\ cli'[c].at = "integrate"
    BY <1>8, <1>9, <1>10, <2>4, <2>5 DEF Members, Founded, NewOnes, Joining, Scaling, Running
  <2>6. CASE ~(me.next < Workers - 1) /\ cli'[c].op = "none"
    BY <1>8, <1>9, <2>4, <2>6 DEF Members, Founded, NewOnes, Joining, Scaling, Running
  <2> QED
    BY <1>11, <2>3, <2>5, <2>6
<1> QED
  BY <1>12, <1>13

LEMMA MembersIntegrate ==
    ASSUME TypeInv, NEW c \in Names, Members(c), cloud' = cloud, Integrate(c)
    PROVE  Members(c)'
<1> DEFINE me == cli[c]
<1>1. /\ me \in Command /\ TypeOK /\ me.at = "integrate" /\ me.op = "create"
      /\ cloud \in SixClouds /\ me.at \in StepsOf(cloud, me.op) /\ me.op \in Ops
      /\ vm' = vm
  BY CloudSix, OpAt DEF TypeInv, TypeOK, Placed, Integrate, At, account, Ops
<1>2. cloud = "digitalocean" /\ After(me) = "done"
  BY <1>1, AfterInit DEF StepsOf, CreateSteps, SixClouds, After
<1>3. Whole(c)
  BY <1>1, <1>2 DEF Members, Joining
<1>4. Founded(c)' /\ Whole(c)'
  BY <1>1, <1>3, SameAlike, AlikeKeeps DEF Members
<1>5. cli'[c] = NoCommand
  BY <1>1, <1>2 DEF Integrate, Proceed, GoTo, End, After, TypeOK
<1> QED
  BY <1>4, <1>5 DEF NoCommand, Members, NewOnes, Joining, Scaling, Running

-----------------------------------------------------------------------------
(* Everything else *)

LEMMA MembersControl ==
    ASSUME TypeInv, NEW c \in Names, Members(c), cloud' = cloud,
           Stops(c) \/ TimesOut(c) \/ Aborts(c)
    PROVE  Members(c)'
<1>1. vm' = vm
  BY DEF Stops, TimesOut, Aborts, account
<1>2. Founded(c)'
  BY <1>1, SameAlike, AlikeKeeps DEF Members
<1>3. CASE Stops(c) \/ TimesOut(c)
  BY <1>2, <1>3, UnboundEnd DEF Stops, TimesOut
<1>4. CASE Aborts(c)
  <2>1. cli'[c].op = "abort" /\ said' = said
    BY <1>4 DEF Aborts, NoCommand, TypeInv, TypeOK
  <2>2. said[c] # "running"
    BY <1>4 DEF Aborts, Members, Running
  <2> QED
    BY <1>2, <2>1, <2>2, Unbound
<1> QED
  BY <1>3, <1>4

LEMMA MembersStart ==
    ASSUME TypeInv, NEW c \in Names, Members(c), cloud' = cloud,
           NEW op \in {"create", "delete", "scale", "upgrade"}, NEW want, Start(c, op, want),
           op = "scale" => cloud = "digitalocean", op = "upgrade" => cloud # "gcp"
    PROVE  Members(c)'
<1>1. cloud \in SixClouds /\ vm' = vm /\ cli \in [Names -> Command] /\ said \in [Names -> Said]
  BY CloudSix DEF TypeInv, TypeOK, Start, account
<1>2. /\ cli'[c].op = op /\ cli'[c].at = Program(op).start /\ cli'[c].mine = {}
      /\ said'[c] = "nothing"
  BY <1>1 DEF Start, NoCommand
<1>3. Founded(c)'
  BY <1>1, SameAlike, AlikeKeeps DEF Members
<1>4. Program("scale").start = "survey"
  BY DEF Program
<1>5. op = "create" => cli'[c].at \notin {"join", "integrate"}
  BY <1>1, <1>2 DEF SixClouds, Program, DigitalOceanCreate, CivoCreate, GcpCreate, AzureCreate,
                    AwsCreate, CustomCreate
<1> QED
  BY <1>2, <1>3, <1>4, <1>5 DEF Members, NewOnes, Joining, Scaling, Running

LEMMA MembersBoots ==
    ASSUME TypeInv, NEW c \in Names, Members(c), cloud' = cloud, Boots(c)
    PROVE  Members(c)'
<1>1. PICK m \in vm[c] : Change(c, m, [m EXCEPT !.up = TRUE])
  BY DEF Boots
<1>2. m \in Machine /\ UNCHANGED <<cli, said>>
  BY <1>1 DEF Boots, TypeInv, TypeOK
<1>3. Like([m EXCEPT !.up = TRUE], m)
  BY <1>2 DEF Machine, Like
<1>4. Alike(c)
  BY <1>1, <1>3, ChangeAlike
<1> QED
  BY <1>2, <1>4, AlikeMembers

LEMMA MembersUpgrade ==
    ASSUME TypeInv, NEW c \in Names, Members(c), cloud' = cloud,
           UpgradeMaster(c) \/ UpgradePassesOver(c) \/ UpgradeWorker(c)
    PROVE  Members(c)'
<1> DEFINE me == cli[c]
<1>1. /\ me \in Command /\ TypeOK /\ me.op = "upgrade" /\ cli \in [Names -> Command]
      /\ vm \in [Names -> SUBSET Machine]
  BY OpAt DEF TypeInv, TypeOK, UpgradeMaster, UpgradePassesOver, UpgradeWorker, At
<1>2. UNCHANGED vm \/ \E m \in vm[c] : Change(c, m, [m EXCEPT !.version = Target])
  BY DEF UpgradeMaster, UpgradePassesOver, UpgradeWith, UpgradeWorker, ControlPlanes, Masters
<1>3. Alike(c)
  <2>1. CASE UNCHANGED vm
    BY <2>1, SameAlike
  <2>2. CASE \E m \in vm[c] : Change(c, m, [m EXCEPT !.version = Target])
    <3>1. PICK m \in vm[c] : Change(c, m, [m EXCEPT !.version = Target])
      BY <2>2
    <3>2. Like([m EXCEPT !.version = Target], m)
      BY <1>1 DEF Machine, Like
    <3> QED
      BY <3>1, <3>2, ChangeAlike
  <2> QED
    BY <1>2, <2>1, <2>2
<1>4. Founded(c)'
  BY <1>3, AlikeKeeps DEF Members
<1>5. \/ \E answer \in Said \ {"running"} : End(c, answer)
      \/ cli'[c].op = me.op /\ said' = said
  <2>1. CASE UpgradeMaster(c) \/ UpgradePassesOver(c)
    <3>1. \/ End(c, "failed")
          \/ \E refs, lost : GoTo(c, [me EXCEPT !.seen = refs, !.missed = lost], "upgradeWorkers")
      BY <2>1 DEF UpgradeMaster, UpgradePassesOver, UpgradeWith
    <3>2. CASE \E refs, lost :
                 GoTo(c, [me EXCEPT !.seen = refs, !.missed = lost], "upgradeWorkers")
      <4>1. PICK refs, lost : GoTo(c, [me EXCEPT !.seen = refs, !.missed = lost], "upgradeWorkers")
        BY <3>2
      <4> QED
        BY <1>1, <4>1 DEF GoTo, Command
    <3> QED
      BY <3>1, <3>2 DEF Said
  <2>2. CASE UpgradeWorker(c)
    <3>1. CASE GoTo(c, me, "done")
      BY <1>1, <3>1 DEF GoTo, Answer, Said
    <3> QED
      BY <1>1, <2>2, <3>1 DEF UpgradeWorker, Command, Said
  <2> QED
    BY <2>1, <2>2
<1>6. CASE \E answer \in Said \ {"running"} : End(c, answer)
  BY <1>4, <1>6, UnboundEnd
<1>7. CASE cli'[c].op = me.op /\ said' = said
  BY <1>1, <1>4, <1>7, Unbound DEF Members, Running
<1> QED
  BY <1>5, <1>6, <1>7

LEMMA MembersScale ==
    ASSUME TypeInv, NEW c \in Names, Members(c), Consistent(c), cloud' = cloud,
           Survey(c) \/ Grow(c) \/ JoinNew(c) \/ Shrink(c)
    PROVE  Members(c)'
<1> DEFINE me == cli[c]
<1>1. /\ me \in Command /\ TypeOK /\ me.op = "scale" /\ cloud = "digitalocean"
      /\ cli \in [Names -> Command] /\ vm \in [Names -> SUBSET Machine]
      /\ said \in [Names -> Said]
      /\ me.at \in {"survey", "grow", "joinNew", "shrink"}
  <2>1. me.at \in {"survey", "grow", "joinNew", "shrink"}
    BY DEF Survey, Grow, JoinNew, Shrink, At
  <2> QED
    BY <2>1, OpAt DEF TypeInv, TypeOK
<1>2. said[c] # "running"
  BY <1>1 DEF Members, Running
<1>3. ASSUME UNCHANGED vm PROVE Founded(c)'
  BY <1>3, SameAlike, AlikeKeeps DEF Members
<1>m. \A m \in Masters(c) : m \in vm[c] /\ m.node = 0
  BY DEF Members, Founded, RoleZero, Masters
<1>4. CASE Survey(c)
  <2>0. UNCHANGED vm /\ Founded(c)'
    BY <1>3, <1>4 DEF Survey
  <2>1. \/ \E answer \in {"failed", "scaled"} : End(c, answer)
        \/ /\ Masters(c) # {}
           /\ GoTo(c, [me EXCEPT !.seen = {RefTo(m) : m \in Others(c)}], "shrink")
        \/ \E m \in Masters(c) :
             /\ Serves(c, m)
             /\ cli' = [cli EXCEPT ![c] = [me EXCEPT
                          !.at = "grow", !.next = Cardinality(Others(c)) + 1, !.token = m.ca]]
             /\ UNCHANGED said
    BY <1>4 DEF Survey
  <2>2. CASE \E answer \in {"failed", "scaled"} : End(c, answer)
    BY <2>0, <2>2, UnboundEnd
  <2>3. CASE /\ Masters(c) # {}
             /\ GoTo(c, [me EXCEPT !.seen = {RefTo(m) : m \in Others(c)}], "shrink")
    <3>1. said' = said /\ cli'[c].op = "scale" /\ cli'[c].at = "shrink"
          /\ cli'[c].seen = {RefTo(m) : m \in Others(c)}
      <4> DEFINE refs == {RefTo(m) : m \in Others(c)}
      <4>1. cli' = [cli EXCEPT ![c] = [[me EXCEPT !.seen = refs] EXCEPT !.at = "shrink", !.next = 0]]
            /\ said' = said
        BY <2>3 DEF GoTo
      <4> HIDE DEF refs
      <4>2. cli'[c].op = "scale" /\ cli'[c].at = "shrink" /\ cli'[c].seen = refs
        BY <1>1, <4>1 DEF Command
      <4> QED
        BY <4>1, <4>2 DEF refs
    <3>2. \A m \in Others(c) : m.node # 0
      <4>1. PICK o \in Masters(c) : TRUE
        BY <2>3
      <4>2. \A m \in vm[c] : m.node = 0 => m = o
        BY <1>1, <1>m, WorkersAssumption DEF Consistent, Kept, Unique
      <4> QED
        BY <4>1, <4>2 DEF Others
    <3>3. \A m : RefTo(m).node = m.node
      BY DEF RefTo
    <3>4. \A r \in cli'[c].seen : r.node # 0
      BY <3>1, <3>2, <3>3
    <3> QED
      BY <1>2, <2>0, <3>1, <3>4 DEF Members, NewOnes, Joining, Scaling, Running
  <2>4. CASE \E m \in Masters(c) :
               /\ Serves(c, m)
               /\ cli' = [cli EXCEPT ![c] = [me EXCEPT
                            !.at = "grow", !.next = Cardinality(Others(c)) + 1, !.token = m.ca]]
               /\ UNCHANGED said
    <3>1. PICK m \in Masters(c) :
               /\ Serves(c, m)
               /\ cli' = [cli EXCEPT ![c] = [me EXCEPT
                            !.at = "grow", !.next = Cardinality(Others(c)) + 1, !.token = m.ca]]
               /\ UNCHANGED said
      BY <2>4
    <3>2. cli'[c].op = "scale" /\ cli'[c].at = "grow" /\ cli'[c].token = m.ca
      BY <1>1, <3>1 DEF Command
    <3>3. Rooting(c, cli[c].token)'
      BY <1>m, <2>0, <3>1, <3>2 DEF Rooting, Serves
    <3> QED
      BY <1>2, <2>0, <3>1, <3>2, <3>3 DEF Members, NewOnes, Joining, Scaling, Running
  <2> QED
    BY <2>1, <2>2, <2>3, <2>4
<1>5. CASE Grow(c)
  <2>1. CASE End(c, "scaled") /\ UNCHANGED vm
    BY <1>3, <2>1, UnboundEnd
  <2>2. CASE Provision(c, Workers + me.next, Default) /\ UNCHANGED said
    BY <1>1, <1>5, <2>2, MembersProvision DEF Grow, At
  <2> QED
    BY <1>5, <2>1, <2>2 DEF Grow
<1>6. CASE JoinNew(c)
  <2>1. PICK m \in Reached(c, me.mine) :
           \/ End(c, "failed") /\ UNCHANGED vm
           \/ /\ Change(c, m, [m EXCEPT !.ca = me.token])
              /\ cli' = [cli EXCEPT ![c].at = "grow", ![c].next = @ + 1, ![c].mine = {}]
              /\ UNCHANGED said
    BY <1>6 DEF JoinNew
  <2>2. m \in vm[c] /\ m \in Machine
    BY <1>1 DEF Reached
  <2>3. CASE End(c, "failed") /\ UNCHANGED vm
    BY <1>3, <2>3, UnboundEnd
  <2>4. CASE /\ Change(c, m, [m EXCEPT !.ca = me.token])
             /\ cli' = [cli EXCEPT ![c].at = "grow", ![c].next = @ + 1, ![c].mine = {}]
             /\ UNCHANGED said
    <3>1. PICK n : n = [m EXCEPT !.ca = me.token]
      OBVIOUS
    <3>2. n.node = m.node /\ n.ca = me.token /\ n.role = m.role
      BY <2>2, <3>1 DEF Machine
    <3>3. vm'[c] = (vm[c] \ {m}) \cup {n}
      BY <1>1, <2>4, <3>1 DEF Change
    <3>4. Rooting(c, me.token)
      BY <1>1, <1>6 DEF JoinNew, At, Members, Scaling
    <3>5. PICK o \in vm'[c] : o.node = 0 /\ o.ca = me.token
      BY <3>2, <3>3, <3>4 DEF Rooting
    <3>6. RoleZero(c)'
      BY <2>2, <3>2, <3>3 DEF Members, Founded, RoleZero
    <3>7. Rooted(c)'
      <4> SUFFICES ASSUME NEW w \in vm'[c], w.ca # Absent, w.ca # me.token
                   PROVE  \E p \in vm'[c] : p.node = 0 /\ p.ca = w.ca
        BY <3>5 DEF Rooted
      <4>1. w \in vm[c]
        BY <3>2, <3>3
      <4>2. PICK p \in vm[c] : p.node = 0 /\ p.ca = w.ca
        BY <1>1, <4>1 DEF Members, Founded, Rooted
      <4>3. PICK q \in vm[c] : q.node = 0 /\ q.ca = me.token
        BY <3>4 DEF Rooting
      <4>4. p = q
        BY <1>1, <4>2, <4>3, WorkersAssumption DEF Consistent, Kept, Unique
      <4> QED
        BY <4>2, <4>3, <4>4
    <3>8. cli'[c].op = "scale" /\ cli'[c].at = "grow" /\ cli'[c].token = me.token
      BY <1>1, <2>4 DEF Command
    <3>9. Rooting(c, cli[c].token)'
      BY <3>4, <3>5, <3>8 DEF Rooting
    <3> QED
      BY <1>2, <2>4, <3>6, <3>7, <3>8, <3>9
         DEF Members, Founded, NewOnes, Joining, Scaling, Running
  <2> QED
    BY <2>1, <2>3, <2>4
<1>7. CASE Shrink(c)
  <2>1. PICK r \in me.seen :
           /\ vm' = [vm EXCEPT ![c] = {m \in @ : ~IsOf(m, r)}]
           /\ IF Cardinality(me.seen) = me.want + 1 THEN End(c, "scaled")
              ELSE cli' = [cli EXCEPT ![c].seen = @ \ {r}] /\ UNCHANGED said
    BY <1>7 DEF Shrink
  <2>2. me.at = "shrink" /\ \A q \in me.seen : q.node # 0
    BY <1>1, <1>7 DEF Shrink, At, Members, Scaling
  <2>3. vm'[c] = {m \in vm[c] : ~IsOf(m, r)}
    BY <1>1, <2>1
  <2>4. Founded(c)'
    BY <2>2, <2>3 DEF Members, Founded, RoleZero, Rooted, IsOf
  <2>5. CASE End(c, "scaled")
    BY <2>4, <2>5, UnboundEnd
  <2>6. CASE cli' = [cli EXCEPT ![c].seen = @ \ {r}] /\ UNCHANGED said
    <3>1. cli'[c].op = "scale" /\ cli'[c].at = "shrink" /\ cli'[c].seen = me.seen \ {r}
      BY <1>1, <2>2, <2>6 DEF Command
    <3> QED
      BY <1>2, <2>2, <2>4, <2>6, <3>1 DEF Members, NewOnes, Joining, Scaling, Running
  <2> QED
    BY <2>1, <2>5, <2>6
<1> QED
  BY <1>4, <1>5, <1>6, <1>7

LEMMA MembersPartsDrop ==
    ASSUME TypeInv, NEW c \in Names, Members(c), cloud' = cloud,
           \/ DropFirewall(c) \/ DropNetwork(c) \/ DropSubnets(c) \/ Sweep(c) \/ SweepEmpty(c)
           \/ DropKey(c) \/ Untrack(c) \/ Forget(c) \/ DropTags(c)
    PROVE  Members(c)'
<1> DEFINE me == cli[c]
<1>1. me \in Command /\ me.missed \in BOOLEAN /\ vm \in [Names -> SUBSET Machine]
  BY DEF TypeInv, TypeOK, Command
<1>2. me.op \in {"delete", "abort"}
  <2>1. me.at \in {"dropFirewall", "dropNetwork", "dropSubnets", "sweep", "sweepEmpty",
                   "dropKey", "untrack", "forget", "dropTags"}
    BY DEF DropFirewall, DropNetwork, DropSubnets, Sweep, SweepEmpty, DropKey, Untrack, Forget,
           DropTags, At
  <2> QED
    BY <2>1, OpAt
<1>3. Founded(c)'
  <2>1. vm'[c] = vm[c] \/ vm'[c] = Untagged(vm[c])
    BY <1>1 DEF DropFirewall, DropNetwork, DropSubnets, Sweep, SweepEmpty, DropKey, Untrack, Forget,
           DropTags, account, Untagged
  <2> QED
    BY <2>1, SameAlike, UntaggedAlike, AlikeKeeps DEF Members
<1>4. \E n \in Command : n.op = me.op /\ Proceed(c, n)
  <2>1. CASE DropFirewall(c)
    BY <1>1, <2>1 DEF DropFirewall, Command
  <2>2. CASE DropNetwork(c)
    <3>1. [me EXCEPT !.missed = me.missed] = me
      BY <1>1 DEF Command
    <3>2. PICK lost \in BOOLEAN : Proceed(c, [me EXCEPT !.missed = lost])
      BY <1>1, <2>2, <3>1 DEF DropNetwork
    <3> QED
      BY <1>1, <3>2 DEF Command
  <2>3. CASE ~DropFirewall(c) /\ ~DropNetwork(c)
    BY <1>1, <2>3 DEF DropSubnets, Sweep, SweepEmpty, DropKey, Untrack, Forget, DropTags
  <2> QED
    BY <2>1, <2>2, <2>3
<1> QED
  BY <1>2, <1>3, <1>4, UnboundProceed

LEMMA MembersMachinesDrop ==
    ASSUME TypeInv, NEW c \in Names, Members(c), cloud' = cloud,
           \/ DropDroplets(c) \/ DropInstances(c) \/ DropTracked(c) \/ DropGroup(c)
           \/ DropGroupFails(c) \/ Reset(c) \/ PassOver(c)
    PROVE  Members(c)'
<1> DEFINE me == cli[c]
<1>1. /\ me \in Command /\ me.missed \in BOOLEAN /\ vm \in [Names -> SUBSET Machine]
      /\ cloud \in SixClouds /\ me.at \in StepsOf(cloud, me.op) /\ cli \in [Names -> Command]
      /\ said \in [Names -> Said]
  BY CloudSix DEF TypeInv, TypeOK, Command, Placed
<1>2. /\ me.op \in {"delete", "abort"}
      /\ DropInstances(c) \/ DropTracked(c) => cloud \notin {"digitalocean", "azure"}
      /\ Reset(c) => cloud = "custom"
  <2>1. /\ me.at \in {"dropDroplets", "dropInstances", "dropTracked", "dropGroup", "reset",
                      "dropFirewall", "dropNetwork", "dropTags", "dropKey", "dropSubnets",
                      "sweep", "sweepEmpty", "untrack"}
        /\ DropInstances(c) \/ DropTracked(c) => me.at \in {"dropInstances", "dropTracked"}
        /\ Reset(c) => me.at = "reset"
    BY DEF DropDroplets, DropInstances, DropTracked, DropGroup, DropGroupFails, Reset, PassOver,
           At
  <2>2. me.op \in {"delete", "abort"}
    BY <2>1, OpAt
  <2> QED
    BY <1>1, <2>1, <2>2 DEF StepsOf, DeleteSteps, SixClouds
<1>3. Founded(c)'
  <2> USE <1>1 DEF Members, Founded, RoleZero, Rooted
  <2>1. CASE DropDroplets(c)
    BY <2>1 DEF DropDroplets
  <2>2. CASE DropInstances(c)
    BY <1>2, <2>2 DEF DropInstances
  <2>3. CASE DropTracked(c)
    BY <1>2, <2>3 DEF DropTracked
  <2>4. CASE DropGroup(c) \/ DropGroupFails(c)
    <3>1. vm'[c] = {} \/ vm' = vm
      BY <2>4 DEF DropGroup, DropGroupFails, DeleteGroup, Mates
    <3> QED
      BY <3>1
  <2>6. CASE Reset(c)
    <3>1. PICK m \in vm[c] : Change(c, m, [m EXCEPT !.ca = Absent])
      BY <2>6 DEF Reset
    <3>2. PICK n : n = [m EXCEPT !.ca = Absent]
      OBVIOUS
    <3>3. n.node = m.node /\ n.role = m.role
      BY <3>1, <3>2 DEF Machine
    <3>4. vm'[c] = (vm[c] \ {m}) \cup {n}
      BY <3>1, <3>2 DEF Change
    <3> QED
      BY <1>2, <2>6, <3>1, <3>3, <3>4
  <2>7. CASE PassOver(c)
    BY <2>7 DEF PassOver, account
  <2> QED
    BY <2>1, <2>2, <2>3, <2>4, <2>6, <2>7
<1>4. \/ End(c, "failed")
      \/ UNCHANGED <<cli, said>>
      \/ \E n \in Command : n.op = me.op /\ (Proceed(c, n) \/ Loop(c, n, Workers))
  <2>m. ASSUME NEW missed \in BOOLEAN
        PROVE  [me EXCEPT !.missed = missed] \in Command /\ [me EXCEPT !.missed = missed].op = me.op
    BY <1>1 DEF Command
  <2>1. CASE DropDroplets(c) \/ DropInstances(c) \/ DropGroupFails(c) \/ Reset(c)
    BY <1>1, <2>1 DEF DropDroplets, DropInstances, DropGroupFails, Reset
  <2>2. CASE DropTracked(c)
    <3> DEFINE found == {m \in vm[c] : m.node = me.next}
    <3>1. PICK missed \in BOOLEAN : missed = (me.missed \/ found = {})
      OBVIOUS
    <3>2. Loop(c, [me EXCEPT !.missed = @ \/ found = {}], Workers)
      BY <2>2 DEF DropTracked
    <3>3. [me EXCEPT !.missed = @ \/ found = {}] = [me EXCEPT !.missed = missed]
      BY <3>1
    <3> HIDE DEF found
    <3> QED
      BY <2>m, <3>2, <3>3
  <2>3. CASE DropGroup(c)
    <3>1. PICK lost \in BOOLEAN : lost = (me.missed \/ ~Foreign(c))
      OBVIOUS
    <3>2. Proceed(c, me) \/ Proceed(c, [me EXCEPT !.missed = lost])
      BY <2>3, <3>1 DEF DropGroup
    <3> QED
      BY <1>1, <2>m, <3>2
  <2>4. CASE PassOver(c)
    BY <2>m, <2>4 DEF PassOver
  <2> QED
    BY <2>1, <2>2, <2>3, <2>4
<1>5. CASE End(c, "failed")
  BY <1>3, <1>5, UnboundEnd
<1>6. CASE UNCHANGED <<cli, said>>
  BY <1>2, <1>3, <1>6, Unbound DEF Members, Running
<1>7. CASE \E n \in Command : n.op = me.op /\ (Proceed(c, n) \/ Loop(c, n, Workers))
  BY <1>2, <1>3, <1>7, UnboundProceed, UnboundLoop
<1> QED
  BY <1>4, <1>5, <1>6, <1>7

-----------------------------------------------------------------------------
(* The theorem *)

LEMMA InitMembers == Init => MemberInv
<1> SUFFICES ASSUME Init PROVE MemberInv
  OBVIOUS
<1>1. SafeInv
  BY InitSafe
<1>2. ASSUME NEW c \in Names PROVE Members(c)
  <2>1. cli[c] = NoCommand /\ said[c] = "nothing"
    BY DEF Init
  <2>2. Founded(c)
    <3>1. CASE cloud # "custom"
      BY <3>1 DEF Init, Founded, RoleZero, Rooted
    <3>2. CASE cloud = "custom"
      <4>1. vm[c] = {[node |-> n, copy |-> 1, key |-> 1, up |-> TRUE, role |-> n = 0,
                      ca |-> Absent, version |-> Absent] : n \in 0..Workers}
        BY <3>2 DEF Init
      <4> DEFINE Host(n) == [node |-> n, copy |-> 1, key |-> 1, up |-> TRUE, role |-> n = 0,
                             ca |-> Absent, version |-> Absent]
      <4>2. \A n \in 0..Workers : Host(n).role => Host(n).node = 0
        OBVIOUS
      <4>3. \A m \in vm[c] : \E n \in 0..Workers : m = Host(n)
        BY <4>1
      <4> HIDE DEF Host
      <4> QED
        BY <3>2, <4>2, <4>3 DEF Founded, RoleZero, Rooted
    <3> QED
      BY <3>1, <3>2
  <2> QED
    BY <2>1, <2>2 DEF NoCommand, Members, NewOnes, Joining, Scaling, Running
<1> QED
  BY <1>1, <1>2 DEF MemberInv

LEMMA NextMembers ==
    ASSUME MemberInv, NEW c \in Names, cloud' = cloud, Acts(c)
    PROVE  Members(c)'
<1>1. TypeInv /\ Members(c) /\ Consistent(c)
  BY DEF MemberInv, SafeInv
<1>2. CASE CreateStep(c)
  <2>1. CASE \/ EnsureKey(c) \/ EnsureNetwork(c) \/ CreateSubnets(c) \/ EnsureFirewall(c)
             \/ Look(c) \/ Save(c)
    BY <1>1, <2>1, MembersCreation
  <2>2. CASE CreateMachine(c)
    BY <1>1, <2>2, MembersCreateMachine
  <2>3. CASE Await(c)
    BY <1>1, <2>3, MembersAwait
  <2>4. CASE PrepareHost(c)
    BY <1>1, <2>4, MembersPrepare
  <2>5. CASE InitMaster(c)
    BY <1>1, <2>5, MembersInit
  <2>6. CASE JoinWorker(c)
    BY <1>1, <2>6, MembersJoin
  <2>7. CASE Integrate(c)
    BY <1>1, <2>7, MembersIntegrate
  <2>8. CASE TimesOut(c)
    BY <1>1, <2>8, MembersControl
  <2> QED
    BY <1>2, <2>1, <2>2, <2>3, <2>4, <2>5, <2>6, <2>7, <2>8 DEF CreateStep
<1>3. CASE DeleteStep(c)
  <2>1. CASE \/ DropFirewall(c) \/ DropNetwork(c) \/ DropSubnets(c) \/ Sweep(c)
             \/ SweepEmpty(c) \/ DropKey(c) \/ Untrack(c) \/ Forget(c) \/ DropTags(c)
    BY <1>1, <2>1, MembersPartsDrop
  <2>2. CASE DropDroplets(c) \/ DropInstances(c) \/ DropTracked(c) \/ DropGroup(c) \/ Reset(c)
    BY <1>1, <2>2, MembersMachinesDrop
  <2> QED
    BY <1>3, <2>1, <2>2 DEF DeleteStep
<1>4. CASE OtherStep(c)
  <2>1. CASE Survey(c) \/ Grow(c) \/ JoinNew(c) \/ Shrink(c)
    BY <1>1, <2>1, MembersScale
  <2>2. CASE UpgradeMaster(c) \/ UpgradeWorker(c)
    BY <1>1, <2>2, MembersUpgrade
  <2> QED
    BY <1>4, <2>1, <2>2 DEF OtherStep
<1>5. CASE StartCreate(c) \/ StartDelete(c) \/ StartUpgrade(c)
           \/ \E want \in 0..MostWorkers : StartScale(c, want)
  <2>1. \E op \in {"create", "delete", "scale", "upgrade"}, want \in 0..MostWorkers \cup {0} :
          /\ Start(c, op, want)
          /\ op = "scale" => cloud = "digitalocean"
          /\ op = "upgrade" => cloud # "gcp"
    <3>1. CASE StartCreate(c)
      BY <3>1 DEF StartCreate
    <3>2. CASE StartDelete(c)
      BY <3>2 DEF StartDelete
    <3>3. CASE StartUpgrade(c)
      BY <3>3 DEF StartUpgrade
    <3>4. CASE \E want \in 0..MostWorkers : StartScale(c, want)
      BY <3>4 DEF StartScale
    <3> QED
      BY <1>5, <3>1, <3>2, <3>3, <3>4
  <2> QED
    BY <1>1, <2>1, MembersStart
<1>6. CASE Boots(c)
  BY <1>1, <1>6, MembersBoots
<1>7. CASE Stops(c) \/ Aborts(c)
  BY <1>1, <1>7, MembersControl
<1>8. CASE PassOver(c) \/ DropGroupFails(c)
  BY <1>1, <1>8, MembersMachinesDrop
<1>9. CASE SaveFails(c)
  BY <1>1, <1>9, MembersCreation
<1>10. CASE UpgradePassesOver(c)
  BY <1>1, <1>10, MembersUpgrade
<1> QED
  BY <1>2, <1>3, <1>4, <1>5, <1>6, <1>7, <1>8, <1>9, <1>10 DEF Acts, Step

\* Every reachable state satisfies the invariant: which machines belong to the
\* cluster of which control plane, at every step of the commands.
THEOREM Membership == Spec => []MemberInv
<1>1. ASSUME MemberInv, [Next]_vars PROVE MemberInv'
  <2>1. CASE Next
    <3>1. PICK c \in Names : Acts(c)
      BY <2>1, NextActs
    <3>2. SafeInv' /\ Stepped(c) /\ Apart(c)
      BY <1>1, <3>1, ActsSafe, NextGood DEF MemberInv, Good
    <3>3. Members(c)'
      BY <1>1, <3>1, <3>2, NextMembers DEF Stepped
    <3>4. ASSUME NEW d \in Names, d # c PROVE Members(d)'
      BY <1>1, <3>2, <3>4, OthersMembers
    <3> QED
      BY <3>2, <3>3, <3>4 DEF MemberInv
  <2>2. CASE UNCHANGED vars
    <3>1. SafeInv'
      BY <1>1, <2>2, NextSafe DEF MemberInv
    <3>2. ASSUME NEW d \in Names PROVE Members(d)'
      BY <1>1, <2>2, SameAlike, AlikeMembers DEF MemberInv, vars, account
    <3> QED
      BY <3>1, <3>2 DEF MemberInv
  <2> QED
    BY <1>1, <2>1, <2>2
<1> QED
  BY <1>1, InitMembers, PTL DEF Spec

\* RunningIsWhole: what CreateCluster answers Running for has its control plane
\* and all its workers, in one cluster, whatever earlier creations left behind.  Left
\* out are the hosts of the custom provider and, since deleting one of its clusters
\* takes all of them, a resource group of Azure that clusters share.
THEOREM RunningClusterIsWhole == Spec => []RunningIsWhole
<1>1. MemberInv => RunningIsWhole
  BY DEF MemberInv, Members, Running, RunningIsWhole, Exposed
<1> QED
  BY <1>1, Membership, PTL

-----------------------------------------------------------------------------
(* One cluster in the account: its control plane can be found *)

\* On DigitalOcean a control plane has its tag, and a deletion that has come to
\* the tags has left no droplet they could be taken off.
Tagged(c) == cloud = "digitalocean" => \A m \in vm[c] : m.node = 0 => m.role
Emptied(c) == cloud = "digitalocean" /\ cli[c].op = "delete" /\ cli[c].at # "dropDroplets" =>
                vm[c] = {}
LabelInv == \A c \in Names : Tagged(c) /\ Emptied(c)

\* What a step makes of the machines of its cluster, the removal of tags aside:
\* only creations and scalings add one, a control plane with its tag.
Descends(n, m) == n.node = m.node /\ n.role = m.role
Derives(c) == \A n \in vm'[c] : \/ cli[c].op \in {"create", "scale"} /\ (n.node = 0 => n.role)
                                \/ \E m \in vm[c] : Descends(n, m)

LEMMA SameDerives == ASSUME NEW c, UNCHANGED vm PROVE Derives(c)
  BY DEF Derives, Descends

LEMMA ChangeDerives ==
    ASSUME TypeInv, NEW c \in Names, NEW m \in vm[c], NEW n, Descends(n, m), Change(c, m, n)
    PROVE  Derives(c)
<1>1. vm'[c] = (vm[c] \ {m}) \cup {n}
  BY DEF Change, TypeInv, TypeOK
<1>2. \A o : Descends(o, o)
  BY DEF Descends
<1> HIDE DEF Descends
<1> QED
  BY <1>1, <1>2 DEF Derives

LEMMA ProvisionDerives ==
    ASSUME TypeInv, NEW c \in Names, NEW node, NEW version, Provision(c, node, version),
           cli[c].op \in {"create", "scale"}
    PROVE  Derives(c)
<1>1. PICK k \in Copies : vm' = [vm EXCEPT ![c] = @ \cup {Made(c, node, k, version)}]
  BY DEF Provision
<1> DEFINE new == Made(c, node, k, version)
<1>2. new.node = 0 => new.role
  BY DEF Made
<1>3. vm'[c] = vm[c] \cup {new}
  BY <1>1 DEF TypeInv, TypeOK
<1>4. \A o : Descends(o, o)
  BY DEF Descends
<1> HIDE DEF new, Descends
<1> QED
  BY <1>2, <1>3, <1>4 DEF Derives

LEMMA MachineDerives ==
    ASSUME TypeInv, NEW c \in Names,
           \/ PrepareHost(c) \/ InitMaster(c) \/ JoinWorker(c) \/ JoinNew(c) \/ Boots(c)
           \/ UpgradeMaster(c) \/ UpgradePassesOver(c) \/ UpgradeWorker(c) \/ Reset(c)
    PROVE  Derives(c)
<1>1. vm[c] \in SUBSET Machine
  BY DEF TypeInv, TypeOK
<1>2. ASSUME NEW m \in vm[c]
      PROVE  /\ Descends(m, m)
             /\ \A v : /\ Descends([m EXCEPT !.version = v], m)
                       /\ Descends([m EXCEPT !.ca = v], m)
                       /\ Descends([m EXCEPT !.up = v], m)
  BY <1>1 DEF Machine, Descends
<1>3. CASE PrepareHost(c)
  <2>1. PICK m \in vm[c] :
           Change(c, m, IF m.version = Absent THEN [m EXCEPT !.version = Asked] ELSE m)
    BY <1>3 DEF PrepareHost
  <2> QED
    BY <1>2, <2>1, ChangeDerives
<1>4. CASE InitMaster(c)
  <2>1. (UNCHANGED vm) \/ \E m \in vm[c] : \E k \in Keys : Change(c, m, [m EXCEPT !.ca = k])
    BY <1>4 DEF InitMaster, Reached
  <2> QED
    BY <1>2, <2>1, ChangeDerives, SameDerives
<1>5. CASE JoinWorker(c)
  <2>1. PICK m \in vm[c] :
           Change(c, m, IF m.ca # Absent THEN m ELSE [m EXCEPT !.ca = cli[c].token])
    BY <1>5 DEF JoinWorker, Reached
  <2> QED
    BY <1>2, <2>1, ChangeDerives
<1>6. CASE JoinNew(c)
  <2>1. (UNCHANGED vm) \/ \E m \in vm[c] : Change(c, m, [m EXCEPT !.ca = cli[c].token])
    BY <1>6 DEF JoinNew, Reached
  <2> QED
    BY <1>2, <2>1, ChangeDerives, SameDerives
<1>7. CASE Boots(c)
  <2>1. PICK m \in vm[c] : Change(c, m, [m EXCEPT !.up = TRUE])
    BY <1>7 DEF Boots
  <2> QED
    BY <1>2, <2>1, ChangeDerives
<1>8. CASE UpgradeMaster(c) \/ UpgradePassesOver(c) \/ UpgradeWorker(c)
  <2>1. (UNCHANGED vm) \/ \E m \in vm[c] : Change(c, m, [m EXCEPT !.version = Target])
    BY <1>8 DEF UpgradeMaster, UpgradePassesOver, UpgradeWith, UpgradeWorker, ControlPlanes,
                Masters
  <2> QED
    BY <1>2, <2>1, ChangeDerives, SameDerives
<1>9. CASE Reset(c)
  <2>1. PICK m \in vm[c] : Change(c, m, [m EXCEPT !.ca = Absent])
    BY <1>9 DEF Reset
  <2> QED
    BY <1>2, <2>1, ChangeDerives
<1> QED
  BY <1>3, <1>4, <1>5, <1>6, <1>7, <1>8, <1>9

LEMMA ActsDerive ==
    ASSUME TypeInv, NEW c \in Names, Acts(c), ~DropTags(c)
    PROVE  Derives(c)
<1>1. ASSUME vm'[c] \subseteq vm[c] PROVE Derives(c)
  BY <1>1 DEF Derives, Descends
<1>2. CASE CreateStep(c)
  <2>1. CASE PrepareHost(c) \/ InitMaster(c) \/ JoinWorker(c)
    BY <2>1, MachineDerives
  <2>2. CASE CreateMachine(c)
    <3>1. (UNCHANGED vm) \/ \E node, version : Provision(c, node, version)
      BY <2>2 DEF CreateMachine
    <3>2. cli[c].op = "create"
      BY <2>2, OpAt DEF CreateMachine, At
    <3> QED
      BY <3>1, <3>2, ProvisionDerives, SameDerives
  <2>3. CASE \/ EnsureKey(c) \/ EnsureNetwork(c) \/ CreateSubnets(c) \/ EnsureFirewall(c)
             \/ Look(c) \/ Await(c) \/ Save(c) \/ Integrate(c) \/ TimesOut(c)
    BY <2>3, SameDerives DEF EnsureKey, EnsureNetwork, CreateSubnets, EnsureFirewall, Look,
                             Await, Save, Integrate, TimesOut, account
  <2> QED
    BY <1>2, <2>1, <2>2, <2>3 DEF CreateStep
<1>3. CASE DeleteStep(c)
  <2>1. CASE DropDroplets(c) \/ DropInstances(c) \/ DropTracked(c)
    BY <1>1, <2>1 DEF DropDroplets, DropInstances, DropTracked, TypeInv, TypeOK
  <2>4. CASE DropGroup(c)
    BY <1>1, <2>4 DEF DropGroup, DeleteGroup, Mates
  <2>2. CASE Reset(c)
    BY <2>2, MachineDerives
  <2>3. CASE \/ DropFirewall(c) \/ DropSubnets(c) \/ DropNetwork(c) \/ Sweep(c)
             \/ SweepEmpty(c) \/ DropKey(c) \/ Untrack(c) \/ Forget(c)
    BY <2>3, SameDerives DEF DropFirewall, DropSubnets, DropNetwork, Sweep, SweepEmpty, DropKey,
                             Untrack, Forget, account
  <2> QED
    BY <1>3, <2>1, <2>2, <2>3, <2>4 DEF DeleteStep
<1>4. CASE OtherStep(c)
  <2>1. CASE Survey(c)
    BY <2>1, SameDerives DEF Survey
  <2>2. CASE Grow(c)
    <3>1. (UNCHANGED vm) \/ \E node, version : Provision(c, node, version)
      BY <2>2 DEF Grow
    <3>2. cli[c].op = "scale"
      BY <2>2, OpAt DEF Grow, At
    <3> QED
      BY <3>1, <3>2, ProvisionDerives, SameDerives
  <2>3. CASE JoinNew(c) \/ UpgradeMaster(c) \/ UpgradeWorker(c)
    BY <2>3, MachineDerives
  <2>4. CASE Shrink(c)
    BY <1>1, <2>4 DEF Shrink, TypeInv, TypeOK
  <2> QED
    BY <1>4, <2>1, <2>2, <2>3, <2>4 DEF OtherStep
<1>5. CASE Boots(c) \/ UpgradePassesOver(c)
  BY <1>5, MachineDerives
<1>6. CASE DropGroupFails(c)
  BY <1>1, <1>6 DEF DropGroupFails, DeleteGroup, Mates
<1>7. CASE \/ Stops(c) \/ Aborts(c) \/ PassOver(c) \/ SaveFails(c)
           \/ StartCreate(c) \/ StartDelete(c) \/ StartUpgrade(c)
           \/ \E want \in 0..MostWorkers : StartScale(c, want)
  BY <1>7, SameDerives DEF Stops, Aborts, PassOver, SaveFails, StartCreate, StartDelete,
                           StartUpgrade, StartScale, Start, account
<1> QED
  BY <1>2, <1>3, <1>4, <1>5, <1>6, <1>7 DEF Acts, Step

\* A command stays the same one until it ends, whatever a step writes down in it.
Carries(c) == cli'[c].op \in {"none", "abort", cli[c].op}
Steady(me, op) == /\ \A at, next : [me EXCEPT !.at = at, !.next = next].op = op
                  /\ \A next : [me EXCEPT !.next = next].op = op

LEMMA NotedSteady ==
    ASSUME NEW me \in Command, NEW v
    PROVE  /\ Steady(me, me.op)
           /\ Steady([me EXCEPT !.seen = v], me.op) /\ Steady([me EXCEPT !.mine = v], me.op)
           /\ Steady([me EXCEPT !.token = v], me.op) /\ Steady([me EXCEPT !.mem = v], me.op)
           /\ \A lost : Steady([me EXCEPT !.seen = v, !.missed = lost], me.op)
           /\ Steady([me EXCEPT !.at = v], me.op)
  BY DEF Command, Steady

LEMMA EndCarries ==
    ASSUME TypeInv, NEW c \in Names, NEW answer, End(c, answer)
    PROVE  Carries(c)
  BY DEF End, Carries, NoCommand, TypeInv, TypeOK

LEMMA OnCarries ==
    ASSUME TypeInv, NEW c \in Names, NEW me, Steady(me, cli[c].op), NEW step, NEW last,
           GoTo(c, me, step) \/ Proceed(c, me) \/ Loop(c, me, last)
    PROVE  Carries(c)
<1>1. cli \in [Names -> Command]
  BY DEF TypeInv, TypeOK
<1>2. ASSUME NEW to, GoTo(c, me, to) PROVE Carries(c)
  <2>1. CASE to = "done"
    BY <1>2, <2>1, EndCarries DEF GoTo
  <2>2. CASE to # "done"
    <3>1. cli'[c] = [me EXCEPT !.at = to, !.next = 0]
      BY <1>1, <1>2, <2>2 DEF GoTo
    <3> QED
      BY <3>1 DEF Steady, Carries
  <2> QED
    BY <2>1, <2>2
<1>3. CASE Proceed(c, me)
  BY <1>2, <1>3 DEF Proceed
<1>4. CASE Loop(c, me, last)
  <2>1. CASE cli' = [cli EXCEPT ![c] = [me EXCEPT !.next = @ + 1]]
    <3>1. cli'[c] = [me EXCEPT !.next = me.next + 1]
      BY <1>1, <2>1
    <3> QED
      BY <3>1 DEF Steady, Carries
  <2> QED
    BY <1>2, <1>4, <2>1 DEF Loop, Proceed
<1> QED
  BY <1>2, <1>3, <1>4

LEMMA ProvisionCarries ==
    ASSUME TypeInv, NEW c \in Names, NEW node, NEW version, Provision(c, node, version)
    PROVE  Carries(c)
  BY DEF Provision, Carries, Command, TypeInv, TypeOK

LEMMA CreateCarries ==
    ASSUME TypeInv, NEW c \in Names, CreateStep(c) \/ SaveFails(c)
    PROVE  Carries(c)
<1> DEFINE me == cli[c]
<1>1. me \in Command /\ cli \in [Names -> Command]
  BY DEF TypeInv, TypeOK
<1>2. CASE \/ EnsureKey(c) \/ EnsureNetwork(c) \/ CreateSubnets(c) \/ EnsureFirewall(c)
           \/ Integrate(c) \/ JoinWorker(c) \/ SaveFails(c) \/ TimesOut(c)
  <2>1. End(c, "failed") \/ Proceed(c, me) \/ Loop(c, me, Workers - 1)
    BY <1>2 DEF EnsureKey, EnsureNetwork, CreateSubnets, EnsureFirewall, Integrate, JoinWorker,
                SaveFails, TimesOut
  <2> QED
    BY <1>1, <2>1, NotedSteady, OnCarries, EndCarries
<1>3. CASE Look(c) \/ Save(c) \/ InitMaster(c) \/ PrepareHost(c)
  <2>1. \E v : \/ Proceed(c, [me EXCEPT !.seen = v]) \/ Proceed(c, [me EXCEPT !.mem = v])
               \/ Proceed(c, [me EXCEPT !.token = v])
               \/ Loop(c, [me EXCEPT !.mine = v], Workers)
    BY <1>3 DEF Look, Save, InitMaster, PrepareHost
  <2> QED
    BY <1>1, <2>1, NotedSteady, OnCarries
<1>4. CASE CreateMachine(c)
  <2>1. \/ \E v : Loop(c, [me EXCEPT !.mine = v], Workers)
        \/ End(c, "failed") \/ \E node, version : Provision(c, node, version)
    BY <1>4 DEF CreateMachine
  <2> QED
    BY <1>1, <2>1, NotedSteady, OnCarries, EndCarries, ProvisionCarries
<1>5. CASE Await(c)
  <2>1. \/ Loop(c, [me EXCEPT !.at = "machine"], Workers)
        \/ cli'[c] = [me EXCEPT !.at = "joinNew"]
    BY <1>1, <1>5 DEF Await
  <2>2. CASE cli'[c] = [me EXCEPT !.at = "joinNew"]
    BY <1>1, <2>2 DEF Command, Carries
  <2> QED
    BY <1>1, <2>1, <2>2, NotedSteady, OnCarries
<1> QED
  BY <1>2, <1>3, <1>4, <1>5 DEF CreateStep

LEMMA OtherCarries ==
    ASSUME TypeInv, NEW c \in Names, OtherStep(c) \/ UpgradePassesOver(c)
    PROVE  Carries(c)
<1> DEFINE me == cli[c]
<1>1. me \in Command /\ cli \in [Names -> Command]
  BY DEF TypeInv, TypeOK
<1>2. CASE Survey(c)
  <2>1. \/ \E answer : End(c, answer)
        \/ \E v : GoTo(c, [me EXCEPT !.seen = v], "shrink")
        \/ \E n, t : cli' = [cli EXCEPT ![c] = [me EXCEPT !.at = "grow", !.next = n, !.token = t]]
    BY <1>2 DEF Survey
  <2>2. CASE \E n, t : cli' = [cli EXCEPT ![c] = [me EXCEPT !.at = "grow", !.next = n, !.token = t]]
    BY <1>1, <2>2 DEF Command, Carries
  <2> QED
    BY <1>1, <2>1, <2>2, NotedSteady, OnCarries, EndCarries
<1>3. CASE Grow(c)
  BY <1>3, EndCarries, ProvisionCarries DEF Grow
<1>4. CASE JoinNew(c)
  <2>1. \/ End(c, "failed")
        \/ cli' = [cli EXCEPT ![c].at = "grow", ![c].next = @ + 1, ![c].mine = {}]
    BY <1>4 DEF JoinNew
  <2> QED
    BY <1>1, <2>1, EndCarries DEF Command, Carries
<1>5. CASE Shrink(c) \/ UpgradeWorker(c)
  <2>1. \/ \E answer : End(c, answer)
        \/ GoTo(c, me, "done")
        \/ \E r : cli' = [cli EXCEPT ![c].seen = @ \ {r}]
    BY <1>5 DEF Shrink, UpgradeWorker
  <2>2. CASE \E r : cli' = [cli EXCEPT ![c].seen = @ \ {r}]
    BY <1>1, <2>2 DEF Command, Carries
  <2> QED
    BY <1>1, <2>1, <2>2, EndCarries, NotedSteady, OnCarries
<1>6. CASE UpgradeMaster(c) \/ UpgradePassesOver(c)
  <2>1. \/ End(c, "failed")
        \/ \E v, lost : GoTo(c, [me EXCEPT !.seen = v, !.missed = lost], "upgradeWorkers")
    BY <1>6 DEF UpgradeMaster, UpgradePassesOver, UpgradeWith
  <2> QED
    BY <1>1, <2>1, NotedSteady, OnCarries, EndCarries
<1> QED
  BY <1>2, <1>3, <1>4, <1>5, <1>6 DEF OtherStep

\* A deletion on DigitalOcean starts with the droplets.
LEMMA DeletionStarts ==
    ASSUME TypeInv, NEW c \in Names, Acts(c), cloud = "digitalocean",
           cli[c].op # "delete", cli'[c].op = "delete"
    PROVE  cli'[c].at = "dropDroplets"
<1> DEFINE me == cli[c]
<1>1. /\ me \in Command /\ cli \in [Names -> Command] /\ me.at \in StepsOf(cloud, me.op)
      /\ me.op \in Ops
  BY DEF TypeInv, TypeOK, Placed, Command
<1>2. ~Carries(c) /\ me.at \notin DeleteSteps(cloud) /\ cloud # "aws"
  BY <1>1 DEF Carries, StepsOf, DeleteSteps, CreateSteps, Ops
<1>3. ASSUME NEW answer PROVE ~End(c, answer)
  BY <1>2, EndCarries
<1>4. cli'[c] # me
  OBVIOUS
<1>5. ~CreateStep(c) /\ ~OtherStep(c) /\ ~SaveFails(c) /\ ~UpgradePassesOver(c)
  BY <1>2, CreateCarries, OtherCarries
<1>6. ~Stops(c) /\ ~DropGroupFails(c) /\ ~Boots(c) /\ ~Aborts(c)
  BY <1>2, <1>3, <1>4 DEF Stops, DropGroupFails, Boots, Aborts
<1>7. ASSUME DeleteStep(c) \/ PassOver(c) PROVE FALSE
  <2>1. me.at \in {"dropDroplets", "dropInstances", "dropTracked", "dropGroup", "dropFirewall",
                   "dropSubnets", "dropNetwork", "sweep", "sweepEmpty", "dropTags", "dropKey",
                   "untrack", "forget", "reset"}
    BY <1>7 DEF DeleteStep, DropDroplets, DropInstances, DropTracked, DropGroup, DropFirewall,
                DropSubnets, DropNetwork, Sweep, SweepEmpty, DropTags, DropKey, Untrack, Forget,
                Reset, PassOver, At
  <2> QED
    BY <1>2, <2>1, OpAt DEF Programmed
<1>8. PICK op \in {"create", "delete", "scale", "upgrade"} : \E want : Start(c, op, want)
  BY <1>5, <1>6, <1>7 DEF Acts, Step, StartCreate, StartDelete, StartUpgrade, StartScale
<1>9. PICK want : cli'[c] = [NoCommand EXCEPT !.op = op, !.at = Program(op).start,
                                              !.want = want, !.mem = file]
  BY <1>1, <1>8 DEF Start
<1>10. cli'[c].op = op /\ cli'[c].at = Program(op).start
  BY <1>9 DEF NoCommand
<1> QED
  BY <1>10 DEF Program, DigitalOceanDelete

LEMMA EmptiedNext ==
    ASSUME TypeInv, NEW c \in Names, cloud' = cloud, Acts(c), Emptied(c)
    PROVE  Emptied(c)'
<1> SUFFICES ASSUME cloud = "digitalocean", cli'[c].op = "delete", cli'[c].at # "dropDroplets"
             PROVE  vm'[c] = {}
  BY DEF Emptied
<1> DEFINE me == cli[c]
<1>1. /\ me \in Command /\ cli \in [Names -> Command] /\ vm \in [Names -> SUBSET Machine]
      /\ me.at \in StepsOf(cloud, me.op)
  BY DEF TypeInv, TypeOK, Placed
<1>2. me.op = "delete"
  BY DeletionStarts
<1>3. CASE me.at = "dropDroplets"
  <2>1. ~CreateStep(c) /\ ~OtherStep(c) /\ ~SaveFails(c) /\ ~Aborts(c) /\ ~PassOver(c)
        /\ ~DropGroupFails(c) /\ ~UpgradePassesOver(c)
    BY <1>2, <1>3 DEF CreateStep, EnsureKey, EnsureNetwork, CreateSubnets, EnsureFirewall, Look,
          CreateMachine, Await, Save, PrepareHost, InitMaster, JoinWorker, Integrate, TimesOut,
          OtherStep, Survey, Grow, JoinNew, Shrink, UpgradeMaster, UpgradeWorker,
          UpgradePassesOver, SaveFails, Aborts, PassOver, DropGroupFails, At
  <2>2. ~Boots(c)
    BY <1>3 DEF Boots
  <2>3. ~Stops(c)
    BY <1>1 DEF Stops, End, NoCommand
  <2>4. \A op, want : ~Start(c, op, want)
    BY <1>2 DEF Start
  <2>5. DeleteStep(c)
    BY <2>1, <2>2, <2>3, <2>4 DEF Acts, Step, StartCreate, StartDelete, StartUpgrade, StartScale
  <2>6. DropDroplets(c)
    BY <1>3, <2>5 DEF DeleteStep, DropInstances, DropTracked, DropGroup, DropFirewall,
          DropSubnets, DropNetwork, Sweep, SweepEmpty, DropTags, DropKey, Untrack, Forget,
          Reset, At
  <2> QED
    BY <1>1, <2>6 DEF DropDroplets
<1>4. CASE me.at # "dropDroplets"
  <2>1. vm[c] = {}
    BY <1>2, <1>4 DEF Emptied
  <2>2. CASE DropTags(c)
    BY <1>1, <2>1, <2>2 DEF DropTags
  <2>3. CASE ~DropTags(c)
    BY <1>2, <2>1, <2>3, ActsDerive DEF Derives
  <2> QED
    BY <2>2, <2>3
<1> QED
  BY <1>3, <1>4

LEMMA TaggedNext ==
    ASSUME TypeInv, NEW c \in Names, cloud' = cloud, Acts(c), Emptied(c), Tagged(c)
    PROVE  Tagged(c)'
<1> SUFFICES ASSUME cloud = "digitalocean" PROVE \A m \in vm'[c] : m.node = 0 => m.role
  BY DEF Tagged
<1>1. /\ vm \in [Names -> SUBSET Machine] /\ cli[c].at \in StepsOf(cloud, cli[c].op)
      /\ cli[c].op \in Ops
  BY DEF TypeInv, TypeOK, Placed, Command
<1>2. CASE DropTags(c)
  <2>1. cli[c].op = "delete" /\ cli[c].at = "dropTags"
    BY <1>2, OpAt DEF DropTags, At, Programmed
  <2>2. vm[c] = {}
    BY <2>1 DEF Emptied
  <2> QED
    BY <1>1, <1>2, <2>2 DEF DropTags
<1>3. CASE ~DropTags(c)
  BY <1>3, ActsDerive DEF Derives, Descends, Tagged
<1> QED
  BY <1>2, <1>3

LEMMA InitLabels == Init => LabelInv
  BY DEF Init, LabelInv, Tagged, Emptied, NoCommand

\* ControlPlaneFound: a DigitalOcean cluster that is alone in its account has the
\* tag its control plane is found by whenever a creation has answered Running,
\* also one that took over what an interrupted deletion left.  Beside other
\* clusters it is refuted: their deletions take the tag off.
THEOREM FoundWhenAlone ==
    ASSUME \A c, d \in Names : c = d
    PROVE  Spec => []ControlPlaneFound
<1>1. ASSUME TypeInv, TypeInv', LabelInv, [Next]_vars PROVE LabelInv'
  <2>1. CASE Next
    <3>1. PICK c \in Names : Acts(c)
      BY <2>1, NextActs
    <3>2. cloud' = cloud
      BY <1>1, <2>1, NextStepped DEF Stepped
    <3>3. (Tagged(c) /\ Emptied(c))'
      BY <1>1, <3>1, <3>2, EmptiedNext, TaggedNext DEF LabelInv
    <3> QED
      BY <3>3 DEF LabelInv
  <2>2. CASE UNCHANGED vars
    BY <1>1, <2>2 DEF vars, account, LabelInv, Tagged, Emptied
  <2> QED
    BY <1>1, <2>1, <2>2
<1>2. MemberInv /\ LabelInv => ControlPlaneFound
  BY DEF MemberInv, Members, Running, Whole, LabelInv, Tagged, ControlPlaneFound, Masters
<1>3. Spec => []LabelInv
  BY <1>1, InitLabels, Typed, PTL DEF Spec
<1> QED
  BY <1>2, <1>3, Membership, PTL
====
