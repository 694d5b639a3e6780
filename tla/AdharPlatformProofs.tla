------------------------ MODULE AdharPlatformProofs ------------------------
(* Theorems about AdharPlatform, for every set of managers, every provider *)
(* and mode, and every bound on runs, faults and removals.                 *)
EXTENDS AdharPlatform, TLAPS

-----------------------------------------------------------------------------
(* The inductive invariants, in named parts.                               *)

(* Whoever knows of the repositories, by a flag or by where it is in a     *)
(* pass, knows of seeded ones.                                             *)
Knows(m) ==
  /\ "repositories" \in snap[m] \cup cache[m].flags => Seeded
  /\ pc[m] \in {"record", "appset", "workload"} => Seeded
  /\ pc[m] = "environments" => repos["packages"] = "seeded"

SeededKnown == \A m \in Managers : Knows(m)

SeedInv == TypeOK /\ SeededKnown /\ GitOpsSeeded

(* How far a pass is in the installation tells what has landed.            *)
Ordered(step, objects) ==
  /\ step \in {"cilium", "gateway", "pin", "cnpg", "giteaDB"} =>
       "gatewayAPI" \in objects
  /\ step \in {"gateway", "pin", "cnpg", "giteaDB"} => "cilium" \in objects
  /\ step \in {"pin", "cnpg", "giteaDB"} => "gateway" \in objects
  /\ step = "giteaDB" => "cnpg" \in objects
  /\ step \in {"argocd", "gitea", "crossplane"} => Foundation \subseteq objects

Order == \A m \in Managers : Ordered(pc[m], landed)

OrderInv == TypeOK /\ Order /\ FoundationFirst

-----------------------------------------------------------------------------
(* The order of a pass, step by step.                                      *)

LEMMA ThenIs ==
  /\ Then["gatewayAPI"] = "cilium" /\ Then["cilium"] = "gateway"
  /\ Then["gateway"] = IF OnKind THEN "pin" ELSE IF HAMode THEN "cnpg" ELSE "argocd"
  /\ Then["pin"] = IF HAMode THEN "cnpg" ELSE "argocd"
  /\ Then["cnpg"] = "giteaDB" /\ Then["giteaDB"] = "argocd"
  /\ Then["argocd"] = "gitea" /\ Then["gitea"] = "crossplane"
  /\ Then["definitions"] = "providers" /\ Then["providers"] = "providerConfigs"
  /\ Then["providerConfigs"] = "operations"
  /\ Then["create"] = "packages" /\ Then["packages"] = "environments"
  /\ Then["environments"] = "record" /\ Then["record"] = "appset"
  /\ Then["appset"] = "workload" /\ Then["workload"] = "decide"
BY DEF Then

(* The steps of a pass, listed.                                            *)
LEMMA StepsAre ==
  Steps = {"gatewayAPI", "cilium", "gateway", "pin", "cnpg", "giteaDB",
           "argocd", "gitea", "crossplane", "definitions", "providers",
           "providerConfigs", "operations", "create", "packages",
           "environments", "record", "appset", "workload", "down", "idle",
           "enter", "decide", "exit", "post", "postExit"}
<1>1. DOMAIN Then =
        {"gatewayAPI", "cilium", "gateway", "pin", "cnpg", "giteaDB",
         "argocd", "gitea", "crossplane", "definitions", "providers",
         "providerConfigs", "create", "packages", "environments", "record",
         "appset", "workload"}
  BY DEF Then
<1>2. QED
  BY <1>1 DEF Steps, Ends

LEMMA StackStepIs ==
  ASSUME NEW m, NEW flags
  PROVE  /\ StackStep(m, flags) \in {"decide", "appset", "create"}
         /\ StackStep(m, flags) = "appset" => "repositories" \in flags
BY DEF StackStep

(* Every step name a pass goes on to is one.                               *)
LEMMA ThenIsStep ==
  /\ \A s \in {"gatewayAPI", "cilium", "gateway", "pin", "cnpg", "giteaDB",
              "argocd", "gitea", "definitions", "providers",
              "providerConfigs", "create", "packages", "environments",
              "record", "appset", "workload"} : Then[s] \in Steps
  /\ \A m, flags : StackStep(m, flags) \in Steps
BY ThenIs, StepsAre, StackStepIs

(* What the helpers leave of the types.                                    *)
LEMMA MoveTyped ==
  ASSUME TypeOK, NEW m \in Managers, NEW step \in Steps, GoTo(m, step)
  PROVE  pc' \in [Managers -> Steps]
BY DEF TypeOK, GoTo

LEMMA LearnTyped ==
  ASSUME TypeOK, NEW m \in Managers, NEW flags \in SUBSET Flags,
         Learn(m, flags)
  PROVE  snap' \in [Managers -> SUBSET Flags]
BY DEF TypeOK, Learn

LEMMA StoreTyped ==
  ASSUME TypeOK, NEW m \in Managers, NEW new \in Platform, Store(m, new)
  PROVE  /\ platform' \in Platform
         /\ fresh' \subseteq Managers /\ current' \subseteq Managers
BY DEF TypeOK, Store

(* The stored object with other flags, or created, is an object.           *)
LEMMA PlatformTyped ==
  ASSUME NEW p \in Platform, NEW flags \in SUBSET Flags
  PROVE  /\ [p EXCEPT !.flags = flags] \in Platform
         /\ [p EXCEPT !.flags = flags].flags = flags
         /\ [p EXCEPT !.created = TRUE] \in Platform
         /\ [p EXCEPT !.created = TRUE].flags = p.flags
         /\ p.flags \in SUBSET Flags
BY DEF Platform

LEMMA ListWatchTyped ==
  ASSUME TypeOK, NEW m \in Managers, ListWatch(m)
  PROVE  cache' \in [Managers -> Platform] /\ current' \subseteq Managers
BY DEF TypeOK, ListWatch

LEMMA FaultTyped ==
  ASSUME TypeOK, Fault
  PROVE  runs' \in 0..MaxRuns /\ faults' \in 0..MaxFaults /\ removals' \in 0..MaxRemovals
BY ConstantsAssumption DEF TypeOK, Fault

LEMMA HaltTyped ==
  ASSUME TypeOK, NEW m \in Managers, Halt(m)
  PROVE  /\ platform' \in Platform
         /\ landed' \subseteq Objects /\ kinds' \subseteq LateKinds
         /\ up' \subseteq Deployments /\ service' \in Services
         /\ repos' \in [Repositories -> Contents]
         /\ pc' \in [Managers -> Steps]
         /\ snap' \in [Managers -> SUBSET Flags]
         /\ fresh' \subseteq Managers
         /\ cache' \in [Managers -> Platform] /\ current' \subseteq Managers
<1>1. NoPlatform \in Platform /\ "down" \in Steps
  BY StepsAre DEF NoPlatform, Platform
<1>2. pc' \in [Managers -> Steps]
  BY <1>1, MoveTyped DEF Halt
<1>3. QED
  BY <1>1, <1>2 DEF Halt, TypeOK, cluster

-----------------------------------------------------------------------------
(* Types.                                                                  *)

LEMMA TypeInit == Init => TypeOK
<1> SUFFICES ASSUME Init PROVE TypeOK
  OBVIOUS
<1>1. NoPlatform \in Platform /\ "down" \in Steps
  BY StepsAre DEF NoPlatform, Platform
<1>2. pc \in [Managers -> Steps] /\ cache \in [Managers -> Platform]
  BY <1>1 DEF Init
<1>3. repos \in [Repositories -> Contents] /\ service \in Services
  BY DEF Init, Contents, Services
<1>4. runs \in 0..MaxRuns /\ faults \in 0..MaxFaults /\ removals \in 0..MaxRemovals
  BY ConstantsAssumption DEF Init
<1>5. platform \in Platform /\ snap \in [Managers -> SUBSET Flags]
  BY <1>1 DEF Init
<1>6. QED
  BY <1>2, <1>3, <1>4, <1>5 DEF Init, TypeOK

(* A step of a process.                                                    *)
LEMMA ProcessTyped ==
  ASSUME TypeOK, NEW m \in Managers,
         Start(m) \/ Submit(m) \/ Deliver(m) \/ Exit(m) \/ Crash(m) \/ Interrupt(m)
  PROVE  TypeOK'
<1>1. CASE Start(m)
  <2>1. pc' \in [Managers -> Steps]
    BY <1>1, StepsAre, MoveTyped DEF Start
  <2>2. cache' \in [Managers -> Platform] /\ current' \subseteq Managers
    BY <1>1, ListWatchTyped DEF Start
  <2>3. runs' \in 0..MaxRuns
    BY <1>1, ConstantsAssumption DEF Start, TypeOK
  <2>4. QED
    BY <1>1, <2>1, <2>2, <2>3 DEF Start, TypeOK, cluster
<1>2. CASE Submit(m)
  <2>1. platform' \in Platform
    BY <1>2, PlatformTyped DEF Submit, TypeOK
  <2>2. QED
    BY <1>2, <2>1 DEF Submit, TypeOK, cluster, bounds
<1>3. CASE Deliver(m)
  <2>1. cache' \in [Managers -> Platform] /\ current' \subseteq Managers
    BY <1>3, ListWatchTyped DEF Deliver
  <2>2. QED
    BY <1>3, <2>1 DEF Deliver, TypeOK, cluster, process, bounds
<1>4. CASE Exit(m)
  BY <1>4, HaltTyped DEF Exit, EndRun, TypeOK, bounds
<1>5. CASE Crash(m)
  BY <1>5, HaltTyped, FaultTyped DEF Crash, TypeOK
<1>6. CASE Interrupt(m)
  BY <1>6, HaltTyped, FaultTyped DEF Interrupt, EndRun, TypeOK
<1>7. QED
  BY <1>1, <1>2, <1>3, <1>4, <1>5, <1>6

(* A call of a pass.                                                       *)
LEMMA PassTyped ==
  ASSUME TypeOK, NEW m \in Managers, Pass(m)
  PROVE  TypeOK'
<1>1. CASE Begin(m)
  <2>1. pc' \in [Managers -> Steps]
    BY <1>1, StepsAre, MoveTyped DEF Begin
  <2>2. snap' \in [Managers -> SUBSET Flags]
    BY <1>1, PlatformTyped DEF Begin, TypeOK
  <2>3. QED
    BY <1>1, <2>1, <2>2 DEF Begin, TypeOK, cluster, informer, bounds
<1>2. CASE Enter(m)
  <2>1. PICK step \in Steps : GoTo(m, step)
    BY <1>2, StepsAre, ThenIsStep DEF Enter
  <2>2. pc' \in [Managers -> Steps]
    BY <2>1, MoveTyped
  <2>3. QED
    BY <1>2, <2>2 DEF Enter, TypeOK, cluster, informer, bounds
<1>3. CASE InstallPackage(m)
  <2>1. Then[pc[m]] \in Steps
    BY <1>3, ThenIsStep DEF InstallPackage
  <2>2. pc' \in [Managers -> Steps]
    BY <1>3, <2>1, MoveTyped DEF InstallPackage
  <2>3. FlagsOf(pc[m]) \in SUBSET Flags
    BY DEF FlagsOf
  <2>4. snap' \in [Managers -> SUBSET Flags]
    BY <1>3, <2>3, LearnTyped DEF InstallPackage
  <2>5. landed' \subseteq Objects
    BY <1>3 DEF InstallPackage, TypeOK, Objects, Packages
  <2>6. QED
    BY <1>3, <2>2, <2>4, <2>5 DEF InstallPackage, TypeOK, passive, informer, bounds
<1>4. CASE InstallGateway(m)
  <2>1. pc' \in [Managers -> Steps]
    BY <1>4, ThenIsStep, MoveTyped DEF InstallGateway
  <2>2. (IF OnKind THEN {} ELSE {"gateway"}) \in SUBSET Flags
    BY DEF Flags, CoreFlags
  <2>3. snap' \in [Managers -> SUBSET Flags]
    BY <1>4, <2>2, LearnTyped DEF InstallGateway
  <2>4. landed' \subseteq Objects
    BY <1>4 DEF InstallGateway, TypeOK, Objects, Packages
  <2>5. QED
    BY <1>4, <2>1, <2>3, <2>4 DEF InstallGateway, TypeOK, passive, informer, bounds
<1>5. CASE PinNodePorts(m)
  <2>1. pc' \in [Managers -> Steps]
    BY <1>5, ThenIsStep, MoveTyped DEF PinNodePorts
  <2>2. {"gateway"} \in SUBSET Flags
    BY DEF Flags, CoreFlags
  <2>3. snap' \in [Managers -> SUBSET Flags]
    BY <1>5, <2>2, LearnTyped DEF PinNodePorts, TypeOK
  <2>4. service' \in Services
    BY <1>5 DEF PinNodePorts, TypeOK, Services
  <2>5. QED
    BY <1>5, <2>1, <2>3, <2>4 DEF PinNodePorts, TypeOK, informer, bounds
<1>6. CASE InstallDatabase(m)
  <2>1. PICK step \in Steps : GoTo(m, step)
    BY <1>6, StepsAre, ThenIsStep DEF InstallDatabase
  <2>2. pc' \in [Managers -> Steps]
    BY <2>1, MoveTyped
  <2>3. landed' \subseteq Objects
    BY <1>6 DEF InstallDatabase, TypeOK, Objects, Packages
  <2>4. QED
    BY <1>6, <2>2, <2>3 DEF InstallDatabase, TypeOK, passive, informer, bounds
<1>7. CASE InstallCrossplane(m)
  <2>1. PICK step \in Steps : GoTo(m, step)
    BY <1>7, StepsAre, ThenIsStep DEF InstallCrossplane
  <2>2. pc' \in [Managers -> Steps]
    BY <2>1, MoveTyped
  <2>3. {"crossplane"} \in SUBSET Flags
    BY DEF Flags, CoreFlags
  <2>4. snap' \in [Managers -> SUBSET Flags]
    BY <1>7, <2>3, LearnTyped DEF InstallCrossplane
  <2>5. landed' \subseteq Objects
    BY <1>7 DEF InstallCrossplane, TypeOK, Objects, Packages
  <2>6. QED
    BY <1>7, <2>2, <2>4, <2>5 DEF InstallCrossplane, TypeOK, passive, informer, bounds
<1>8. CASE Configure(m)
  <2>1. PICK step \in Steps : GoTo(m, step)
    BY <1>8, ThenIsStep DEF Configure, Configuration
  <2>2. pc' \in [Managers -> Steps]
    BY <2>1, MoveTyped
  <2>3. {"controlPlane"} \in SUBSET Flags
    BY DEF Flags, CoreFlags
  <2>4. snap' \in [Managers -> SUBSET Flags]
    BY <1>8, <2>3, LearnTyped DEF Configure, TypeOK
  <2>5. landed' \subseteq Objects
    BY <1>8 DEF Configure, TypeOK, Objects
  <2>6. QED
    BY <1>8, <2>2, <2>4, <2>5 DEF Configure, TypeOK, passive, informer, bounds
<1>9. CASE CreateRepositories(m)
  <2>1. PICK step \in Steps : GoTo(m, step)
    BY <1>9, StepsAre, ThenIsStep DEF CreateRepositories
  <2>2. pc' \in [Managers -> Steps]
    BY <2>1, MoveTyped
  <2>3. repos' \in [Repositories -> Contents]
    BY <1>9 DEF CreateRepositories, TypeOK, Contents
  <2>4. QED
    BY <1>9, <2>2, <2>3 DEF CreateRepositories, TypeOK, informer, bounds
<1>10. CASE Populate(m)
  <2>1. PICK step \in Steps : GoTo(m, step)
    BY <1>10, StepsAre, ThenIsStep DEF Populate, Repositories
  <2>2. pc' \in [Managers -> Steps]
    BY <2>1, MoveTyped
  <2>3. repos' \in [Repositories -> Contents]
    BY <1>10 DEF Populate, TypeOK, Contents
  <2>4. QED
    BY <1>10, <2>2, <2>3 DEF Populate, TypeOK, informer, bounds
<1>11. CASE Record(m)
  <2>1. pc' \in [Managers -> Steps]
    BY <1>11, ThenIsStep, MoveTyped DEF Record
  <2>2. {"repositories"} \in SUBSET Flags
    BY DEF Flags
  <2>3. snap' \in [Managers -> SUBSET Flags]
    BY <1>11, <2>2, LearnTyped DEF Record
  <2>4. platform' \in Platform /\ fresh' \subseteq Managers /\ current' \subseteq Managers
    BY <1>11, <2>3, PlatformTyped, StoreTyped DEF Record, TypeOK
  <2>5. QED
    BY <1>11, <2>1, <2>3, <2>4 DEF Record, TypeOK, cluster, bounds
<1>12. CASE ApplyStack(m)
  <2>1. Then[pc[m]] \in Steps
    BY <1>12, ThenIsStep DEF ApplyStack, Stack
  <2>2. pc' \in [Managers -> Steps]
    BY <1>12, <2>1, MoveTyped DEF ApplyStack
  <2>3. landed' \subseteq Objects
    BY <1>12 DEF ApplyStack, TypeOK, Objects
  <2>4. QED
    BY <1>12, <2>2, <2>3 DEF ApplyStack, TypeOK, passive, informer, bounds
<1>13. CASE Decide(m)
  <2>1. PICK step \in Steps : GoTo(m, step)
    BY <1>13, StepsAre DEF Decide
  <2>2. pc' \in [Managers -> Steps]
    BY <2>1, MoveTyped
  <2>3. QED
    BY <1>13, <2>2 DEF Decide, TypeOK, cluster, informer, bounds
<1>14. CASE PostProcess(m)
  <2>1. PICK step \in Steps : GoTo(m, step)
    BY <1>14, StepsAre DEF PostProcess
  <2>2. pc' \in [Managers -> Steps]
    BY <2>1, MoveTyped
  <2>3. snap[m] \in SUBSET Flags
    BY DEF TypeOK
  <2>4. platform' \in Platform /\ fresh' \subseteq Managers /\ current' \subseteq Managers
    BY <1>14, <2>3, PlatformTyped, StoreTyped DEF PostProcess, TypeOK
  <2>5. QED
    BY <1>14, <2>2, <2>4 DEF PostProcess, TypeOK, cluster, bounds
<1>15. QED
  BY <1>1, <1>2, <1>3, <1>4, <1>5, <1>6, <1>7, <1>8, <1>9, <1>10, <1>11,
     <1>12, <1>13, <1>14
  DEF Pass

(* Where a call that fails leaves its pass.                                *)
LEMMA CallFailsTyped ==
  ASSUME TypeOK, NEW m \in Managers, CallFails(m)
  PROVE  TypeOK'
<1>1. PICK step \in Steps : GoTo(m, step)
  BY StepsAre, ThenIsStep DEF CallFails
<1>2. pc' \in [Managers -> Steps]
  BY <1>1, MoveTyped
<1>3. {"repositories"} \in SUBSET Flags
  BY DEF Flags
<1>4. snap' \in [Managers -> SUBSET Flags]
  BY <1>3 DEF CallFails, TypeOK
<1>5. QED
  BY <1>2, <1>4, FaultTyped DEF CallFails, TypeOK, cluster, informer

(* A step of the cluster or of its users.                                  *)
LEMMA EnvironmentTyped ==
  ASSUME TypeOK, Environment
  PROVE  TypeOK'
<1>1. CASE RegisterKind
  BY <1>1 DEF RegisterKind, TypeOK, LateKinds, informer, process, bounds
<1>2. CASE BringUp
  BY <1>2 DEF BringUp, TypeOK, LateKinds, informer, process, bounds
<1>3. CASE BringDown
  BY <1>3, FaultTyped DEF BringDown, TypeOK, informer, process
<1>4. CASE ProgramGateway
  BY <1>4 DEF ProgramGateway, TypeOK, Services, informer, process, bounds
<1>5. CASE Remove
  BY <1>5, ConstantsAssumption DEF Remove, TypeOK, informer, process
<1>6. QED
  BY <1>1, <1>2, <1>3, <1>4, <1>5 DEF Environment

LEMMA TypeStep == TypeOK /\ [Next]_vars => TypeOK'
<1> SUFFICES ASSUME TypeOK, [Next]_vars PROVE TypeOK'
  OBVIOUS
<1>1. CASE UNCHANGED vars
  BY <1>1 DEF vars, TypeOK, cluster, informer, process, bounds
<1>2. ASSUME NEW m \in Managers, Manager(m) PROVE TypeOK'
  BY <1>2, ProcessTyped, PassTyped, CallFailsTyped DEF Manager
<1>3. QED
  BY <1>1, <1>2, EnvironmentTyped DEF Next

(* Every variable keeps its type, whatever processes run and interleave.   *)
THEOREM TypeCorrect == Spec => []TypeOK
BY TypeInit, TypeStep, PTL DEF Spec

-----------------------------------------------------------------------------
(* The repositories come first.                                            *)

(* What a step may do to the world as far as seeding is concerned: nothing *)
(* that was pushed is lost, and the flag is stored and the ApplicationSets *)
(* land only when both repositories are seeded.                            *)
SeedKept ==
  /\ Seeded => Seeded'
  /\ repos["packages"] = "seeded" => repos'["packages"] = "seeded"
  /\ "repositories" \in platform'.flags => "repositories" \in platform.flags \/ Seeded
  /\ {"appset", "workload"} \cap landed' # {} =>
       {"appset", "workload"} \cap landed # {} \/ Seeded

LEMMA OthersKnow ==
  ASSUME SeedInv, SeedKept, NEW n \in Managers,
         pc'[n] = pc[n], snap'[n] = snap[n], cache'[n] = cache[n]
  PROVE  Knows(n)'
BY DEF SeedInv, SeededKnown, SeedKept, Knows

(* A step of m that changes nobody else's position, copy or cache.         *)
LEMMA OneMoves ==
  ASSUME SeedInv, TypeOK', SeedKept, NEW m \in Managers,
         \A n \in Managers \ {m} : /\ pc'[n] = pc[n] /\ snap'[n] = snap[n]
                                  /\ cache'[n] = cache[n],
         Knows(m)'
  PROVE  SeedInv'
<1>1. \A n \in Managers : Knows(n)'
  BY OthersKnow
<1>2. SeededKnown'
  BY <1>1 DEF SeededKnown
<1>3. GitOpsSeeded'
  BY DEF SeedInv, GitOpsSeeded, SeedKept
<1>4. QED
  BY <1>2, <1>3 DEF SeedInv

(* A step that writes neither repositories nor flags nor ApplicationSets.  *)
LEMMA KeptByFrame ==
  ASSUME repos' = repos, platform'.flags = platform.flags,
         landed' \cap {"appset", "workload"} \subseteq landed
  PROVE  SeedKept
BY DEF SeedKept, Seeded

(* The frame of the helpers: what they do to m and to the others.          *)
LEMMA MoveFrame ==
  ASSUME TypeOK, NEW m \in Managers, NEW step, GoTo(m, step)
  PROVE  pc'[m] = step /\ \A n \in Managers \ {m} : pc'[n] = pc[n]
BY DEF TypeOK, GoTo

LEMMA LearnFrame ==
  ASSUME TypeOK, NEW m \in Managers, NEW flags, Learn(m, flags)
  PROVE  /\ snap'[m] = snap[m] \cup flags
         /\ \A n \in Managers \ {m} : snap'[n] = snap[n]
BY DEF TypeOK, Learn

LEMMA ListWatchFrame ==
  ASSUME TypeOK, NEW m \in Managers, ListWatch(m)
  PROVE  /\ cache'[m] = platform
         /\ \A n \in Managers \ {m} : cache'[n] = cache[n]
BY DEF TypeOK, ListWatch

LEMMA HaltFrame ==
  ASSUME TypeOK, NEW m \in Managers, Halt(m)
  PROVE  /\ pc'[m] = "down" /\ snap'[m] = {} /\ cache'[m].flags = {}
         /\ \A n \in Managers \ {m} : /\ pc'[n] = pc[n] /\ snap'[n] = snap[n]
                                     /\ cache'[n] = cache[n]
BY MoveFrame DEF TypeOK, Halt, NoPlatform

LEMMA SeedInit == Init => SeedInv
<1> SUFFICES ASSUME Init PROVE SeedInv
  OBVIOUS
<1>1. SeededKnown
  BY DEF Init, SeededKnown, Knows, NoPlatform
<1>2. GitOpsSeeded
  BY DEF Init, GitOpsSeeded, NoPlatform
<1>3. QED
  BY <1>1, <1>2, TypeInit DEF SeedInv

LEMMA HaltSeeds ==
  ASSUME SeedInv, TypeOK', NEW m \in Managers, Halt(m)
  PROVE  SeedInv'
<1>1. SeedKept
  BY KeptByFrame DEF Halt, cluster
<1>2. Knows(m)'
  BY HaltFrame DEF Knows, SeedInv
<1>3. QED
  BY <1>1, <1>2, HaltFrame, OneMoves DEF SeedInv

LEMMA ProcessSeeds ==
  ASSUME SeedInv, TypeOK', NEW m \in Managers,
         Start(m) \/ Submit(m) \/ Deliver(m) \/ Exit(m) \/ Crash(m) \/ Interrupt(m)
  PROVE  SeedInv'
<1> USE DEF SeedInv
<1>1. CASE Start(m)
  <2>1. SeedKept
    BY <1>1, KeptByFrame DEF Start, cluster
  <2>2. Knows(m)'
    BY <1>1, <2>1, MoveFrame, ListWatchFrame
    DEF Start, Knows, SeededKnown, GitOpsSeeded, SeedKept
  <2>3. QED
    BY <1>1, <2>1, <2>2, MoveFrame, ListWatchFrame, OneMoves DEF Start
<1>2. CASE Submit(m)
  <2>1. SeedKept
    BY <1>2, KeptByFrame, PlatformTyped DEF Submit, cluster, TypeOK
  <2>2. Knows(m)'
    BY <1>2, <2>1, OthersKnow DEF Submit
  <2>3. QED
    BY <1>2, <2>1, <2>2, OneMoves DEF Submit
<1>3. CASE Deliver(m)
  <2>1. SeedKept
    BY <1>3, KeptByFrame DEF Deliver, cluster
  <2>2. Knows(m)'
    BY <1>3, <2>1, ListWatchFrame
    DEF Deliver, process, Knows, SeededKnown, GitOpsSeeded, SeedKept
  <2>3. QED
    BY <1>3, <2>1, <2>2, ListWatchFrame, OneMoves DEF Deliver, process
<1>4. CASE Exit(m) \/ Crash(m) \/ Interrupt(m)
  BY <1>4, HaltSeeds DEF Exit, Crash, Interrupt, EndRun
<1>5. QED
  BY <1>1, <1>2, <1>3, <1>4

(* Repositories: created or pushed, never emptied.                         *)
LEMMA PushKeeps ==
  ASSUME TypeOK, NEW m \in Managers, CreateRepositories(m) \/ Populate(m)
  PROVE  /\ Seeded => Seeded'
         /\ repos["packages"] = "seeded" => repos'["packages"] = "seeded"
<1>1. CASE CreateRepositories(m)
  BY <1>1 DEF CreateRepositories, Seeded, Repositories, TypeOK
<1>2. CASE Populate(m)
  BY <1>2 DEF Populate, Seeded, Repositories, TypeOK
<1>3. QED
  BY <1>1, <1>2

LEMMA PassSeeds ==
  ASSUME SeedInv, TypeOK', NEW m \in Managers, Pass(m)
  PROVE  SeedInv'
<1> USE DEF SeedInv
<1>0. Knows(m)
  BY DEF SeededKnown
<1>1. CASE Begin(m)
  <2>1. SeedKept
    BY <1>1, KeptByFrame DEF Begin, cluster
  <2>2. /\ pc'[m] = "enter" /\ snap'[m] = cache[m].flags /\ cache'[m] = cache[m]
        /\ \A n \in Managers \ {m} : /\ pc'[n] = pc[n] /\ snap'[n] = snap[n]
                                    /\ cache'[n] = cache[n]
    BY <1>1, MoveFrame DEF Begin, TypeOK, informer
  <2>3. Knows(m)'
    BY <1>0, <2>1, <2>2 DEF Knows, SeedKept
  <2>4. QED
    BY <2>1, <2>2, <2>3, OneMoves
<1>2. CASE Enter(m)
  <2>1. SeedKept
    BY <1>2, KeptByFrame DEF Enter, cluster
  <2>2. pc'[m] \in {"postExit", "gatewayAPI"} \/ pc'[m] = StackStep(m, snap[m])
    BY <1>2, MoveFrame DEF Enter
  <2>3. Knows(m)'
    BY <1>0, <1>2, <2>1, <2>2, StackStepIs DEF Enter, informer, Knows, SeedKept
  <2>4. QED
    BY <1>2, <2>1, <2>3, MoveFrame, OneMoves DEF Enter, informer
<1>3. CASE InstallPackage(m)
  <2>1. SeedKept
    BY <1>3, KeptByFrame DEF InstallPackage, passive
  <2>2. "repositories" \notin FlagsOf(pc[m])
    BY <1>3 DEF InstallPackage, FlagsOf
  <2>3. pc'[m] \in {"cilium", "gateway", "giteaDB", "gitea", "crossplane"}
    BY <1>3, MoveFrame, ThenIs DEF InstallPackage
  <2>4. Knows(m)'
    BY <1>0, <1>3, <2>1, <2>2, <2>3, LearnFrame
    DEF InstallPackage, passive, informer, Knows, SeedKept
  <2>5. QED
    BY <1>3, <2>1, <2>4, MoveFrame, LearnFrame, OneMoves
    DEF InstallPackage, passive, informer
<1>4. CASE InstallGateway(m)
  <2>1. SeedKept
    BY <1>4, KeptByFrame DEF InstallGateway, passive, TypeOK, LateKinds
  <2>2. pc'[m] \in {"pin", "cnpg", "argocd"}
    BY <1>4, MoveFrame, ThenIs DEF InstallGateway
  <2>3. Knows(m)'
    BY <1>0, <1>4, <2>1, <2>2, LearnFrame
    DEF InstallGateway, passive, informer, Knows, SeedKept
  <2>4. QED
    BY <1>4, <2>1, <2>3, MoveFrame, LearnFrame, OneMoves
    DEF InstallGateway, passive, informer
<1>5. CASE PinNodePorts(m)
  <2>1. SeedKept
    BY <1>5, KeptByFrame DEF PinNodePorts
  <2>2. pc'[m] \in {"cnpg", "argocd"}
    BY <1>5, MoveFrame, ThenIs DEF PinNodePorts
  <2>3. /\ "repositories" \in snap'[m] => "repositories" \in snap[m]
        /\ \A n \in Managers \ {m} : snap'[n] = snap[n]
    BY <1>5, LearnFrame DEF PinNodePorts
  <2>4. Knows(m)'
    BY <1>0, <1>5, <2>1, <2>2, <2>3 DEF PinNodePorts, informer, Knows, SeedKept
  <2>5. QED
    BY <1>5, <2>1, <2>3, <2>4, MoveFrame, OneMoves DEF PinNodePorts, informer
<1>6. CASE InstallDatabase(m)
  <2>1. SeedKept
    BY <1>6, KeptByFrame DEF InstallDatabase, passive
  <2>2. pc'[m] \in {"argocd", "post"} /\ \A n \in Managers \ {m} : pc'[n] = pc[n]
    BY <1>6, MoveFrame, ThenIs DEF InstallDatabase
  <2>3. Knows(m)'
    BY <1>0, <1>6, <2>1, <2>2 DEF InstallDatabase, passive, informer, Knows, SeedKept
  <2>4. QED
    BY <1>6, <2>1, <2>2, <2>3, OneMoves DEF InstallDatabase, passive, informer
<1>7. CASE InstallCrossplane(m)
  <2>1. SeedKept
    BY <1>7, KeptByFrame DEF InstallCrossplane, passive
  <2>2. pc'[m] = "definitions" \/ pc'[m] = StackStep(m, snap[m])
    BY <1>7, MoveFrame DEF InstallCrossplane
  <2>3. Knows(m)'
    BY <1>0, <1>7, <2>1, <2>2, StackStepIs, LearnFrame
    DEF InstallCrossplane, passive, informer, Knows, SeedKept
  <2>4. QED
    BY <1>7, <2>1, <2>3, MoveFrame, LearnFrame, OneMoves
    DEF InstallCrossplane, passive, informer
<1>8. CASE Configure(m)
  <2>1. SeedKept
    BY <1>8, KeptByFrame DEF Configure, Configuration, passive
  <2>2. \/ pc'[m] \in {"providers", "providerConfigs", "operations"}
        \/ pc'[m] = StackStep(m, snap[m])
    BY <1>8, MoveFrame, ThenIs DEF Configure, Configuration
  <2>3. /\ "repositories" \in snap'[m] => "repositories" \in snap[m]
        /\ \A n \in Managers \ {m} : pc'[n] = pc[n] /\ snap'[n] = snap[n]
    BY <1>8, LearnFrame, MoveFrame DEF Configure
  <2>4. Knows(m)'
    BY <1>0, <1>8, <2>1, <2>2, <2>3, StackStepIs
    DEF Configure, passive, informer, Knows, SeedKept
  <2>5. QED
    BY <1>8, <2>1, <2>3, <2>4, OneMoves DEF Configure, passive, informer
<1>9. CASE CreateRepositories(m)
  <2>1. SeedKept
    BY <1>9, PushKeeps DEF CreateRepositories, SeedKept
  <2>2. pc'[m] \in {"packages", "post"} /\ \A n \in Managers \ {m} : pc'[n] = pc[n]
    BY <1>9, MoveFrame, ThenIs DEF CreateRepositories
  <2>3. Knows(m)'
    BY <1>0, <1>9, <2>1, <2>2 DEF CreateRepositories, informer, Knows, SeedKept
  <2>4. QED
    BY <1>9, <2>1, <2>2, <2>3, OneMoves DEF CreateRepositories, informer
<1>10. CASE Populate(m)
  <2>1. SeedKept
    BY <1>10, PushKeeps DEF Populate, SeedKept
  <2>2. /\ pc'[m] \in {"environments", "record", "post"}
        /\ \A n \in Managers \ {m} : pc'[n] = pc[n]
    BY <1>10, MoveFrame, ThenIs DEF Populate, Repositories
  <2>3. pc'[m] = "environments" => repos'["packages"] = "seeded"
    BY <1>10, MoveFrame, ThenIs DEF Populate, Repositories, TypeOK
  <2>4. pc'[m] = "record" => pc[m] = "environments" /\ repos'["environments"] = "seeded"
    BY <1>10, MoveFrame, ThenIs DEF Populate, Repositories, TypeOK
  <2>5. pc'[m] = "record" => Seeded'
    BY <1>0, <2>1, <2>4 DEF Knows, SeedKept, Seeded, Repositories
  <2>6. Knows(m)'
    BY <1>0, <1>10, <2>1, <2>2, <2>3, <2>5 DEF Populate, informer, Knows, SeedKept
  <2>7. QED
    BY <1>10, <2>1, <2>2, <2>6, OneMoves DEF Populate, informer
<1>11. CASE Record(m)
  <2>1. Seeded /\ repos' = repos /\ landed' = landed
    BY <1>0, <1>11 DEF Record, Knows, cluster
  <2>2. Seeded'
    BY <2>1 DEF Seeded
  <2>3. SeedKept
    BY <2>1, <2>2 DEF SeedKept
  <2>4. pc'[m] = "appset"
    BY <1>11, MoveFrame, ThenIs DEF Record
  <2>5. Knows(m)'
    BY <2>2, <2>4 DEF Knows
  <2>6. QED
    BY <1>11, <2>3, <2>5, MoveFrame, LearnFrame, OneMoves DEF Record
<1>12. CASE ApplyStack(m)
  <2>1. Seeded /\ repos' = repos /\ platform' = platform
    BY <1>0, <1>12 DEF ApplyStack, Stack, Knows, passive
  <2>2. Seeded'
    BY <2>1 DEF Seeded
  <2>3. SeedKept
    BY <2>1, <2>2 DEF SeedKept
  <2>4. pc'[m] # "environments"
    BY <1>12, MoveFrame, ThenIs DEF ApplyStack, Stack
  <2>5. Knows(m)'
    BY <2>2, <2>4 DEF Knows
  <2>6. QED
    BY <1>12, <2>3, <2>5, MoveFrame, OneMoves DEF ApplyStack, passive, informer
<1>13. CASE Decide(m)
  <2>1. SeedKept
    BY <1>13, KeptByFrame DEF Decide, cluster
  <2>2. pc'[m] \in {"post", "postExit"}
    BY <1>13, MoveFrame DEF Decide
  <2>3. Knows(m)'
    BY <1>0, <1>13, <2>1, <2>2 DEF Decide, informer, Knows, SeedKept
  <2>4. QED
    BY <1>13, <2>1, <2>3, MoveFrame, OneMoves DEF Decide, informer
<1>14. CASE PostProcess(m)
  <2>1. repos' = repos /\ landed' = landed /\ cache' = cache
    BY <1>14 DEF PostProcess, cluster
  <2>2. platform' = platform \/ platform'.flags = snap[m]
    BY <1>14, PlatformTyped DEF PostProcess, Store, TypeOK
  <2>3. SeedKept
    BY <1>0, <2>1, <2>2 DEF SeedKept, Seeded, Knows
  <2>4. /\ pc'[m] \in {"exit", "idle"} /\ snap'[m] = {}
        /\ \A n \in Managers \ {m} : pc'[n] = pc[n] /\ snap'[n] = snap[n]
    BY <1>14, MoveFrame DEF PostProcess, TypeOK
  <2>5. Knows(m)'
    BY <1>0, <2>1, <2>3, <2>4 DEF Knows, SeedKept
  <2>6. QED
    BY <2>1, <2>3, <2>4, <2>5, OneMoves
<1>15. QED
  BY <1>1, <1>2, <1>3, <1>4, <1>5, <1>6, <1>7, <1>8, <1>9, <1>10, <1>11,
     <1>12, <1>13, <1>14
  DEF Pass

LEMMA CallFailsSeeds ==
  ASSUME SeedInv, TypeOK', NEW m \in Managers, CallFails(m)
  PROVE  SeedInv'
<1> USE DEF SeedInv
<1>0. Knows(m)
  BY DEF SeededKnown
<1>1. SeedKept
  BY KeptByFrame DEF CallFails, cluster
<1>2. \/ pc'[m] \in {"post", "cnpg", "argocd", "idle", "exit"}
      \/ pc'[m] = StackStep(m, snap[m])
      \/ pc'[m] = "appset" /\ pc[m] = "record"
  BY MoveFrame, ThenIs DEF CallFails
<1>3. "repositories" \in snap'[m] => "repositories" \in snap[m] \/ pc[m] = "record"
  BY DEF CallFails, TypeOK
<1>4. \A n \in Managers \ {m} : pc'[n] = pc[n] /\ snap'[n] = snap[n]
  BY MoveFrame DEF CallFails, TypeOK
<1>5. Knows(m)'
  BY <1>0, <1>1, <1>2, <1>3, StackStepIs DEF CallFails, informer, Knows, SeedKept
<1>6. QED
  BY <1>1, <1>4, <1>5, OneMoves DEF CallFails, informer

LEMMA EnvironmentSeeds ==
  ASSUME SeedInv, TypeOK', Environment
  PROVE  SeedInv'
<1>1. SeedKept /\ pc' = pc /\ snap' = snap /\ cache' = cache
  BY KeptByFrame
  DEF Environment, RegisterKind, BringUp, BringDown, ProgramGateway, Remove,
      process, informer
<1>2. SeededKnown'
  BY <1>1 DEF SeedInv, SeededKnown, Knows, SeedKept
<1>3. GitOpsSeeded'
  BY <1>1 DEF SeedInv, GitOpsSeeded, SeedKept
<1>4. QED
  BY <1>2, <1>3 DEF SeedInv

LEMMA SeedStep == SeedInv /\ [Next]_vars => SeedInv'
<1> SUFFICES ASSUME SeedInv, [Next]_vars PROVE SeedInv'
  OBVIOUS
<1>0. TypeOK'
  BY TypeStep DEF SeedInv
<1>1. CASE UNCHANGED vars
  BY <1>0, <1>1
  DEF vars, cluster, informer, process, SeedInv, SeededKnown, Knows, GitOpsSeeded, Seeded
<1>2. ASSUME NEW m \in Managers, Manager(m) PROVE SeedInv'
  BY <1>0, <1>2, ProcessSeeds, PassSeeds, CallFailsSeeds DEF Manager
<1>3. QED
  BY <1>0, <1>1, <1>2, EnvironmentSeeds DEF Next

(* ArgoCD never gets an ApplicationSet, and the platform never records its *)
(* repositories, before both were pushed: with any number of runs and      *)
(* in-cluster managers, lagging caches, lost writes and crashes.           *)
THEOREM RepositoriesFirst == Spec => []GitOpsSeeded
<1>1. SeedInv => GitOpsSeeded
  BY DEF SeedInv
<1>2. QED
  BY <1>1, SeedInit, SeedStep, PTL DEF Spec

-----------------------------------------------------------------------------
(* The foundation comes first.                                             *)

Foundations == {"gatewayAPI", "cilium", "gateway", "cnpg", "giteaDB"}

(* What a step may do to the cluster: nothing of the foundation goes, a    *)
(* core component lands on a whole foundation, the CNI on the Gateway API. *)
OrderKept ==
  /\ landed \cap Foundations \subseteq landed'
  /\ CoreDeployments \cap landed' # {} =>
       CoreDeployments \cap landed # {} \/ Foundation \subseteq landed
  /\ "cilium" \in landed' => "cilium" \in landed \/ "gatewayAPI" \in landed

LEMMA FoundationIs == Foundation \subseteq Foundations
BY DEF Foundation, Foundations

LEMMA OrderedMonotone ==
  ASSUME OrderKept, NEW step, Ordered(step, landed)
  PROVE  Ordered(step, landed')
BY FoundationIs DEF OrderKept, Ordered, Foundations

LEMMA OrderHolds ==
  ASSUME OrderInv, TypeOK', OrderKept,
         \A n \in Managers : Ordered(pc'[n], landed')
  PROVE  OrderInv'
<1>1. Order'
  BY DEF Order
<1>2. FoundationFirst'
  BY FoundationIs DEF OrderInv, FoundationFirst, OrderKept, Foundations
<1>3. QED
  BY <1>1, <1>2 DEF OrderInv

(* A step that moves m alone.                                              *)
LEMMA OneMovesInOrder ==
  ASSUME OrderInv, TypeOK', OrderKept, NEW m \in Managers,
         \A n \in Managers \ {m} : pc'[n] = pc[n],
         Ordered(pc'[m], landed')
  PROVE  OrderInv'
<1>1. \A n \in Managers : Ordered(pc[n], landed)
  BY DEF OrderInv, Order
<1>2. \A n \in Managers : Ordered(pc'[n], landed')
  BY <1>1, OrderedMonotone
<1>3. QED
  BY <1>2, OrderHolds

(* Steps from which nothing is assumed.                                    *)
Free == {"gatewayAPI", "definitions", "providers", "providerConfigs",
         "operations", "create", "packages", "environments", "record",
         "appset", "workload", "down", "idle", "enter", "decide", "exit",
         "post", "postExit"}

LEMMA FreeIsOrdered ==
  ASSUME NEW step \in Free, NEW objects
  PROVE  Ordered(step, objects)
BY DEF Free, Ordered

LEMMA StackStepIsFree == \A m, flags : StackStep(m, flags) \in Free
BY StackStepIs DEF Free

LEMMA OrderInit == Init => OrderInv
<1> SUFFICES ASSUME Init PROVE OrderInv
  OBVIOUS
<1>1. Order
  BY DEF Init, Order, Ordered
<1>2. FoundationFirst
  BY DEF Init, FoundationFirst
<1>3. QED
  BY <1>1, <1>2, TypeInit DEF OrderInv

(* A step that leaves the objects alone and brings m to a free step, or    *)
(* leaves it where it is.                                                  *)
LEMMA FreeMove ==
  ASSUME OrderInv, TypeOK', NEW m \in Managers, landed' = landed,
         pc' = pc \/ \E step \in Free : GoTo(m, step)
  PROVE  OrderInv'
<1>1. OrderKept
  BY DEF OrderKept
<1>2. /\ \A n \in Managers \ {m} : pc'[n] = pc[n]
      /\ pc'[m] = pc[m] \/ pc'[m] \in Free
  BY MoveFrame DEF OrderInv
<1>3. Ordered(pc[m], landed)
  BY DEF OrderInv, Order
<1>4. Ordered(pc'[m], landed')
  BY <1>2, <1>3, FreeIsOrdered
<1>5. QED
  BY <1>1, <1>2, <1>4, OneMovesInOrder

LEMMA ProcessInOrder ==
  ASSUME OrderInv, TypeOK', NEW m \in Managers,
         Start(m) \/ Submit(m) \/ Deliver(m) \/ Exit(m) \/ Crash(m) \/ Interrupt(m)
  PROVE  OrderInv'
<1>1. landed' = landed
  BY DEF Start, Submit, Deliver, Exit, Crash, Interrupt, EndRun, Halt, cluster
<1>2. pc' = pc \/ \E step \in Free : GoTo(m, step)
  BY DEF Start, Submit, Deliver, Exit, Crash, Interrupt, EndRun, Halt, process, Free
<1>3. QED
  BY <1>1, <1>2, FreeMove

LEMMA PassInOrder ==
  ASSUME OrderInv, TypeOK', NEW m \in Managers, Pass(m)
  PROVE  OrderInv'
<1>0. Ordered(pc[m], landed) /\ TypeOK
  BY DEF OrderInv, Order
<1>1. CASE Begin(m) \/ Enter(m) \/ CreateRepositories(m) \/ Populate(m)
           \/ Record(m) \/ Decide(m) \/ PostProcess(m)
  <2>1. landed' = landed
    BY <1>1
    DEF Begin, Enter, CreateRepositories, Populate, Record, Decide,
        PostProcess, cluster
  <2>2. \E step \in Free : GoTo(m, step)
    BY <1>1, ThenIs, StackStepIsFree
    DEF Begin, Enter, CreateRepositories, Populate, Record, Decide,
        PostProcess, Repositories, Free
  <2>3. QED
    BY <2>1, <2>2, FreeMove
<1>2. CASE InstallPackage(m)
  <2>1. /\ landed' = landed \cup {pc[m]} /\ pc'[m] = Then[pc[m]]
        /\ pc[m] \in {"gatewayAPI", "cilium", "cnpg", "argocd", "gitea"}
    BY <1>0, <1>2, MoveFrame DEF InstallPackage
  <2>2. OrderKept
    BY <1>0, <2>1 DEF OrderKept, Ordered, CoreDeployments
  <2>3. Ordered(pc'[m], landed')
    <3>1. CASE pc[m] = "gatewayAPI"
      BY <2>1, <3>1, ThenIs DEF Ordered
    <3>2. CASE pc[m] = "cilium"
      BY <1>0, <2>1, <3>2, ThenIs DEF Ordered
    <3>3. CASE pc[m] = "cnpg"
      BY <1>0, <2>1, <3>3, ThenIs DEF Ordered
    <3>4. CASE pc[m] \in {"argocd", "gitea"}
      BY <1>0, <2>1, <3>4, ThenIs DEF Ordered
    <3>5. QED
      BY <2>1, <3>1, <3>2, <3>3, <3>4
  <2>4. QED
    BY <1>0, <1>2, <2>2, <2>3, MoveFrame, OneMovesInOrder DEF InstallPackage
<1>3. CASE InstallGateway(m)
  <2>1. /\ landed \cup {"gateway"} \subseteq landed'
        /\ landed' \subseteq landed \cup {"gateway", "classConfig"}
        /\ pc[m] = "gateway" /\ pc'[m] = Then["gateway"]
    BY <1>0, <1>3, MoveFrame DEF InstallGateway
  <2>2. OrderKept
    BY <2>1 DEF OrderKept, CoreDeployments
  <2>3. {"gatewayAPI", "cilium", "gateway"} \subseteq landed'
    BY <1>0, <2>1 DEF Ordered
  <2>4. Ordered(pc'[m], landed')
    BY <2>1, <2>3, ThenIs DEF Ordered, Foundation
  <2>5. QED
    BY <1>0, <1>3, <2>2, <2>4, MoveFrame, OneMovesInOrder DEF InstallGateway
<1>4. CASE PinNodePorts(m)
  <2>1. landed' = landed /\ pc[m] = "pin" /\ pc'[m] = Then["pin"]
    BY <1>0, <1>4, MoveFrame DEF PinNodePorts
  <2>2. OrderKept
    BY <2>1 DEF OrderKept
  <2>3. Ordered(pc'[m], landed')
    BY <1>0, <2>1, ThenIs DEF Ordered, Foundation
  <2>4. QED
    BY <1>0, <1>4, <2>2, <2>3, MoveFrame, OneMovesInOrder DEF PinNodePorts
<1>5. CASE InstallDatabase(m)
  <2>1. pc[m] = "giteaDB"
    BY <1>5 DEF InstallDatabase
  <2>2. \/ landed' = landed \cup {"giteaDB"} /\ pc'[m] = "argocd"
        \/ landed' = landed /\ pc'[m] = "post"
    BY <1>0, <1>5, MoveFrame, ThenIs DEF InstallDatabase
  <2>3. OrderKept
    BY <2>2 DEF OrderKept, CoreDeployments
  <2>4. Ordered(pc'[m], landed')
    BY <1>0, <2>1, <2>2 DEF Ordered, Foundation
  <2>5. \A n \in Managers \ {m} : pc'[n] = pc[n]
    BY <1>0, <1>5, MoveFrame DEF InstallDatabase
  <2>6. QED
    BY <2>3, <2>4, <2>5, OneMovesInOrder
<1>6. CASE InstallCrossplane(m)
  <2>1. landed' = landed \cup {"crossplane"} /\ pc[m] = "crossplane"
    BY <1>6 DEF InstallCrossplane
  <2>2. OrderKept
    BY <1>0, <2>1 DEF OrderKept, Ordered
  <2>3. pc'[m] \in Free /\ \A n \in Managers \ {m} : pc'[n] = pc[n]
    BY <1>0, <1>6, MoveFrame, StackStepIsFree DEF InstallCrossplane, Free
  <2>4. QED
    BY <2>2, <2>3, FreeIsOrdered, OneMovesInOrder
<1>7. CASE Configure(m) \/ ApplyStack(m)
  <2>1. \E o \in Configuration \cup Stack : landed' \in {landed, landed \cup {o}}
    BY <1>7 DEF Configure, ApplyStack
  <2>2. OrderKept
    BY <2>1 DEF OrderKept, Configuration, Stack, CoreDeployments
  <2>3. \E step \in Free : GoTo(m, step)
    BY <1>7, ThenIs, StackStepIsFree
    DEF Configure, ApplyStack, Configuration, Stack, Free
  <2>4. pc'[m] \in Free /\ \A n \in Managers \ {m} : pc'[n] = pc[n]
    BY <1>0, <2>3, MoveFrame
  <2>5. QED
    BY <2>2, <2>4, FreeIsOrdered, OneMovesInOrder
<1>8. QED
  BY <1>1, <1>2, <1>3, <1>4, <1>5, <1>6, <1>7 DEF Pass

LEMMA CallFailsInOrder ==
  ASSUME OrderInv, TypeOK', NEW m \in Managers, CallFails(m)
  PROVE  OrderInv'
<1>1. landed' = landed
  BY DEF CallFails, cluster
<1>2. CASE pc[m] = "pin"
  <2>1. pc'[m] = Then["pin"] /\ \A n \in Managers \ {m} : pc'[n] = pc[n]
    BY <1>2, MoveFrame
    DEF CallFails, OrderInv, Packages, Configuration, Repositories, Stack
  <2>2. Ordered("pin", landed)
    BY <1>2 DEF OrderInv, Order
  <2>3. Ordered(pc'[m], landed')
    BY <1>1, <2>1, <2>2, ThenIs DEF Ordered, Foundation
  <2>4. OrderKept
    BY <1>1 DEF OrderKept
  <2>5. QED
    BY <2>1, <2>3, <2>4, OneMovesInOrder
<1>3. CASE pc[m] # "pin"
  <2>1. \E step \in Free : GoTo(m, step)
    BY <1>3, ThenIs, StackStepIsFree DEF CallFails, Free
  <2>2. QED
    BY <1>1, <2>1, FreeMove
<1>4. QED
  BY <1>2, <1>3

LEMMA EnvironmentInOrder ==
  ASSUME OrderInv, TypeOK', Environment
  PROVE  OrderInv'
<1>1. pc' = pc
  BY DEF Environment, RegisterKind, BringUp, BringDown, ProgramGateway, Remove,
         process
<1>2. landed' \subseteq landed /\ landed \cap Foundations \subseteq landed'
  BY ConstantsAssumption
  DEF Environment, RegisterKind, BringUp, BringDown, ProgramGateway, Remove,
      Foundations
<1>3. OrderKept
  BY <1>2 DEF OrderKept
<1>4. \A n \in Managers : Ordered(pc[n], landed)
  BY DEF OrderInv, Order
<1>5. \A n \in Managers : Ordered(pc'[n], landed')
  BY <1>1, <1>3, <1>4, OrderedMonotone
<1>6. QED
  BY <1>3, <1>5, OrderHolds

LEMMA OrderStep == OrderInv /\ [Next]_vars => OrderInv'
<1> SUFFICES ASSUME OrderInv, [Next]_vars PROVE OrderInv'
  OBVIOUS
<1>0. TypeOK'
  BY TypeStep DEF OrderInv
<1>1. CASE UNCHANGED vars
  BY <1>0, <1>1 DEF vars, cluster, process, OrderInv, Order, FoundationFirst
<1>2. ASSUME NEW m \in Managers, Manager(m) PROVE OrderInv'
  BY <1>0, <1>2, ProcessInOrder, PassInOrder, CallFailsInOrder DEF Manager
<1>3. QED
  BY <1>0, <1>1, <1>2, EnvironmentInOrder DEF Next

(* ArgoCD, Gitea and Crossplane are installed only on the whole network    *)
(* and database foundation, whatever passes are interrupted and whichever  *)
(* processes run them.                                                     *)
THEOREM InstalledInOrder == Spec => []FoundationFirst
<1>1. OrderInv => FoundationFirst
  BY DEF OrderInv
<1>2. QED
  BY <1>1, OrderInit, OrderStep, PTL DEF Spec

-----------------------------------------------------------------------------
(* The controller implements PlatformBootstrap.                            *)

(* Before the object is written no pass runs and no cache holds it.        *)
NothingBefore ==
  /\ submitted # {} => platform.created
  /\ \A m \in Managers : pc[m] \notin {"down", "idle"} \/ cache[m].created =>
                           platform.created

UpHasLanded == up \subseteq landed

BootInv == NothingBefore /\ UpHasLanded

LEMMA BootInvInit == Init => BootInv
BY DEF Init, BootInv, NothingBefore, UpHasLanded, NoPlatform

(* The object is never deleted, and only passes that run go on.            *)
LEMMA CreatedStays ==
  ASSUME TypeOK, [Next]_vars
  PROVE  platform.created => platform'.created
<1> USE DEF TypeOK, Platform
<1>1. ASSUME NEW m \in Managers, NEW flags, Store(m, [platform EXCEPT !.flags = flags])
      PROVE  platform.created => platform'.created
  BY <1>1 DEF Store
<1>2. CASE \E m \in Managers : Submit(m)
  BY <1>2 DEF Submit
<1>3. CASE \E m \in Managers : Record(m) \/ PostProcess(m)
  BY <1>1, <1>3 DEF Record, PostProcess
<1>4. CASE platform' = platform
  BY <1>4
<1>5. QED
  BY <1>2, <1>3, <1>4
  DEF Next, vars, Manager, Start, Deliver, Pass, Begin, Enter, InstallPackage,
      InstallGateway, PinNodePorts, InstallDatabase, InstallCrossplane,
      Configure, CreateRepositories, Populate, ApplyStack, Decide, Exit,
      EndRun, Halt, CallFails, Crash, Interrupt, Environment, RegisterKind,
      BringUp, BringDown, ProgramGateway, Remove, passive

LEMMA BegunIsCreated ==
  ASSUME TypeOK, NothingBefore, [Next]_vars
  PROVE  NothingBefore'
<1>c. platform.created => platform'.created
  BY CreatedStays
<1>1. CASE platform'.created
  BY <1>1 DEF NothingBefore
<1>2. CASE ~platform'.created
  <2>1. /\ submitted = {} /\ ~platform.created
        /\ \A m \in Managers : pc[m] \in {"down", "idle"} /\ ~cache[m].created
    BY <1>c, <1>2 DEF NothingBefore
  <2>2. ASSUME NEW m \in Managers, Start(m)
        PROVE  /\ submitted' = {}
               /\ \A n \in Managers : pc'[n] \in {"down", "idle"} /\ ~cache'[n].created
    BY <2>1, <2>2, MoveFrame, ListWatchFrame DEF Start
  <2>3. ASSUME NEW m \in Managers, Deliver(m)
        PROVE  /\ submitted' = {}
               /\ \A n \in Managers : pc'[n] \in {"down", "idle"} /\ ~cache'[n].created
    BY <2>1, <2>3, ListWatchFrame DEF Deliver, process
  <2>4. ASSUME NEW m \in Managers, Exit(m) \/ Crash(m) \/ Interrupt(m)
        PROVE  /\ submitted' = {}
               /\ \A n \in Managers : pc'[n] \in {"down", "idle"} /\ ~cache'[n].created
    <3>1. Halt(m) /\ submitted' = {}
      BY <2>1, <2>4 DEF Exit, Crash, Interrupt, EndRun
    <3>2. ~cache'[m].created
      BY <3>1 DEF Halt, TypeOK, NoPlatform
    <3>3. QED
      BY <2>1, <3>1, <3>2, HaltFrame
  <2>5. ASSUME NEW m \in Managers, Submit(m)
        PROVE  FALSE
    BY <1>2, <2>5 DEF Submit, TypeOK, Platform
  <2>6. ASSUME NEW m \in Managers, Pass(m) \/ CallFails(m)
        PROVE  FALSE
    BY <2>1, <2>6
    DEF Pass, Begin, Enter, InstallPackage, InstallGateway, PinNodePorts,
        InstallDatabase, InstallCrossplane, Configure, CreateRepositories,
        Populate, Record, ApplyStack, Decide, PostProcess, CallFails,
        Packages, Configuration, Repositories, Stack, Ends
  <2>7. CASE Environment \/ UNCHANGED vars
    BY <2>1, <2>7
    DEF Environment, RegisterKind, BringUp, BringDown, ProgramGateway, Remove,
        process, informer, vars, NothingBefore
  <2>8. QED
    BY <2>2, <2>3, <2>4, <2>5, <2>6, <2>7 DEF Next, Manager, NothingBefore
<1>3. QED
  BY <1>1, <1>2

LEMMA UpStays ==
  ASSUME UpHasLanded, [Next]_vars
  PROVE  UpHasLanded'
<1>1. CASE Environment
  BY <1>1
  DEF Environment, RegisterKind, BringUp, BringDown, ProgramGateway, Remove,
      UpHasLanded
<1>2. CASE (\E m \in Managers : Manager(m)) \/ UNCHANGED vars
  <2>1. up' = up /\ landed \subseteq landed'
    BY <1>2
    DEF vars, Manager, Start, Submit, Deliver, Pass, Begin, Enter,
        InstallPackage, InstallGateway, PinNodePorts, InstallDatabase,
        InstallCrossplane, Configure, CreateRepositories, Populate, Record,
        ApplyStack, Decide, PostProcess, Exit, EndRun, Halt, CallFails, Crash,
        Interrupt, passive, cluster
  <2>2. QED
    BY <2>1 DEF UpHasLanded
<1>3. QED
  BY <1>1, <1>2 DEF Next

LEMMA BootInvStep == TypeOK /\ BootInv /\ [Next]_vars => BootInv'
BY BegunIsCreated, UpStays DEF BootInv

(* What the proof of a step knows of the state it starts from and, of      *)
(* seeding and order, of the one it reaches.                               *)
Known == SeedInv /\ OrderInv /\ BootInv /\ SeedInv' /\ OrderInv'

Outside == UNCHANGED <<platform, landed, repos, handedOver>>

(* Who has decided to exit, when m moves.                                  *)
LEMMA ExitingFrame ==
  ASSUME TypeOK, NEW m \in Managers, NEW step, GoTo(m, step)
  PROVE  /\ m \in Clis /\ step \in {"postExit", "exit"} => Exiting' = Exiting \cup {m}
         /\ ~(m \in Clis /\ step \in {"postExit", "exit"}) => Exiting' = Exiting \ {m}
BY MoveFrame DEF Exiting, Clis

LEMMA NotExiting ==
  ASSUME TypeOK, NEW m \in Managers, NEW step, GoTo(m, step),
         pc[m] \notin {"postExit", "exit"}, step \notin {"postExit", "exit"}
  PROVE  Exiting' = Exiting
<1>1. m \notin Exiting
  BY DEF Exiting
<1>2. QED
  BY <1>1, ExitingFrame

(* A step that the abstract state does not show.                           *)
LEMMA Unseen ==
  ASSUME Outside, Exiting' = Exiting
  PROVE  UNCHANGED Boot!bootVars
BY DEF Outside, Boot!bootVars

(* Objects land one manifest at a time: the gateway may bring its class    *)
(* configuration with it.                                                  *)
LEMMA LandingBoots ==
  ASSUME Known, platform.created, NEW o \in Objects,
         landed \subseteq landed', landed' \subseteq landed \cup {o, "classConfig"},
         UNCHANGED <<platform, repos, handedOver>>, Exiting' = Exiting
  PROVE  [Boot!BootNext]_(Boot!bootVars)
<1> USE DEF Boot!BootNext, Boot!bootVars
<1>1. CASE o \in CoreDeployments
  <2>1. CASE o \in landed'
    <3>1. Foundation \subseteq landed'
      BY <1>1, <2>1 DEF Known, OrderInv, FoundationFirst
    <3>2. Foundation \subseteq landed
      BY <1>1, <3>1 DEF Foundation, CoreDeployments
    <3>3. CoreDeployments \cap landed' = (CoreDeployments \cap landed) \cup {o}
      BY <1>1, <2>1 DEF CoreDeployments
    <3>4. Stack \cap landed' = Stack \cap landed
      BY <1>1 DEF CoreDeployments, Stack
    <3>5. QED
      BY <1>1, <3>1, <3>2, <3>3, <3>4 DEF Boot!Install
  <2>2. CASE o \notin landed'
    <3>1. landed' \subseteq landed \cup {"classConfig"}
      BY <2>2
    <3>2. /\ CoreDeployments \cap landed' = CoreDeployments \cap landed
          /\ Stack \cap landed' = Stack \cap landed
          /\ (Foundation \subseteq landed') <=> (Foundation \subseteq landed)
      BY <3>1 DEF CoreDeployments, Stack, Foundation
    <3>3. QED
      BY <3>2
  <2>3. QED
    BY <2>1, <2>2
<1>2. CASE o \in Stack
  <2>1. /\ CoreDeployments \cap landed' = CoreDeployments \cap landed
        /\ (Foundation \subseteq landed') <=> (Foundation \subseteq landed)
    BY <1>2 DEF CoreDeployments, Stack, Foundation
  <2>2. CASE o \in landed'
    <3>1. Seeded'
      BY <1>2, <2>2 DEF Known, SeedInv, GitOpsSeeded, Stack
    <3>2. {r \in Repositories : repos[r] = "seeded"} = Repositories
      BY <3>1 DEF Seeded
    <3>3. Stack \cap landed' = (Stack \cap landed) \cup {o}
      BY <1>2, <2>2 DEF Stack
    <3>4. QED
      BY <1>2, <2>1, <3>2, <3>3 DEF Boot!Generate
  <2>3. CASE o \notin landed'
    <3>1. Stack \cap landed' = Stack \cap landed
      BY <2>3 DEF Stack
    <3>2. QED
      BY <2>1, <3>1
  <2>4. QED
    BY <2>2, <2>3
<1>3. CASE o \notin CoreDeployments \cup Stack
  <2>1. /\ CoreDeployments \cap landed' = CoreDeployments \cap landed
        /\ Stack \cap landed' = Stack \cap landed
    BY <1>3 DEF CoreDeployments, Stack
  <2>2. CASE Foundation \subseteq landed'
    BY <2>1, <2>2 DEF Boot!Lay
  <2>3. CASE ~(Foundation \subseteq landed')
    <3>1. ~(Foundation \subseteq landed)
      BY <2>3
    <3>2. QED
      BY <2>1, <2>3, <3>1
  <2>4. QED
    BY <2>2, <2>3
<1>4. QED
  BY <1>1, <1>2, <1>3

(* Only the Gitea that runs takes a push, and what runs has landed.        *)
LEMMA PushBoots ==
  ASSUME Known, NEW m \in Managers, CreateRepositories(m) \/ Populate(m)
  PROVE  [Boot!BootNext]_(Boot!bootVars)
<1> USE DEF Boot!BootNext, Boot!bootVars
<1> DEFINE Pushed == {r \in Repositories : repos[r] = "seeded"}
<1>t. TypeOK
  BY DEF Known, SeedInv
<1>1. UNCHANGED <<platform, landed, handedOver>>
  BY DEF CreateRepositories, Populate
<1>2. Exiting' = Exiting
  BY <1>t, NotExiting, ThenIs DEF CreateRepositories, Populate, Repositories
<1>3. CASE repos' = repos
  BY <1>1, <1>2, <1>3
<1>4. CASE CreateRepositories(m) /\ repos' # repos
  <2>1. \A r \in Repositories : repos'[r] = "seeded" <=> repos[r] = "seeded"
    BY <1>4 DEF CreateRepositories
  <2>2. QED
    BY <1>1, <1>2, <2>1
<1>5. CASE Populate(m) /\ repos' # repos
  <2>1. /\ pc[m] \in Repositories /\ "gitea" \in up
        /\ repos' = [repos EXCEPT ![pc[m]] = "seeded"]
    BY <1>5 DEF Populate
  <2>2. platform.created /\ "gitea" \in CoreDeployments \cap landed
    BY <2>1
    DEF Known, BootInv, NothingBefore, UpHasLanded, Repositories, CoreDeployments
  <2>3. Pushed' = Pushed \cup {pc[m]}
    BY <1>t, <2>1 DEF TypeOK
  <2>4. QED
    BY <1>1, <1>2, <2>1, <2>2, <2>3 DEF Boot!Publish
<1>6. QED
  BY <1>3, <1>4, <1>5

(* The status is written: the record appears only when all is pushed.      *)
LEMMA ReportBoots ==
  ASSUME Known, UNCHANGED <<landed, repos, handedOver>>, Exiting' = Exiting,
         platform'.created = platform.created
  PROVE  [Boot!BootNext]_(Boot!bootVars)
<1>1. "repositories" \in platform'.flags => Seeded'
  BY DEF Known, SeedInv, GitOpsSeeded
<1>2. "repositories" \in platform'.flags =>
        {r \in Repositories : repos[r] = "seeded"} = Repositories
  BY <1>1 DEF Seeded
<1>3. QED
  BY <1>2 DEF Boot!BootNext, Boot!bootVars, Boot!Report

(* A run that finds the platform deployed finds all of it.                 *)
LEMMA FinishBoots ==
  ASSUME Known, NEW m \in Clis, platform.created, AlreadyDeployed,
         pc[m] \in {"enter", "decide"}, GoTo(m, "postExit"), Outside
  PROVE  [Boot!BootNext]_(Boot!bootVars)
<1>1. /\ CoreDeployments \cap landed = CoreDeployments
      /\ Stack \cap landed # {}
  BY DEF AlreadyDeployed, Known, BootInv, UpHasLanded, Stack
<1>2. Foundation \subseteq landed
  BY <1>1 DEF Known, OrderInv, FoundationFirst, CoreDeployments
<1>3. {r \in Repositories : repos[r] = "seeded"} = Repositories
  BY DEF AlreadyDeployed, Known, SeedInv, GitOpsSeeded, Seeded
<1>4. Exiting' = Exiting \cup {m} /\ m \notin Exiting
  BY ExitingFrame DEF Known, SeedInv, Exiting, Clis
<1>5. Boot!Whole
  BY <1>1, <1>2, <1>3 DEF Boot!Whole
<1>6. Boot!Finish
  BY <1>4, <1>5 DEF Boot!Finish, Outside
<1>7. QED
  BY <1>6 DEF Boot!BootNext

(* A run that ends leaves; the manager it deploys has an object to         *)
(* reconcile, for only a run that wrote it deploys one.                    *)
LEMMA LeavingBoots ==
  ASSUME Known, NEW m \in Managers, Exit(m) \/ Crash(m) \/ Interrupt(m)
  PROVE  [Boot!BootNext]_(Boot!bootVars)
<1>t. TypeOK
  BY DEF Known, SeedInv
<1>1. Halt(m) /\ UNCHANGED <<platform, landed, repos>>
  BY DEF Exit, Crash, Interrupt, EndRun, Halt, cluster
<1>2. Exiting' = Exiting \ {m}
  BY <1>t, <1>1, ExitingFrame DEF Halt
<1>3. handedOver' = handedOver \/ handedOver' = (handedOver \/ m \in submitted)
  BY DEF Exit, Crash, Interrupt, EndRun
<1>4. m \in submitted => m \in Clis /\ platform.created
  BY <1>t DEF TypeOK, Known, BootInv, NothingBefore
<1>5. CASE m \in Clis
  <2>1. /\ handedOver' => handedOver \/ platform.created
        /\ handedOver => handedOver'
    <3>1. handedOver \in BOOLEAN
      BY <1>t DEF TypeOK
    <3>2. CASE handedOver' = handedOver
      BY <3>1, <3>2
    <3>3. CASE handedOver' = (handedOver \/ m \in submitted)
      BY <1>4, <3>1, <3>3
    <3>4. QED
      BY <1>3, <3>2, <3>3
  <2>2. Boot!Leave
    BY <1>1, <1>2, <1>5, <2>1 DEF Boot!Leave
  <2>3. QED
    BY <2>2 DEF Boot!BootNext
<1>6. CASE m \notin Clis
  <2>1. m \notin Exiting /\ handedOver' = handedOver
    BY <1>t, <1>3, <1>4, <1>6 DEF Exiting, TypeOK
  <2>2. QED
    BY <1>1, <1>2, <2>1, Unseen DEF Outside
<1>7. QED
  BY <1>5, <1>6

LEMMA ProcessBoots ==
  ASSUME Known, NEW m \in Managers,
         Start(m) \/ Submit(m) \/ Deliver(m) \/ Exit(m) \/ Crash(m) \/ Interrupt(m)
  PROVE  [Boot!BootNext]_(Boot!bootVars)
<1>t. TypeOK
  BY DEF Known, SeedInv
<1>1. CASE Start(m)
  <2>1. Exiting' = Exiting
    BY <1>t, <1>1, NotExiting DEF Start
  <2>2. Outside
    BY <1>1 DEF Start, Outside, cluster
  <2>3. QED
    BY <2>1, <2>2, Unseen
<1>2. CASE Submit(m)
  <2>1. /\ platform'.created /\ platform'.flags = platform.flags
        /\ UNCHANGED <<landed, repos, handedOver>> /\ Exiting' = Exiting
    BY <1>t, <1>2 DEF Submit, cluster, TypeOK, Platform, Exiting
  <2>2. Boot!Ask
    BY <2>1 DEF Boot!Ask
  <2>3. QED
    BY <2>2 DEF Boot!BootNext
<1>3. CASE Deliver(m)
  BY <1>3, Unseen DEF Deliver, cluster, process, Outside, Exiting
<1>4. QED
  BY <1>1, <1>2, <1>3, LeavingBoots

LEMMA PassBoots ==
  ASSUME Known, NEW m \in Managers, Pass(m)
  PROVE  [Boot!BootNext]_(Boot!bootVars)
<1>t. TypeOK
  BY DEF Known, SeedInv
<1>n. StackStep(m, snap[m]) \notin {"postExit", "exit"}
  BY StackStepIs
<1>c. pc[m] \notin {"down", "idle"} => platform.created
  BY DEF Known, BootInv, NothingBefore
<1>1. CASE Begin(m)
  BY <1>t, <1>1, NotExiting, Unseen DEF Begin, cluster, Outside
<1>2. CASE Enter(m) \/ Decide(m)
  <2>1. Outside /\ pc[m] \in {"enter", "decide"}
    BY <1>2 DEF Enter, Decide, Outside, cluster
  <2>2. \/ m \in Clis /\ AlreadyDeployed /\ GoTo(m, "postExit")
        \/ \E step \in {"gatewayAPI", "post", StackStep(m, snap[m])} : GoTo(m, step)
    BY <1>2 DEF Enter, Decide
  <2>3. CASE m \in Clis /\ AlreadyDeployed /\ GoTo(m, "postExit")
    BY <1>c, <2>1, <2>3, FinishBoots
  <2>4. CASE \E step \in {"gatewayAPI", "post", StackStep(m, snap[m])} : GoTo(m, step)
    BY <1>t, <1>n, <2>1, <2>4, NotExiting, Unseen
  <2>5. QED
    BY <2>2, <2>3, <2>4
<1>3. CASE InstallPackage(m)
  <2>1. Exiting' = Exiting
    BY <1>t, <1>3, ThenIs, NotExiting DEF InstallPackage
  <2>2. platform.created /\ pc[m] \in Objects /\ landed' = landed \cup {pc[m]}
    BY <1>c, <1>3 DEF InstallPackage, Objects, Packages
  <2>3. QED
    BY <1>3, <2>1, <2>2, LandingBoots DEF InstallPackage, passive
<1>4. CASE InstallGateway(m)
  <2>1. Exiting' = Exiting
    BY <1>t, <1>4, ThenIs, NotExiting DEF InstallGateway
  <2>2. /\ platform.created /\ landed \subseteq landed'
        /\ landed' \subseteq landed \cup {"gateway", "classConfig"}
    BY <1>c, <1>4 DEF InstallGateway
  <2>3. "gateway" \in Objects
    BY DEF Objects, Packages
  <2>4. QED
    BY <1>4, <2>1, <2>2, <2>3, LandingBoots DEF InstallGateway, passive
<1>5. CASE PinNodePorts(m)
  BY <1>t, <1>5, ThenIs, NotExiting, Unseen DEF PinNodePorts, Outside
<1>6. CASE InstallDatabase(m)
  <2>1. Exiting' = Exiting
    BY <1>t, <1>6, ThenIs, NotExiting DEF InstallDatabase
  <2>2. /\ platform.created /\ landed \subseteq landed'
        /\ landed' \subseteq landed \cup {"giteaDB"} /\ "giteaDB" \in Objects
    BY <1>c, <1>6 DEF InstallDatabase, Objects, Packages
  <2>3. QED
    BY <1>6, <2>1, <2>2, LandingBoots DEF InstallDatabase, passive
<1>7. CASE InstallCrossplane(m)
  <2>1. Exiting' = Exiting
    BY <1>t, <1>n, <1>7, NotExiting DEF InstallCrossplane
  <2>2. /\ platform.created /\ landed' = landed \cup {"crossplane"}
        /\ "crossplane" \in Objects
    BY <1>c, <1>7 DEF InstallCrossplane, Objects, Packages
  <2>3. QED
    BY <1>7, <2>1, <2>2, LandingBoots DEF InstallCrossplane, passive
<1>8. CASE Configure(m)
  <2>1. Exiting' = Exiting
    BY <1>t, <1>n, <1>8, ThenIs, NotExiting DEF Configure, Configuration
  <2>2. /\ platform.created /\ landed \subseteq landed'
        /\ landed' \subseteq landed \cup {pc[m]} /\ pc[m] \in Objects
    BY <1>c, <1>8 DEF Configure, Objects, Configuration
  <2>3. QED
    BY <1>8, <2>1, <2>2, LandingBoots DEF Configure, passive
<1>9. CASE CreateRepositories(m) \/ Populate(m)
  BY <1>9, PushBoots
<1>10. CASE Record(m)
  <2>1. Exiting' = Exiting
    BY <1>t, <1>10, ThenIs, NotExiting DEF Record
  <2>2. platform'.created = platform.created
    BY <1>t, <1>10 DEF Record, Store, TypeOK, Platform
  <2>3. QED
    BY <1>10, <2>1, <2>2, ReportBoots DEF Record, cluster
<1>11. CASE ApplyStack(m)
  <2>1. Exiting' = Exiting
    BY <1>t, <1>11, ThenIs, NotExiting DEF ApplyStack, Stack
  <2>2. platform.created /\ pc[m] \in Objects /\ landed' = landed \cup {pc[m]}
    BY <1>c, <1>11 DEF ApplyStack, Objects, Stack
  <2>3. QED
    BY <1>11, <2>1, <2>2, LandingBoots DEF ApplyStack, passive
<1>12. CASE PostProcess(m)
  <2>1. \/ pc[m] = "post" /\ GoTo(m, "idle")
        \/ pc[m] = "postExit" /\ GoTo(m, "exit")
    BY <1>12 DEF PostProcess, Ends
  <2>2. Exiting' = Exiting
    BY <1>t, <2>1, NotExiting, ExitingFrame DEF Exiting
  <2>3. platform'.created = platform.created
    BY <1>t, <1>12 DEF PostProcess, Store, TypeOK, Platform
  <2>4. QED
    BY <1>12, <2>2, <2>3, ReportBoots DEF PostProcess, cluster
<1>13. QED
  BY <1>1, <1>2, <1>3, <1>4, <1>5, <1>6, <1>7, <1>8, <1>9, <1>10, <1>11, <1>12
  DEF Pass

LEMMA CallFailsBoots ==
  ASSUME Known, NEW m \in Managers, CallFails(m)
  PROVE  [Boot!BootNext]_(Boot!bootVars)
<1>t. TypeOK
  BY DEF Known, SeedInv
<1>1. Outside
  BY DEF CallFails, Outside, cluster
<1>2. CASE pc[m] = "postExit"
  <2>1. GoTo(m, "exit")
    BY <1>2 DEF CallFails, Packages, Configuration, Repositories, Stack
  <2>2. Exiting' = Exiting
    BY <1>t, <1>2, <2>1, ExitingFrame DEF Exiting
  <2>3. QED
    BY <1>1, <2>2, Unseen
<1>3. CASE pc[m] # "postExit"
  <2>1. /\ pc[m] # "exit"
        /\ \/ \E step \in {"post", "idle", "appset", "cnpg", "argocd"} : GoTo(m, step)
           \/ GoTo(m, StackStep(m, snap[m]))
    BY <1>3, ThenIs
    DEF CallFails, Packages, Configuration, Repositories, Stack
  <2>2. Exiting' = Exiting
    BY <1>t, <1>3, <2>1, StackStepIs, NotExiting
  <2>3. QED
    BY <1>1, <2>2, Unseen
<1>4. QED
  BY <1>2, <1>3

LEMMA EnvironmentBoots ==
  ASSUME Known, Environment
  PROVE  [Boot!BootNext]_(Boot!bootVars)
<1>1. Exiting' = Exiting /\ UNCHANGED <<platform, repos, handedOver>>
  BY DEF Environment, RegisterKind, BringUp, BringDown, ProgramGateway, Remove,
         process, Exiting
<1>2. CASE landed' = landed
  BY <1>1, <1>2, Unseen DEF Outside
<1>3. CASE Remove
  <2>1. /\ landed' \subseteq landed
        /\ (Foundation \subseteq landed') <=> (Foundation \subseteq landed)
    BY <1>3, ConstantsAssumption DEF Remove, Foundation
  <2>2. Boot!Lose
    BY <1>1, <2>1 DEF Boot!Lose
  <2>3. QED
    BY <2>2 DEF Boot!BootNext
<1>4. QED
  BY <1>2, <1>3 DEF Environment, RegisterKind, BringUp, BringDown, ProgramGateway

LEMMA BootStep == Known /\ [Next]_vars => [Boot!BootNext]_(Boot!bootVars)
<1> SUFFICES ASSUME Known, [Next]_vars PROVE [Boot!BootNext]_(Boot!bootVars)
  OBVIOUS
<1>1. CASE UNCHANGED vars
  BY <1>1, Unseen DEF vars, cluster, process, Outside, Exiting
<1>2. ASSUME NEW m \in Managers, Manager(m)
      PROVE  [Boot!BootNext]_(Boot!bootVars)
  BY <1>2, ProcessBoots, PassBoots, CallFailsBoots DEF Manager
<1>3. QED
  BY <1>1, <1>2, EnvironmentBoots DEF Next

LEMMA BootStart == Init => Boot!BootInit
BY DEF Init, NoPlatform, Boot!BootInit, Foundation, Exiting, Clis

(* Every installation is one PlatformBootstrap describes: whatever passes  *)
(* are interrupted, whoever else acts, and however stale their copies, a   *)
(* run of the CLI exits of its own accord only from a whole platform, and  *)
(* nothing appears before what it stands on.                               *)
THEOREM BootstrapImplemented == Spec => ImplementsBootstrap
<1>1. Init => SeedInv /\ OrderInv /\ BootInv
  BY SeedInit, OrderInit, BootInvInit
<1>2. SeedInv /\ OrderInv /\ BootInv /\ [Next]_vars =>
        SeedInv' /\ OrderInv' /\ BootInv'
  BY SeedStep, OrderStep, BootInvStep DEF SeedInv
<1>3. SeedInv /\ OrderInv /\ BootInv /\ SeedInv' /\ OrderInv' /\ [Next]_vars =>
        [Boot!BootNext]_(Boot!bootVars)
  BY BootStep DEF Known
<1>4. QED
  BY <1>1, <1>2, <1>3, BootStart, PTL DEF Spec, ImplementsBootstrap, Boot!BootSpec

=============================================================================
