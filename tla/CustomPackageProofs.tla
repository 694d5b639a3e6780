---- MODULE CustomPackageProofs ----
(***************************************************************************)
(* Proofs about CustomPackage, for any number of repositories, packages,   *)
(* sources, edits, faults and restarts.                                    *)
(***************************************************************************)
EXTENDS CustomPackage, TLAPS

USE DEF clones, objects, gitVars, pkgVars

-----------------------------------------------------------------------------
(* Types, and what the stage of a worker says about what it works on *)

GitWorks ==
    /\ git.at # "idle" => git.repo \in Repos
    /\ git.at \in {"lockSource", "copySource"} => Mirrors(git.repo)
    /\ git.at \in {"write", "commit", "push"} => clone[git.repo] # NoClone

PkgWorks ==
    /\ pkg.at # "idle" => pkg.pkg \in Packages
    /\ pkg.at = "lock" => Origin[pkg.pkg] \in Urls
    /\ pkg.at \in {"lock", "read"} => pkg.urls = <<>>
    /\ pkg.at = "source" => Len(pkg.urls) < Len(Sources[pkg.pkg])
    /\ pkg.at = "apply" => Len(pkg.urls) = Len(Sources[pkg.pkg])

TypeInv == TypeOK /\ GitWorks /\ PkgWorks

LEMMA InitTyped == Init => TypeInv
<1> SUFFICES ASSUME Init PROVE TypeInv
  OBVIOUS
<1> USE SourceAssumption, NamesApart, PackageAssumption DEF Init, GitInit
<1>1. GitTypeOK
  BY DEF GitTypeOK, Tree, Status, Stages, Idle, OfPackages, Keys
<1>2. TypeOK
  BY <1>1 DEF TypeOK, NoPass
<1>3. GitWorks /\ PkgWorks
  BY DEF GitWorks, PkgWorks, Idle, NoPass
<1> QED
  BY <1>2, <1>3 DEF TypeInv

LEMMA ReleasedTyped ==
  ASSUME GitTypeOK, NEW w PROVE Released(w) \in [Keys -> {"free", "git", "package"}]
  BY DEF GitTypeOK, Released

LEMMA FaultTyped ==
  ASSUME GitTypeOK, Fault
  PROVE  spent' \in [edits : Nat, faults : Nat, outside : Nat, crashes : Nat]
  BY DEF GitTypeOK, Fault

\* The clone a pass works on is one, and has the fields of one.
LEMMA CloneOf ==
  ASSUME GitTypeOK, NEW r \in Repos, clone[r] # NoClone
  PROVE  /\ clone[r] \in Clone
         /\ clone[r].wt \in Tree /\ clone[r].head \in Tree
         /\ clone[r].base \in Nat /\ clone[r].ahead \in BOOLEAN
<1>1. clone[r] \in Clone
  BY DEF GitTypeOK
<1> QED
  BY <1>1 DEF Clone

LEMMA RemoteOf ==
  ASSUME GitTypeOK, NEW r \in Repos
  PROVE  /\ remote[r].exists \in BOOLEAN
         /\ remote[r].tip \in Nat
         /\ remote[r].tip + 1 \in Nat
         /\ remote[r].files \in Tree
  BY DEF GitTypeOK

\* The functions after the update of one entry.
LEMMA SetClone ==
  ASSUME GitTypeOK, NEW r \in Repos, NEW c \in Clone
  PROVE  [clone EXCEPT ![r] = c] \in [Repos -> Clone \cup {NoClone}]
  BY DEF GitTypeOK

LEMMA SetRemote ==
  ASSUME GitTypeOK, NEW r \in Repos, NEW e \in BOOLEAN, NEW n \in Nat, NEW f \in Tree
  PROVE  [remote EXCEPT ![r] = [exists |-> e, tip |-> n, files |-> f]]
           \in [Repos -> [exists : BOOLEAN, tip : Nat, files : Tree]]
  BY DEF GitTypeOK

LEMMA WrittenTyped ==
  ASSUME GitTypeOK, NEW r \in Repos, clone[r] # NoClone
  PROVE  Written(r) \in Tree
<1>1. clone[r].wt \in Tree
  BY CloneOf
<1>2. Mirrors(r) => upstream[SourceOf[r]] \subseteq Files
  BY SourceAssumption DEF GitTypeOK, Mirrors
<1>3. source[SourceOf[r]] \subseteq Files
  BY SourceAssumption DEF GitTypeOK
<1> QED
  BY <1>1, <1>2, <1>3 DEF Written, Tree

\* The worker after a return, and after a step to another stage.
LEMMA ReturnTyped ==
  ASSUME GitTypeOK, GitWorks, git.at # "idle", NEW ok \in BOOLEAN, Return(ok)
  PROVE  /\ git' \in [at : Stages, repo : Repos \cup {NoRepo}, synced : BOOLEAN,
                      url : BOOLEAN, info : BOOLEAN, fresh : BOOLEAN]
         /\ git'.at = "report" /\ git'.repo = git.repo /\ git'.repo \in Repos
         /\ git'.synced = ok /\ git'.info = git.info /\ git'.fresh = git.fresh
         /\ git'.url = IF ok THEN git.info ELSE git.url
         /\ lock' \in [Keys -> {"free", "git", "package"}]
  BY ReleasedTyped DEF GitTypeOK, GitWorks, Return, Stages

LEMMA GotoTyped ==
  ASSUME GitTypeOK, NEW s \in Stages, Goto(s)
  PROVE  /\ git' \in [at : Stages, repo : Repos \cup {NoRepo}, synced : BOOLEAN,
                      url : BOOLEAN, info : BOOLEAN, fresh : BOOLEAN]
         /\ git'.at = s /\ git'.repo = git.repo /\ git'.url = git.url
         /\ git'.synced = git.synced /\ git'.info = git.info /\ git'.fresh = git.fresh
  BY DEF GitTypeOK, Goto

LEMMA AcceptTyped ==
  ASSUME GitTypeOK, NEW r \in Repos, clone[r] # NoClone, Accept(r)
  PROVE  /\ remote' \in [Repos -> [exists : BOOLEAN, tip : Nat, files : Tree]]
         /\ remote' = [remote EXCEPT ![r] = [exists |-> TRUE,
                          tip |-> remote[r].tip + 1, files |-> clone[r].head]]
         /\ clone' \in [Repos -> Clone \cup {NoClone}]
         /\ clone' = [clone EXCEPT ![r] = clone'[r]]
         /\ clone'[r] \in Clone
         /\ clone'[r].base = remote[r].tip + 1 /\ clone'[r].ahead = FALSE
         /\ clone'[r].wt = clone[r].wt /\ clone'[r].head = clone[r].head
<1>1. clone[r] \in Clone /\ clone[r].head \in Tree
  BY CloneOf
<1>2. remote[r].exists \in BOOLEAN /\ remote[r].tip + 1 \in Nat
  BY RemoteOf
<1>3. remote' = [remote EXCEPT ![r] = [exists |-> TRUE,
                   tip |-> remote[r].tip + 1, files |-> clone[r].head]]
  BY DEF Accept, GitTypeOK
<1>4. remote' \in [Repos -> [exists : BOOLEAN, tip : Nat, files : Tree]]
  BY <1>1, <1>2, <1>3, SetRemote
<1> DEFINE c == [clone[r] EXCEPT !.base = remote[r].tip + 1, !.ahead = FALSE]
<1>5. c \in Clone /\ c.base = remote[r].tip + 1 /\ c.ahead = FALSE
      /\ c.wt = clone[r].wt /\ c.head = clone[r].head
  BY <1>1, <1>2 DEF Clone
<1>6. clone' = [clone EXCEPT ![r] = c]
  BY DEF Accept, GitTypeOK
<1>7. clone'[r] = c
  BY <1>6 DEF GitTypeOK
<1>8. clone' \in [Repos -> Clone \cup {NoClone}]
  BY <1>5, <1>6, SetClone
<1> HIDE DEF c
<1> QED
  BY <1>3, <1>4, <1>5, <1>6, <1>7, <1>8

\* Every step of the GitRepository worker keeps the types.
LEMMA GitTyped ==
  ASSUME TypeInv, GitStep PROVE GitTypeOK' /\ GitWorks'
<1> DEFINE r == git.repo
<1>0. GitTypeOK /\ GitWorks /\ (git.at # "idle" => r \in Repos)
  BY DEF TypeInv, TypeOK, GitWorks
<1>1. CASE Find
  BY <1>0, <1>1 DEF Find, GitTypeOK, GitWorks, Stages, Mirrors
<1>2. CASE Create
  <2>1. r \in Repos /\ remote[r].tip + 1 \in Nat
    BY <1>0, <1>2, RemoteOf DEF Create
  <2>2. remote' = [remote EXCEPT ![r] =
                     [exists |-> TRUE, tip |-> remote[r].tip + 1, files |-> {Readme}]]
    BY <1>0, <1>2, <2>1 DEF Create, GitTypeOK
  <2>3. remote' \in [Repos -> [exists : BOOLEAN, tip : Nat, files : Tree]]
    BY <1>0, <2>1, <2>2, SetRemote DEF Tree
  <2> QED
    BY <1>0, <1>2, <2>1, <2>3 DEF Create, Goto, GitTypeOK, GitWorks, Stages, Mirrors
<1>3. CASE LockSource
  BY <1>0, <1>3 DEF LockSource, Goto, Acquire, GitTypeOK, GitWorks, Stages, Mirrors
<1>4. CASE CopySource
  BY <1>0, <1>4, SourceAssumption
     DEF CopySource, Goto, Refreshed, GitTypeOK, GitWorks, Stages, Mirrors, Places
<1>5. CASE LockTarget
  BY <1>0, <1>5 DEF LockTarget, Goto, Acquire, GitTypeOK, GitWorks, Stages, Mirrors
<1>6. CASE CloneTarget
  <2>1. r \in Repos /\ remote[r].files \in Tree /\ remote[r].tip \in Nat
    BY <1>0, <1>6, RemoteOf DEF CloneTarget
  <2>2. CASE clone[r] # NoClone
    BY <1>0, <1>6, <2>1, <2>2 DEF CloneTarget, Goto, GitTypeOK, GitWorks, Stages, Mirrors
  <2>3. CASE clone[r] = NoClone /\ ~remote[r].exists
    <3>1. Return(FALSE) /\ clone' = clone
      BY <1>6, <2>3 DEF CloneTarget
    <3> QED
      BY <1>0, <1>6, <2>1, <3>1, ReturnTyped DEF CloneTarget, GitTypeOK, GitWorks
  <2>4. CASE clone[r] = NoClone /\ remote[r].exists
    <3> DEFINE c == [wt |-> remote[r].files, head |-> remote[r].files,
                     base |-> remote[r].tip, ahead |-> FALSE]
    <3>1. c \in Clone
      BY <2>1 DEF Clone
    <3>2. clone' = [clone EXCEPT ![r] = c] /\ Goto("write") /\ lock' = lock
      BY <1>6, <2>4 DEF CloneTarget
    <3> HIDE DEF c
    <3>3. clone' \in [Repos -> Clone \cup {NoClone}] /\ clone'[r] # NoClone
      BY <1>0, <2>1, <3>1, <3>2, NoCloneAssumption DEF GitTypeOK
    <3> QED
      BY <1>0, <1>6, <2>1, <3>2, <3>3 DEF CloneTarget, Goto, GitTypeOK, GitWorks, Stages
  <2> QED
    BY <1>0, <2>1, <2>2, <2>3, <2>4, RemoteOf
<1>7. CASE Write
  <2>1. r \in Repos /\ clone[r] # NoClone
    BY <1>0, <1>7 DEF Write, GitWorks
  <2>2. clone[r] \in Clone /\ Written(r) \in Tree
    BY <1>0, <2>1, CloneOf, WrittenTyped
  <2>3. [clone[r] EXCEPT !.wt = Written(r)] \in Clone
    BY <2>2 DEF Clone
  <2>4. clone' = [clone EXCEPT ![r] = [clone[r] EXCEPT !.wt = Written(r)]]
    BY <1>0, <1>7, <2>1 DEF Write, GitTypeOK
  <2>5. clone' \in [Repos -> Clone \cup {NoClone}] /\ clone'[r] # NoClone
    BY <1>0, <2>1, <2>3, <2>4, NoCloneAssumption DEF GitTypeOK
  <2> QED
    BY <1>0, <1>7, <2>1, <2>5 DEF Write, Goto, GitTypeOK, GitWorks, Stages
<1>8. CASE Commit
  <2>1. r \in Repos /\ clone[r] # NoClone
    BY <1>0, <1>8 DEF Commit, GitWorks
  <2>2. clone[r] \in Clone /\ clone[r].wt \in Tree
    BY <1>0, <2>1, CloneOf
  <2>3. CASE Return(TRUE) /\ UNCHANGED <<clone, spent>>
    BY <1>0, <1>8, <2>1, <2>3, ReturnTyped DEF Commit, GitTypeOK, GitWorks
  <2>4. CASE /\ Goto("push") /\ UNCHANGED <<lock, spent>>
             /\ clone' = [clone EXCEPT ![r].head = clone[r].wt, ![r].ahead = TRUE]
    <3>1. [clone[r] EXCEPT !.head = clone[r].wt, !.ahead = TRUE] \in Clone
      BY <2>2 DEF Clone
    <3>2. clone' = [clone EXCEPT ![r] = [clone[r] EXCEPT !.head = clone[r].wt, !.ahead = TRUE]]
      BY <1>0, <2>1, <2>4 DEF GitTypeOK
    <3>3. clone' \in [Repos -> Clone \cup {NoClone}] /\ clone'[r] # NoClone
      BY <1>0, <2>1, <3>1, <3>2, NoCloneAssumption DEF GitTypeOK
    <3> QED
      BY <1>0, <1>8, <2>1, <2>4, <3>3 DEF Commit, Goto, GitTypeOK, GitWorks, Stages
  <2>5. CASE Fault /\ Goto("push") /\ UNCHANGED <<clone, lock>>
    BY <1>0, <1>8, <2>1, <2>5, FaultTyped DEF Commit, Goto, GitTypeOK, GitWorks, Stages
  <2> QED
    BY <1>8, <2>3, <2>4, <2>5 DEF Commit
<1>9. CASE Push
  <2>1. r \in Repos /\ clone[r] # NoClone
    BY <1>0, <1>9 DEF Push, GitWorks
  <2>2. CASE CanPush(r)
    <3>1. Accept(r) /\ Return(TRUE)
      BY <1>9, <2>2 DEF Push
    <3> QED
      BY <1>0, <1>9, <2>1, <3>1, AcceptTyped, ReturnTyped DEF Push, GitTypeOK, GitWorks
  <2>3. CASE ~CanPush(r)
    <3>1. Return(FALSE) /\ UNCHANGED <<remote, clone>>
      BY <1>9, <2>3 DEF Push
    <3> QED
      BY <1>0, <1>9, <2>1, <3>1, ReturnTyped DEF Push, GitTypeOK, GitWorks
  <2> QED
    BY <2>2, <2>3
<1>10. CASE PushLost
  <2>1. r \in Repos /\ clone[r] # NoClone /\ Return(FALSE) /\ Fault
    BY <1>0, <1>10 DEF PushLost, GitWorks
  <2>2. CASE UNCHANGED <<remote, clone>>
    BY <1>0, <1>10, <2>1, <2>2, ReturnTyped, FaultTyped DEF PushLost, GitTypeOK, GitWorks
  <2>3. CASE Accept(r)
    BY <1>0, <1>10, <2>1, <2>3, ReturnTyped, FaultTyped, AcceptTyped
       DEF PushLost, GitTypeOK, GitWorks
  <2> QED
    BY <1>10, <2>2, <2>3 DEF PushLost
<1>11. CASE Report
  <2>1. r \in Repos /\ git.synced \in BOOLEAN /\ git.url \in BOOLEAN
    BY <1>0, <1>11 DEF Report, GitTypeOK
  <2>2. status' \in [Repos -> Status]
    BY <1>0, <1>11, <2>1 DEF Report, GitTypeOK, Status
  <2>3. spent' \in [edits : Nat, faults : Nat, outside : Nat, crashes : Nat]
    BY <1>0, <1>11, FaultTyped DEF Report, GitTypeOK
  <2> QED
    BY <1>0, <1>11, <2>2, <2>3 DEF Report, Idle, GitTypeOK, GitWorks, Stages
<1>12. CASE CallFails
  BY <1>0, <1>12, ReturnTyped, FaultTyped DEF CallFails, Fails, GitTypeOK, GitWorks
<1> QED
  BY <1>1, <1>2, <1>3, <1>4, <1>5, <1>6, <1>7, <1>8, <1>9, <1>10, <1>11, <1>12
     DEF GitStep

\* Every step of the CustomPackage worker keeps the types.
LEMMA PkgTyped ==
  ASSUME TypeInv, PkgStep PROVE TypeInv'
<1> DEFINE p == pkg.pkg
<1>0. /\ GitTypeOK /\ GitWorks /\ PkgWorks
      /\ app \in [Packages -> Seq(BOOLEAN)] /\ pkgSynced \in [Packages -> BOOLEAN]
      /\ pkg \in [at : {"idle", "lock", "read", "source", "apply", "report"},
                  pkg : Packages \cup {NoPackage}, synced : BOOLEAN, urls : Seq(BOOLEAN)]
  BY DEF TypeInv, TypeOK
<1>a. p \in Packages /\ Sources[p] \in Seq(Repos) /\ Sources[p] # <<>>
  BY <1>0, PackageAssumption
     DEF PkgStep, PkgLock, PkgRead, PkgSource, PkgApply, PkgReport, PkgFails, PkgWorks
<1>1. CASE PkgLock
  <2>1. GitTypeOK' /\ GitWorks'
    BY <1>0, <1>1 DEF PkgLock, Acquire, GitTypeOK, GitWorks, Mirrors
  <2> QED
    BY <1>0, <1>1, <1>a, <2>1 DEF PkgLock, PkgWorks, TypeInv, TypeOK
<1>2. CASE PkgRead
  <2>1. upstream' \in [Urls -> SUBSET Files]
    BY <1>0, <1>2 DEF PkgRead, Refreshed, GitTypeOK, Places
  <2>2. GitTypeOK' /\ GitWorks'
    BY <1>0, <1>2, <2>1, ReleasedTyped DEF PkgRead, GitTypeOK, GitWorks, Mirrors
  <2>3. Len(pkg.urls) < Len(Sources[p])
    BY <1>0, <1>2, <1>a DEF PkgRead, PkgWorks
  <2> QED
    BY <1>0, <1>2, <1>a, <2>2, <2>3 DEF PkgRead, PkgWorks, TypeInv, TypeOK
<1>3. CASE PkgSource
  <2> DEFINE r == Sources[p][Len(pkg.urls) + 1]
  <2>1. Len(pkg.urls) < Len(Sources[p]) /\ pkg.urls \in Seq(BOOLEAN)
    BY <1>0, <1>3 DEF PkgSource, PkgWorks
  <2>2. r \in Repos
    BY <1>a, <2>1
  <2>3. seen[r].url \in BOOLEAN
    BY <1>0, <2>2 DEF GitTypeOK, Status
  <2>4. /\ Append(pkg.urls, seen[r].url) \in Seq(BOOLEAN)
        /\ Len(Append(pkg.urls, seen[r].url)) = Len(pkg.urls) + 1
    BY <2>1, <2>3
  <2>5. declared' = declared \cup {r}
    BY <1>3 DEF PkgSource
  <2>6. /\ pkg'.urls = Append(pkg.urls, seen[r].url)
        /\ pkg'.pkg = p /\ pkg'.synced = pkg.synced
        /\ pkg'.at = IF Len(pkg.urls) + 1 = Len(Sources[p]) THEN "apply" ELSE "source"
        /\ pkg' \in [at : {"idle", "lock", "read", "source", "apply", "report"},
                     pkg : Packages \cup {NoPackage}, synced : BOOLEAN, urls : Seq(BOOLEAN)]
    BY <1>0, <1>3, <2>4 DEF PkgSource
  <2> HIDE DEF r
  <2>7. GitTypeOK' /\ GitWorks'
    BY <1>0, <1>3, <2>2, <2>5 DEF PkgSource, GitTypeOK, GitWorks, Mirrors
  <2>8. PkgWorks'
    BY <1>a, <2>1, <2>4, <2>6 DEF PkgWorks
  <2> QED
    BY <1>0, <1>3, <2>6, <2>7, <2>8 DEF PkgSource, TypeInv, TypeOK
<1>4. CASE PkgApply
  <2>1. SourcesSynced(p, pkg.urls) \in BOOLEAN
    BY DEF SourcesSynced
  <2>2. app' \in [Packages -> Seq(BOOLEAN)]
    BY <1>0, <1>4 DEF PkgApply
  <2>3. GitTypeOK' /\ GitWorks'
    BY <1>0, <1>4, FaultTyped DEF PkgApply, GitTypeOK, GitWorks, Mirrors
  <2> QED
    BY <1>0, <1>4, <1>a, <2>1, <2>2, <2>3 DEF PkgApply, PkgWorks, TypeInv, TypeOK
<1>5. CASE PkgReport
  <2>1. GitTypeOK' /\ GitWorks'
    BY <1>0, <1>5, FaultTyped DEF PkgReport, GitTypeOK, GitWorks, Mirrors
  <2> QED
    BY <1>0, <1>5, <2>1 DEF PkgReport, PkgWorks, NoPass, TypeInv, TypeOK
<1>6. CASE PkgFails
  <2>1. GitTypeOK' /\ GitWorks'
    BY <1>0, <1>6, FaultTyped, ReleasedTyped DEF PkgFails, GitTypeOK, GitWorks, Mirrors
  <2> QED
    BY <1>0, <1>6, <1>a, <2>1 DEF PkgFails, PkgWorks, TypeInv, TypeOK
<1> QED
  BY <1>1, <1>2, <1>3, <1>4, <1>5, <1>6 DEF PkgStep

\* The environment, the start of a pass and a restart keep the types.
LEMMA OutsideTyped ==
  ASSUME TypeInv, Outside PROVE GitTypeOK' /\ GitWorks'
<1>0. GitTypeOK /\ GitWorks
  BY DEF TypeInv, TypeOK
<1>1. ASSUME NEW p \in Places, Edit(p) PROVE GitTypeOK' /\ GitWorks'
  <2>1. PICK files \in SUBSET Files : source' = [source EXCEPT ![p] = files]
    BY <1>1 DEF Edit
  <2> QED
    BY <1>0, <1>1, <2>1 DEF Edit, GitTypeOK, GitWorks, Mirrors
<1>2. ASSUME NEW r \in Repos, PushedByUser(r) PROVE GitTypeOK' /\ GitWorks'
  <2>1. PICK files \in Tree : remote' = [remote EXCEPT ![r] =
                 [exists |-> remote[r].exists, tip |-> remote[r].tip + 1, files |-> files]]
    BY <1>0, <1>2 DEF PushedByUser, GitTypeOK
  <2>2. remote' \in [Repos -> [exists : BOOLEAN, tip : Nat, files : Tree]]
    BY <1>0, <2>1, RemoteOf, SetRemote
  <2> QED
    BY <1>0, <1>2, <2>2 DEF PushedByUser, GitTypeOK, GitWorks, Mirrors
<1>3. ASSUME NEW r \in Repos, DeletedByUser(r) PROVE GitTypeOK' /\ GitWorks'
  <2>1. remote' = [remote EXCEPT ![r] =
                 [exists |-> FALSE, tip |-> remote[r].tip, files |-> {}]]
    BY <1>0, <1>3 DEF DeletedByUser, GitTypeOK
  <2>2. remote' \in [Repos -> [exists : BOOLEAN, tip : Nat, files : Tree]]
    BY <1>0, <2>1, RemoteOf, SetRemote DEF Tree
  <2> QED
    BY <1>0, <1>3, <2>2 DEF DeletedByUser, GitTypeOK, GitWorks, Mirrors
<1> QED
  BY <1>1, <1>2, <1>3 DEF Outside

LEMMA NextTyped == TypeInv /\ [Next]_vars => TypeInv'
<1> SUFFICES ASSUME TypeInv, [Next]_vars PROVE TypeInv'
  OBVIOUS
<1>0. GitTypeOK /\ GitWorks /\ PkgWorks /\ TypeOK
  BY DEF TypeInv, TypeOK
<1>a. ASSUME GitTypeOK', GitWorks', UNCHANGED pkgVars PROVE TypeInv'
  BY <1>0, <1>a DEF TypeInv, TypeOK, PkgWorks
<1>1. CASE GitStep /\ UNCHANGED pkgVars
  BY <1>1, <1>a, GitTyped
<1>2. ASSUME NEW r \in Repos, Start(r), UNCHANGED pkgVars PROVE TypeInv'
  BY <1>0, <1>2, <1>a DEF Start, GitTypeOK, GitWorks, Mirrors, Stages, Status
<1>3. ASSUME NEW r \in Repos, Deliver(r), UNCHANGED pkgVars PROVE TypeInv'
  BY <1>0, <1>3, <1>a DEF Deliver, GitTypeOK, GitWorks, Mirrors
<1>4. CASE Outside /\ UNCHANGED pkgVars
  BY <1>4, <1>a, OutsideTyped
<1>5. CASE PkgStep
  BY <1>5, PkgTyped
<1>6. ASSUME NEW p \in Packages, PkgStart(p) PROVE TypeInv'
  BY <1>0, <1>6 DEF PkgStart, TypeInv, TypeOK, GitTypeOK, GitWorks, PkgWorks, Mirrors
<1>7. CASE Restart
  <2>1. GitTypeOK' /\ GitWorks'
    BY <1>0, <1>7 DEF Restart, Restarted, Idle, GitTypeOK, GitWorks, Mirrors, Stages
  <2> QED
    BY <1>0, <1>7, <2>1 DEF Restart, Restarted, NoPass, TypeInv, TypeOK, PkgWorks
<1>8. CASE UNCHANGED vars
  BY <1>0, <1>8 DEF vars, TypeInv, TypeOK, GitTypeOK, GitWorks, PkgWorks, Mirrors
<1> QED
  BY <1>1, <1>2, <1>3, <1>4, <1>5, <1>6, <1>7, <1>8 DEF Next

\* Every reachable state is well typed, and a worker in the middle of a pass
\* has an object, and a clone once it writes.
THEOREM Typed == Spec => []TypeInv
  BY InitTyped, NextTyped, PTL DEF Spec

\* TypeOK: no pass of either controller, no edit, crash or lost push takes a
\* variable out of its type.
THEOREM TypeCorrect == Spec => []TypeOK
  BY Typed, PTL DEF TypeInv

-----------------------------------------------------------------------------
(* Mutual exclusion in the clones of upstream repositories *)

\* The stages in which the source's lock is held, until the pass returns.
Holding == {"copySource", "lockTarget", "cloneTarget", "write", "commit", "push"}

LockInv ==
    /\ git.at \in Holding /\ Mirrors(git.repo) => lock[SourceOf[git.repo]] = "git"
    /\ pkg.at = "read" /\ Origin[pkg.pkg] \in Urls => lock[Origin[pkg.pkg]] = "package"

LEMMA InitLocked == Init => LockInv
  BY DEF Init, GitInit, Idle, NoPass, LockInv, Holding

LEMMA GitLocked ==
  ASSUME TypeInv, LockInv, GitStep, UNCHANGED pkgVars PROVE LockInv'
<1>0. GitTypeOK /\ GitWorks /\ PkgWorks
  BY DEF TypeInv, TypeOK
<1>a. ASSUME NEW k \in Keys, lock[k] = "package" PROVE Released("git")[k] = "package"
  BY <1>a DEF Released
<1>b. /\ \A u \in Urls : u \in Keys
      /\ \A r \in Repos : r \in Keys /\ r \notin Urls
  BY NamesApart DEF Keys
<1> USE DEF LockInv, Holding, Mirrors
<1>1. CASE git'.at = "report" /\ lock' = Released("git")
  BY <1>0, <1>1, <1>a, <1>b DEF PkgWorks
<1>2. CASE lock' = lock /\ git'.repo = git.repo /\ git'.at \in Holding /\ git.at \in Holding
  BY <1>2
<1>3. CASE Find
  BY <1>0, <1>3 DEF Find, GitTypeOK
<1>4. CASE Create
  BY <1>0, <1>4 DEF Create, Goto, GitTypeOK
<1>5. CASE LockSource
  BY <1>0, <1>5, <1>b DEF LockSource, Acquire, Goto, GitTypeOK, GitWorks
<1>6. CASE LockTarget
  <2>1. git.repo \in Repos /\ lock' = [lock EXCEPT ![git.repo] = "git"]
    BY <1>0, <1>6 DEF LockTarget, Acquire, GitWorks
  <2>2. \A u \in Urls : lock'[u] = lock[u]
    BY <1>0, <1>b, <2>1 DEF GitTypeOK
  <2> QED
    BY <1>0, <1>6, <2>1, <2>2 DEF LockTarget, Goto, GitTypeOK, GitWorks, PkgWorks
<1>7. CASE CopySource \/ CloneTarget \/ Write \/ Commit \/ Push \/ PushLost \/ CallFails
  BY <1>0, <1>1, <1>2, <1>7
     DEF CopySource, CloneTarget, Write, Commit, Push, PushLost, CallFails, Fails,
         Goto, Return, GitTypeOK
<1>8. CASE Report
  BY <1>8 DEF Report, Idle
<1> QED
  BY <1>3, <1>4, <1>5, <1>6, <1>7, <1>8 DEF GitStep

LEMMA PkgLocked ==
  ASSUME TypeInv, LockInv, PkgStep PROVE LockInv'
<1>0. GitTypeOK /\ GitWorks /\ PkgWorks
  BY DEF TypeInv, TypeOK
<1>a. git' = git
  BY DEF PkgStep, PkgLock, PkgRead, PkgSource, PkgApply, PkgReport, PkgFails
<1>b. git.at \in Holding => git.repo \in Repos
  BY <1>0 DEF GitWorks, Holding
<1>c. /\ \A u \in Urls : u \in Keys /\ u # NoRepo
      /\ \A w \in Keys : lock[w] = "git" => Released("package")[w] = "git"
  BY PackageAssumption DEF Released, Keys
<1> USE DEF LockInv, Mirrors
<1>1. CASE PkgLock
  <2>1. /\ Origin[pkg.pkg] \in Keys /\ lock[Origin[pkg.pkg]] = "free"
        /\ lock' = [lock EXCEPT ![Origin[pkg.pkg]] = "package"]
        /\ pkg'.pkg = pkg.pkg
    BY <1>0, <1>1, <1>c DEF PkgLock, Acquire, PkgWorks, TypeInv, TypeOK
  <2>2. lock'[Origin[pkg.pkg]] = "package"
    BY <1>0, <2>1 DEF GitTypeOK
  <2>3. \A k \in Keys : lock[k] = "git" => lock'[k] = "git"
    BY <1>0, <2>1 DEF GitTypeOK
  <2> QED
    BY <1>a, <1>c, <2>1, <2>2, <2>3
<1>2. CASE PkgRead \/ PkgFails
  <2>1. lock' = Released("package") /\ pkg'.at # "read"
    BY <1>0, <1>2 DEF PkgRead, PkgFails, TypeInv, TypeOK
  <2>2. git.at \in Holding /\ Mirrors(git.repo) => lock'[SourceOf[git.repo]] = "git"
    BY <1>c, <2>1
  <2> QED
    BY <1>a, <2>1, <2>2
<1>3. CASE PkgSource \/ PkgApply \/ PkgReport
  <2>1. lock' = lock
    BY <1>3 DEF PkgSource, PkgApply, PkgReport
  <2>2. PkgSource => pkg'.at # "read"
    BY DEF PkgSource, TypeInv, TypeOK
  <2>3. PkgApply => pkg'.at # "read"
    BY DEF PkgApply, TypeInv, TypeOK
  <2>4. PkgReport => pkg'.at # "read"
    BY DEF PkgReport, NoPass
  <2> QED
    BY <1>3, <1>a, <2>1, <2>2, <2>3, <2>4
<1> QED
  BY <1>1, <1>2, <1>3 DEF PkgStep

LEMMA NextLocked == TypeInv /\ LockInv /\ [Next]_vars => LockInv'
<1> SUFFICES ASSUME TypeInv, LockInv, [Next]_vars PROVE LockInv'
  OBVIOUS
<1> USE DEF LockInv, Mirrors, Holding
<1>1. CASE GitStep /\ UNCHANGED pkgVars
  BY <1>1, GitLocked
<1>2. ASSUME NEW r \in Repos, Start(r), UNCHANGED pkgVars PROVE LockInv'
  BY <1>2 DEF Start
<1>3. ASSUME NEW r \in Repos, Deliver(r), UNCHANGED pkgVars PROVE LockInv'
  BY <1>3 DEF Deliver
<1>4. CASE Outside /\ UNCHANGED pkgVars
  BY <1>4 DEF Outside, Edit, PushedByUser, DeletedByUser
<1>5. CASE PkgStep
  BY <1>5, PkgLocked
<1>6. ASSUME NEW p \in Packages, PkgStart(p) PROVE LockInv'
  BY <1>6 DEF PkgStart
<1>7. CASE Restart
  BY <1>7 DEF Restart, Restarted, Idle, NoPass
<1>8. CASE UNCHANGED vars
  BY <1>8 DEF vars
<1> QED
  BY <1>1, <1>2, <1>3, <1>4, <1>5, <1>6, <1>7, <1>8 DEF Next

LEMMA LockedApart == TypeInv /\ LockInv => OneInDirectory
  BY DEF TypeInv, GitWorks, LockInv, Holding, OneInDirectory, Mirrors

\* OneInDirectory: a clone of an upstream repository is used by one controller
\* at a time, for any number of repositories and packages that share it.
THEOREM DirectoriesExclusive == Spec => []OneInDirectory
<1>1. Spec => []LockInv
  BY InitLocked, NextLocked, Typed, PTL DEF Spec
<1> QED
  BY <1>1, LockedApart, Typed, PTL

\* Who holds a lock, and since which stage.
LeaseInv ==
    \A k \in Keys :
      /\ lock[k] = "git" =>
           \/ git.at \in Holding /\ Mirrors(git.repo) /\ k = SourceOf[git.repo]
           \/ git.at \in Holding \ {"copySource", "lockTarget"} /\ k = git.repo
      /\ lock[k] = "package" => pkg.at = "read" /\ k = Origin[pkg.pkg]

LEMMA InitLeased == Init => LeaseInv
  BY DEF Init, GitInit, LeaseInv

LEMMA ReleasedIs ==
  ASSUME NEW k \in Keys, NEW w \in {"git", "package"}
  PROVE  Released(w)[k] # w /\ Released(w)[k] \in {"free", lock[k]}
  BY DEF Released

LEMMA GitLeased ==
  ASSUME TypeInv, LeaseInv, GitStep, UNCHANGED pkgVars PROVE LeaseInv'
<1>0. GitTypeOK /\ GitWorks
  BY DEF TypeInv, TypeOK
<1> USE DEF LeaseInv, Holding, Mirrors
<1>1. CASE lock' = Released("git")
  BY <1>1, ReleasedIs
<1>2. CASE /\ lock' = lock /\ git'.repo = git.repo /\ git.at \in Holding /\ git'.at \in Holding
           /\ git.at \notin {"copySource", "lockTarget"} => git'.at \notin {"copySource", "lockTarget"}
  BY <1>2
<1>3. CASE lock' = lock /\ git.at \notin Holding
  BY <1>3
<1>4. CASE LockSource
  <2>1. lock' = [lock EXCEPT ![SourceOf[git.repo]] = "git"] /\ Mirrors(git.repo)
        /\ git'.at = "copySource" /\ git'.repo = git.repo /\ git.at \notin Holding
    BY <1>0, <1>4 DEF LockSource, Acquire, Goto, GitTypeOK, GitWorks
  <2>2. \A k \in Keys : k # SourceOf[git.repo] => lock'[k] = lock[k]
    BY <1>0, <2>1 DEF GitTypeOK
  <2>3. lock' \in [Keys -> {"free", "git", "package"}] /\ lock'[SourceOf[git.repo]] = "git"
    BY <1>0, <2>1 DEF GitTypeOK, Keys
  <2> QED
    BY <2>1, <2>2, <2>3
<1>5. CASE LockTarget
  <2>1. lock' = [lock EXCEPT ![git.repo] = "git"] /\ git.repo \in Keys
        /\ git.at = "lockTarget" /\ git'.at = "cloneTarget" /\ git'.repo = git.repo
    BY <1>0, <1>5 DEF LockTarget, Acquire, Goto, GitTypeOK, GitWorks, Keys
  <2>2. \A k \in Keys : k # git.repo => lock'[k] = lock[k]
    BY <1>0, <2>1 DEF GitTypeOK
  <2>3. lock'[git.repo] = "git"
    BY <1>0, <2>1 DEF GitTypeOK
  <2> QED
    BY <2>1, <2>2, <2>3
<1>6. CASE Find \/ Create \/ Report
  BY <1>3, <1>6 DEF Find, Create, Report
<1>7. CASE CopySource \/ CloneTarget \/ Write \/ Commit \/ Push \/ PushLost \/ CallFails
  BY <1>0, <1>1, <1>2, <1>7
     DEF CopySource, CloneTarget, Write, Commit, Push, PushLost, CallFails, Fails,
         Goto, Return, GitTypeOK
<1> QED
  BY <1>4, <1>5, <1>6, <1>7 DEF GitStep

LEMMA PkgLeased ==
  ASSUME TypeInv, LeaseInv, PkgStep PROVE LeaseInv'
<1>0. /\ GitTypeOK /\ PkgWorks
      /\ pkg \in [at : {"idle", "lock", "read", "source", "apply", "report"},
                  pkg : Packages \cup {NoPackage}, synced : BOOLEAN, urls : Seq(BOOLEAN)]
  BY DEF TypeInv, TypeOK
<1>a. git' = git
  BY DEF PkgStep, PkgLock, PkgRead, PkgSource, PkgApply, PkgReport, PkgFails
<1> USE DEF LeaseInv, Mirrors
<1>1. CASE PkgLock
  <2>1. /\ Origin[pkg.pkg] \in Keys /\ pkg.at = "lock"
        /\ lock' = [lock EXCEPT ![Origin[pkg.pkg]] = "package"]
        /\ pkg'.pkg = pkg.pkg /\ pkg'.at = "read"
    BY <1>0, <1>1 DEF PkgLock, Acquire, PkgWorks, Keys
  <2>2. /\ lock'[Origin[pkg.pkg]] = "package"
        /\ \A k \in Keys : k # Origin[pkg.pkg] => lock'[k] = lock[k]
    BY <1>0, <2>1 DEF GitTypeOK
  <2> QED
    BY <1>a, <2>1, <2>2
<1>2. CASE PkgRead \/ PkgFails
  BY <1>2, <1>a, ReleasedIs DEF PkgRead, PkgFails
<1>3. CASE PkgSource \/ PkgApply \/ PkgReport
  BY <1>3, <1>a DEF PkgSource, PkgApply, PkgReport
<1> QED
  BY <1>1, <1>2, <1>3 DEF PkgStep

LEMMA NextLeased == TypeInv /\ LeaseInv /\ [Next]_vars => LeaseInv'
<1> SUFFICES ASSUME TypeInv, LeaseInv, [Next]_vars PROVE LeaseInv'
  OBVIOUS
<1> USE DEF LeaseInv, Mirrors, Holding
<1>1. CASE GitStep /\ UNCHANGED pkgVars
  BY <1>1, GitLeased
<1>2. ASSUME NEW r \in Repos, Start(r), UNCHANGED pkgVars PROVE LeaseInv'
  BY <1>2 DEF Start
<1>3. CASE UNCHANGED <<lock, git, pkg>>
  BY <1>3
<1>4. CASE PkgStep
  BY <1>4, PkgLeased
<1>5. ASSUME NEW p \in Packages, PkgStart(p) PROVE LeaseInv'
  BY <1>5 DEF PkgStart
<1>6. CASE Restart
  BY <1>6 DEF Restart, Restarted
<1> QED
  BY <1>1, <1>2, <1>3, <1>4, <1>5, <1>6
     DEF Next, vars, Deliver, Outside, Edit, PushedByUser, DeletedByUser

LEMMA LeasesEnd == TypeInv /\ LeaseInv => LocksComeFree
<1> SUFFICES ASSUME TypeInv, LeaseInv PROVE LocksComeFree
  OBVIOUS
<1>0. GitTypeOK /\ GitWorks /\ PkgWorks
  BY DEF TypeInv, TypeOK
<1> USE DEF LeaseInv, Holding, Mirrors
<1>1. git.at \in {"idle", "find", "create", "report"} => \A k \in Keys : lock[k] # "git"
  OBVIOUS
<1>2. git.at = "lockSource" => lock[SourceOf[git.repo]] # "git"
  BY <1>0 DEF GitWorks, Keys
<1>3. git.at = "lockTarget" => lock[git.repo] = "free"
  <2> SUFFICES ASSUME git.at = "lockTarget" PROVE lock[git.repo] = "free"
    OBVIOUS
  <2>1. git.repo \in Repos /\ git.repo \in Keys /\ git.repo \notin Urls \cup {NoRepo}
    BY <1>0, NamesApart DEF GitWorks, Keys
  <2>2. lock[git.repo] # "git"
    BY <2>1
  <2>3. pkg.at = "read" => Origin[pkg.pkg] \in Urls \cup {NoRepo}
    BY <1>0, PackageAssumption DEF PkgWorks
  <2>4. lock[git.repo] # "package"
    BY <2>1, <2>3
  <2> QED
    BY <1>0, <2>1, <2>2, <2>4 DEF GitTypeOK
<1>4. pkg.at # "read" => \A k \in Keys : lock[k] # "package"
  OBVIOUS
<1> QED
  BY <1>1, <1>2, <1>3, <1>4 DEF LocksComeFree

\* LocksComeFree: whatever fails, is lost or restarts, no lock is left behind and
\* no worker waits for one whose holder waits, for any number of repositories.
THEOREM NoLockLeftBehind == Spec => []LocksComeFree
<1>1. Spec => []LeaseInv
  BY InitLeased, NextLeased, Typed, PTL DEF Spec
<1> QED
  BY <1>1, LeasesEnd, Typed, PTL

-----------------------------------------------------------------------------
(* What is in Gitea, as long as pushes get through and users stay away *)

Holds(r) == remote[r].exists /\ Full(remote[r].files)

\* A clone is based on the last commit of its repository; only the pass that is
\* about to push has a commit of its own.
CloneCurrent(r) ==
    clone[r] # NoClone =>
        /\ remote[r].exists
        /\ clone[r].base = remote[r].tip
        /\ clone[r].ahead => git.at = "push" /\ git.repo = r
        /\ ~clone[r].ahead => clone[r].head = remote[r].files

ContentInv ==
    /\ \A p \in Places : source[p] # {}
    /\ \A r \in Repos : CloneCurrent(r)
    /\ git.at \in Holding \ {"copySource"} /\ Mirrors(git.repo) => upstream[SourceOf[git.repo]] # {}
    /\ git.at = "create" => ~remote[git.repo].exists
    /\ git.at = "commit" => Full(clone[git.repo].wt)
    /\ git.at = "push" /\ clone[git.repo].ahead => Full(clone[git.repo].head)

LEMMA InitContent == Init => ContentInv
<1> SUFFICES ASSUME Init PROVE ContentInv
  OBVIOUS
<1>1. \A p \in Places : source[p] # {}
  BY DEF Init, GitInit
<1>2. \A r \in Repos : CloneCurrent(r)
  BY DEF Init, GitInit, CloneCurrent
<1> QED
  BY <1>1, <1>2 DEF Init, GitInit, Idle, ContentInv, Holding

LEMMA WrittenFull ==
  ASSUME TypeInv, ContentInv, git.at = "write"
  PROVE  Full(Written(git.repo))
<1> DEFINE r == git.repo
<1>1. r \in Repos /\ SourceOf[r] \in Places
  BY SourceAssumption DEF TypeInv, GitWorks
<1>2. CASE Mirrors(r)
  <2>1. upstream[SourceOf[r]] # {} /\ upstream[SourceOf[r]] \subseteq Files
    BY <1>1, <1>2 DEF ContentInv, Holding, TypeInv, TypeOK, GitTypeOK, Mirrors
  <2> QED
    BY <1>2, <2>1 DEF Written, Full
<1>3. CASE ~Mirrors(r)
  <2>1. source[SourceOf[r]] # {} /\ source[SourceOf[r]] \subseteq Files
    BY <1>1 DEF ContentInv, TypeInv, TypeOK, GitTypeOK
  <2> QED
    BY <1>3, <2>1 DEF Written, Full
<1> QED
  BY <1>2, <1>3

\* Every step of the GitRepository worker keeps the clones current.
LEMMA GitContent ==
  ASSUME ~PushFails, TypeInv, ContentInv, GitStep PROVE ContentInv'
<1> DEFINE r == git.repo
<1>0. GitTypeOK /\ GitWorks /\ (git.at # "idle" => r \in Repos)
  BY DEF TypeInv, TypeOK, GitWorks
<1>a. \A q \in Repos : clone[q] # NoClone => clone[q].ahead \in BOOLEAN /\ clone[q] \in Clone
  BY <1>0, CloneOf
<1>b. git' \in [at : Stages, repo : Repos \cup {NoRepo}, synced : BOOLEAN,
              url : BOOLEAN, info : BOOLEAN, fresh : BOOLEAN]
  BY GitTyped DEF GitTypeOK
<1>c. ASSUME UNCHANGED <<source, remote, clone, upstream>>, git'.repo = git.repo, git.at # "push",
             git'.at \notin {"create", "commit", "push"},
             git'.at \in Holding \ {"copySource"} /\ Mirrors(r) =>
               git.at \in Holding \ {"copySource"}
      PROVE  ContentInv'
  BY <1>c DEF ContentInv, CloneCurrent, Mirrors
<1>d. ASSUME git.at # "push", NEW q \in Repos, clone[q] # NoClone PROVE ~clone[q].ahead
  BY <1>d DEF ContentInv, CloneCurrent
<1>1. CASE Find
  BY <1>0, <1>1 DEF Find, ContentInv, CloneCurrent, Mirrors, Holding, GitTypeOK
<1>2. CASE Create
  <2>1. clone[r] = NoClone /\ r \in Repos
    BY <1>0, <1>2 DEF Create, ContentInv, CloneCurrent
  <2>2. \A q \in Repos : q # r => remote'[q] = remote[q]
    BY <1>0, <1>2, <2>1 DEF Create, GitTypeOK
  <2>3. git'.repo = git.repo /\ git'.at \in {"lockSource", "lockTarget"}
        /\ (git'.at = "lockTarget" => ~Mirrors(r))
    BY <1>0, <1>2 DEF Create, Goto, GitTypeOK
  <2>4. \A q \in Repos : CloneCurrent(q)'
    BY <1>2, <2>1, <2>2, <1>d DEF Create, CloneCurrent, ContentInv
  <2> QED
    BY <1>2, <2>3, <2>4 DEF Create, ContentInv, Mirrors, Holding
<1>3. CASE LockSource
  BY <1>0, <1>3, <1>c DEF LockSource, Goto, GitTypeOK, Holding
<1>4. CASE CopySource
  <2>1. r \in Repos /\ SourceOf[r] \in Urls /\ SourceOf[r] \in Places
    BY <1>0, <1>4, SourceAssumption DEF CopySource, GitWorks, Mirrors
  <2>2. upstream'[SourceOf[r]] # {}
    BY <1>0, <1>4, <2>1 DEF CopySource, Refreshed, ContentInv, GitTypeOK
  <2> QED
    BY <1>0, <1>4, <2>1, <2>2
       DEF CopySource, Goto, ContentInv, CloneCurrent, Mirrors, Holding, GitTypeOK
<1>5. CASE LockTarget
  BY <1>0, <1>5, <1>c DEF LockTarget, Goto, GitTypeOK, Holding
<1>6. CASE CloneTarget
  <2>1. r \in Repos /\ git'.repo = r
    BY <1>0, <1>6 DEF CloneTarget, Goto, Return, GitTypeOK
  <2>2. CASE clone' = clone
    BY <1>0, <1>6, <1>c, <2>1, <2>2 DEF CloneTarget, Goto, Return, GitTypeOK, Holding
  <2>3. CASE clone[r] = NoClone /\ remote[r].exists
    <3>1. /\ git'.at = "write" /\ UNCHANGED <<source, remote, upstream>>
          /\ clone' = [clone EXCEPT ![r] =
                 [wt |-> remote[r].files, head |-> remote[r].files,
                  base |-> remote[r].tip, ahead |-> FALSE]]
      BY <1>0, <1>6, <2>3 DEF CloneTarget, Goto, GitTypeOK
    <3>2. \A q \in Repos : q # r => clone'[q] = clone[q]
      BY <1>0, <2>1, <3>1 DEF GitTypeOK
    <3>3. /\ clone'[r].base = remote[r].tip /\ clone'[r].head = remote[r].files
          /\ clone'[r].ahead = FALSE
      BY <1>0, <2>1, <3>1 DEF GitTypeOK
    <3>4. \A q \in Repos : CloneCurrent(q)'
      BY <1>6, <1>d, <2>3, <3>1, <3>2, <3>3 DEF CloneTarget, CloneCurrent, ContentInv
    <3> QED
      BY <1>6, <2>1, <3>1, <3>4 DEF CloneTarget, ContentInv, Mirrors, Holding
  <2> QED
    BY <1>6, <2>2, <2>3 DEF CloneTarget
<1>7. CASE Write
  <2>1. r \in Repos /\ clone[r] # NoClone /\ clone[r] \in Clone
    BY <1>0, <1>7, <1>a DEF Write, GitWorks
  <2>2. /\ git'.at = "commit" /\ git'.repo = r /\ UNCHANGED <<source, remote, upstream>>
        /\ clone' = [clone EXCEPT ![r] = [clone[r] EXCEPT !.wt = Written(r)]]
    BY <1>0, <1>7, <2>1 DEF Write, Goto, GitTypeOK
  <2>3. \A q \in Repos : q # r => clone'[q] = clone[q]
    BY <1>0, <2>1, <2>2 DEF GitTypeOK
  <2>4. /\ clone'[r].wt = Written(r) /\ clone'[r].head = clone[r].head
        /\ clone'[r].base = clone[r].base /\ clone'[r].ahead = clone[r].ahead
    BY <1>0, <2>1, <2>2 DEF GitTypeOK, Clone
  <2>5. Full(Written(r))
    BY <1>7, WrittenFull DEF Write
  <2>6. \A q \in Repos : CloneCurrent(q)'
    BY <1>7, <1>d, <2>1, <2>2, <2>3, <2>4 DEF Write, CloneCurrent, ContentInv
  <2> QED
    BY <1>7, <2>1, <2>2, <2>4, <2>5, <2>6 DEF Write, ContentInv, Mirrors, Holding, Full
<1>8. CASE Commit
  <2>1. r \in Repos /\ clone[r] # NoClone /\ clone[r] \in Clone /\ git'.repo = r
    BY <1>0, <1>8, <1>a DEF Commit, GitWorks, Goto, Return, GitTypeOK
  <2>2. CASE Return(TRUE) /\ UNCHANGED clone
    BY <1>0, <1>8, <1>c, <2>1, <2>2 DEF Commit, Return, GitTypeOK, Holding
  <2>3. CASE /\ Goto("push") /\ clone[r].wt # clone[r].head
             /\ clone' = [clone EXCEPT ![r].head = clone[r].wt, ![r].ahead = TRUE]
    <3>1. git'.at = "push" /\ UNCHANGED <<source, remote, upstream>>
      BY <1>0, <1>8, <2>3 DEF Commit, Goto, GitTypeOK
    <3>2. \A q \in Repos : q # r => clone'[q] = clone[q]
      BY <1>0, <2>1, <2>3 DEF GitTypeOK
    <3>3. /\ clone'[r].head = clone[r].wt /\ clone'[r].ahead = TRUE
          /\ clone'[r].base = clone[r].base
      BY <1>0, <2>1, <2>3 DEF GitTypeOK, Clone
    <3>4. \A q \in Repos : CloneCurrent(q)'
      BY <1>8, <1>d, <2>1, <3>1, <3>2, <3>3 DEF Commit, CloneCurrent, ContentInv
    <3> QED
      BY <1>8, <2>1, <3>1, <3>3, <3>4 DEF Commit, ContentInv, Mirrors, Holding, Full
  <2>4. CASE Goto("push") /\ UNCHANGED clone
    <3>1. git'.at = "push" /\ UNCHANGED <<source, remote, upstream>>
      BY <1>0, <1>8, <2>4 DEF Commit, Goto, GitTypeOK
    <3>2. ~clone[r].ahead
      BY <1>8, <1>d, <2>1 DEF Commit
    <3> QED
      BY <1>8, <2>1, <2>4, <3>1, <3>2, <1>d
         DEF Commit, ContentInv, CloneCurrent, Mirrors, Holding
  <2> QED
    BY <1>8, <2>2, <2>3, <2>4 DEF Commit
<1>9. CASE Push
  <2>1. r \in Repos /\ clone[r] # NoClone /\ git'.repo = r /\ git'.at = "report"
        /\ UNCHANGED <<source, upstream>>
    BY <1>0, <1>9 DEF Push, GitWorks, Return, GitTypeOK
  <2>2. CASE Accept(r)
    <3>1. \A q \in Repos : q # r => clone'[q] = clone[q] /\ remote'[q] = remote[q]
      BY <1>0, <2>1, <2>2 DEF Accept, GitTypeOK
    <3>2. /\ clone'[r].base = remote[r].tip + 1 /\ clone'[r].ahead = FALSE
          /\ clone'[r].head = clone[r].head
      BY <1>0, <2>1, <2>2, AcceptTyped
    <3>3. /\ remote'[r].exists /\ remote'[r].tip = remote[r].tip + 1
          /\ remote'[r].files = clone[r].head
      BY <1>0, <2>1, <2>2 DEF Accept, GitTypeOK
    <3>4. \A q \in Repos : CloneCurrent(q)'
      BY <2>1, <3>1, <3>2, <3>3 DEF CloneCurrent, ContentInv
    <3> QED
      BY <2>1, <3>4 DEF ContentInv, Mirrors, Holding
  <2>3. CASE ~CanPush(r) /\ UNCHANGED <<remote, clone>>
    <3>1. ~clone[r].ahead
      BY <1>a, <2>1, <2>3 DEF CanPush, ContentInv, CloneCurrent
    <3>2. \A q \in Repos : CloneCurrent(q)'
      BY <2>1, <2>3, <3>1 DEF ContentInv, CloneCurrent
    <3> QED
      BY <2>1, <2>3, <3>2 DEF ContentInv, Mirrors, Holding
  <2> QED
    BY <1>9, <2>2, <2>3 DEF Push
<1>10. CASE PushLost
  BY <1>10 DEF PushLost
<1>11. CASE Report
  <2>1. git'.at = "idle" /\ UNCHANGED <<source, remote, clone, upstream>> /\ git.at # "push"
    BY <1>11 DEF Report, Idle
  <2> QED
    BY <1>d, <2>1 DEF ContentInv, CloneCurrent, Holding
<1>12. CASE CallFails
  BY <1>0, <1>12, <1>c DEF CallFails, Fails, Return, GitTypeOK, Holding
<1> QED
  BY <1>1, <1>2, <1>3, <1>4, <1>5, <1>6, <1>7, <1>8, <1>9, <1>10, <1>11, <1>12
     DEF GitStep

\* Nobody but the controller writes to a repository.
LEMMA NobodyElse ==
  ASSUME MaxOutside = 0, TypeInv, NEW r \in Repos
  PROVE  ~PushedByUser(r) /\ ~DeletedByUser(r)
<1>1. spent.outside \in Nat
  BY DEF TypeInv, TypeOK, GitTypeOK
<1> QED
  BY <1>1 DEF PushedByUser, DeletedByUser

\* The steps that leave the repositories and their clones alone.
LEMMA OtherContent ==
  ASSUME MaxOutside = 0, TypeInv, ContentInv,
         [Next]_vars, ~(GitStep /\ UNCHANGED pkgVars)
  PROVE  ContentInv'
<1>0. GitTypeOK
  BY DEF TypeInv, TypeOK
<1> USE DEF ContentInv, CloneCurrent, Mirrors, Holding
<1>1. ASSUME NEW r \in Repos, Start(r) PROVE ContentInv'
  BY <1>1 DEF Start
<1>2. ASSUME NEW r \in Repos, Deliver(r) PROVE ContentInv'
  BY <1>2 DEF Deliver
<1>3. CASE Outside
  <2>1. PICK p \in Places : Edit(p)
    BY <1>3, NobodyElse DEF Outside
  <2>2. \A q \in Places : source'[q] # {}
    BY <1>0, <2>1 DEF Edit, GitTypeOK
  <2> QED
    BY <2>1, <2>2 DEF Edit
<1>4. CASE PkgStep
  <2>1. \A u \in Urls : upstream[u] # {} => upstream'[u] # {}
    <3>1. CASE PkgRead
      BY <1>0, <3>1 DEF PkgRead, Refreshed, Places
    <3> QED
      BY <1>4, <3>1 DEF PkgStep, PkgLock, PkgSource, PkgApply, PkgReport, PkgFails
  <2>2. UNCHANGED <<source, remote, clone, git>>
    BY <1>4 DEF PkgStep, PkgLock, PkgRead, PkgSource, PkgApply, PkgReport, PkgFails
  <2> QED
    BY <2>1, <2>2
<1>5. ASSUME NEW p \in Packages, PkgStart(p) PROVE ContentInv'
  BY <1>5 DEF PkgStart
<1>6. CASE Restart
  <2>1. /\ UNCHANGED <<source, remote>> /\ git'.at = "idle"
        /\ \A r \in Repos : clone'[r] = NoClone
    BY <1>6 DEF Restart, Restarted, Idle
  <2> QED
    BY <2>1
<1>7. CASE UNCHANGED vars
  BY <1>7 DEF vars
<1> QED
  BY <1>1, <1>2, <1>3, <1>4, <1>5, <1>6, <1>7 DEF Next

LEMMA NextContent ==
  ASSUME ~PushFails, MaxOutside = 0
  PROVE  TypeInv /\ ContentInv /\ [Next]_vars => ContentInv'
  BY GitContent, OtherContent

-----------------------------------------------------------------------------
(* Where the URLs come from *)

\* Whoever knows an internal URL knows one of a repository that is filled.
UrlInv ==
    /\ \A r \in Repos : status[r].url => Holds(r)
    /\ \A r \in Repos : seen[r].url => Holds(r)
    /\ git.at # "idle" /\ git.url => Holds(git.repo)
    /\ pkg.at # "idle" => \A i \in DOMAIN pkg.urls : pkg.urls[i] => Holds(Sources[pkg.pkg][i])
    /\ \A p \in Packages : \A i \in DOMAIN app[p] : app[p][i] => Holds(Sources[p][i])

\* The indices of what a pass has found are sources of its package.
SourcesInv ==
    /\ pkg.at # "idle" => Len(pkg.urls) <= Len(Sources[pkg.pkg])
    /\ \A p \in Packages : app[p] # <<>> => Len(app[p]) = Len(Sources[p])

LEMMA InitUrl == Init => UrlInv /\ SourcesInv
  BY DEF Init, GitInit, Idle, NoPass, UrlInv, SourcesInv

LEMMA NextSources == TypeInv /\ SourcesInv /\ [Next]_vars => SourcesInv'
<1> SUFFICES ASSUME TypeInv, SourcesInv, [Next]_vars PROVE SourcesInv'
  OBVIOUS
<1>0. PkgWorks /\ app \in [Packages -> Seq(BOOLEAN)]
      /\ pkg \in [at : {"idle", "lock", "read", "source", "apply", "report"},
                  pkg : Packages \cup {NoPackage}, synced : BOOLEAN, urls : Seq(BOOLEAN)]
  BY DEF TypeInv, TypeOK
<1>1. CASE UNCHANGED pkgVars
  BY <1>1 DEF SourcesInv
<1>2. CASE PkgSource
  BY <1>0, <1>2 DEF PkgSource, PkgWorks, SourcesInv
<1>3. CASE PkgApply
  <2>1. /\ pkg.pkg \in Packages /\ Len(pkg.urls) = Len(Sources[pkg.pkg])
        /\ pkg'.pkg = pkg.pkg /\ pkg'.urls = pkg.urls
    BY <1>0, <1>3 DEF PkgApply, PkgWorks
  <2>2. \A p \in Packages : app'[p] = app[p] \/ (p = pkg.pkg /\ app'[p] = pkg.urls)
    BY <1>0, <1>3 DEF PkgApply
  <2> QED
    BY <1>3, <2>1, <2>2 DEF PkgApply, SourcesInv
<1>4. CASE PkgLock \/ PkgRead \/ PkgFails
  BY <1>0, <1>4 DEF PkgLock, PkgRead, PkgFails, SourcesInv
<1>5. CASE PkgReport \/ Restart
  BY <1>5 DEF PkgReport, Restart, NoPass, SourcesInv
<1>6. ASSUME NEW p \in Packages, PkgStart(p) PROVE SourcesInv'
  BY <1>6, PackageAssumption DEF PkgStart, SourcesInv
<1>7. CASE UNCHANGED vars
  BY <1>7 DEF vars, SourcesInv
<1> QED
  BY <1>1, <1>2, <1>3, <1>4, <1>5, <1>6, <1>7 DEF Next, PkgStep

\* The steps that change what is in Gitea.
LEMMA RemoteChanges ==
  ASSUME ~PushFails, MaxOutside = 0, TypeInv, [Next]_vars, remote' # remote
  PROVE  Create \/ (Push /\ Accept(git.repo) /\ CanPush(git.repo))
<1>1. CASE GitStep
  BY <1>1 DEF GitStep, Find, LockSource, CopySource, LockTarget, CloneTarget, Write,
              Commit, Push, PushLost, Report, CallFails, Fails
<1>2. CASE PkgStep
  BY <1>2 DEF PkgStep, PkgLock, PkgRead, PkgSource, PkgApply, PkgReport, PkgFails
<1>3. CASE Outside
  BY <1>3, NobodyElse DEF Outside, Edit
<1> QED
  BY <1>1, <1>2, <1>3 DEF Next, vars, Start, Deliver, PkgStart, Restart, Restarted

LEMMA HoldsKept ==
  ASSUME ~PushFails, MaxOutside = 0, TypeInv, ContentInv, [Next]_vars,
         NEW r \in Repos, Holds(r)
  PROVE  Holds(r)'
<1>0. GitTypeOK /\ GitWorks
  BY DEF TypeInv, TypeOK
<1>1. CASE Create
  BY <1>0, <1>1 DEF Create, ContentInv, Holds, GitTypeOK
<1>2. CASE Push /\ Accept(git.repo) /\ CanPush(git.repo)
  <2>1. git.repo \in Repos /\ Full(clone[git.repo].head)
    BY <1>0, <1>2 DEF Push, CanPush, ContentInv, GitWorks
  <2>2. remote' = [remote EXCEPT ![git.repo] =
           [exists |-> TRUE, tip |-> remote[git.repo].tip + 1, files |-> clone[git.repo].head]]
    BY <1>2 DEF Accept
  <2>3. \/ remote'[r] = remote[r]
        \/ remote'[r].exists /\ remote'[r].files = clone[git.repo].head
    BY <1>0, <2>1, <2>2 DEF GitTypeOK
  <2> QED
    BY <2>1, <2>3 DEF Holds, Full
<1>3. CASE remote' = remote
  BY <1>3 DEF Holds
<1> QED
  BY <1>1, <1>2, <1>3, RemoteChanges

\* A pass that succeeds leaves a repository that is filled.
LEMMA SuccessHolds ==
  ASSUME ~PushFails, MaxOutside = 0, TypeInv, ContentInv, GitStep,
         git'.at = "report", git'.synced
  PROVE  remote'[git.repo].exists /\ Full(remote'[git.repo].files)
<1>0. GitTypeOK /\ GitWorks
  BY DEF TypeInv, TypeOK
<1>1. CASE Commit
  <2>1. git.repo \in Repos /\ clone[git.repo] # NoClone /\ clone[git.repo].ahead \in BOOLEAN
    BY <1>0, <1>1, CloneOf DEF Commit, GitWorks
  <2>2. clone[git.repo].wt = clone[git.repo].head /\ remote' = remote
    BY <1>0, <1>1 DEF Commit, Goto, GitTypeOK
  <2>3. remote[git.repo].exists /\ clone[git.repo].head = remote[git.repo].files
        /\ Full(clone[git.repo].wt)
    BY <1>1, <2>1 DEF Commit, ContentInv, CloneCurrent
  <2> QED
    BY <2>2, <2>3 DEF Holds
<1>2. CASE Push
  <2>1. Accept(git.repo) /\ CanPush(git.repo)
    BY <1>0, <1>2 DEF Push, Return, GitTypeOK
  <2>2. git.repo \in Repos /\ Full(clone[git.repo].head)
    BY <1>0, <1>2, <2>1 DEF Push, CanPush, ContentInv, GitWorks
  <2> QED
    BY <1>0, <2>1, <2>2 DEF Accept, Holds, GitTypeOK
<1>3. CASE Find
  <2>1. git'.at \in {"create", "lockSource", "lockTarget"}
    BY <1>0, <1>3 DEF Find, GitTypeOK
  <2> QED
    BY <2>1
<1>6. CASE Create
  <2>1. git'.at \in {"lockSource", "lockTarget"}
    BY <1>0, <1>6 DEF Create, Goto, GitTypeOK
  <2> QED
    BY <2>1
<1>7. CASE Report
  <2>1. git'.at = "idle"
    BY <1>7 DEF Report, Idle
  <2> QED
    BY <2>1
<1>5. CASE LockSource \/ CopySource \/ LockTarget \/ Write
  BY <1>0, <1>5 DEF LockSource, CopySource, LockTarget, Write, Goto, GitTypeOK
<1>4. CASE CloneTarget \/ PushLost \/ CallFails
  BY <1>0, <1>4 DEF CloneTarget, PushLost, CallFails, Fails, Goto, Return, GitTypeOK
<1> QED
  BY <1>1, <1>2, <1>3, <1>4, <1>5, <1>6, <1>7 DEF GitStep

\* The URL in the copy of a pass changes only when the pass succeeds.
LEMMA UrlOfPass ==
  ASSUME TypeInv, GitStep
  PROVE  \/ git'.at = "idle"
         \/ /\ git'.repo = git.repo /\ git.at # "idle"
            /\ git'.url = git.url \/ (git'.at = "report" /\ git'.synced)
<1>0. GitTypeOK
  BY DEF TypeInv, TypeOK
<1>1. CASE Report
  BY <1>1 DEF Report, Idle
<1>2. CASE CallFails \/ PushLost
  BY <1>0, <1>2 DEF CallFails, PushLost, Fails, Return, GitTypeOK
<1>3. CASE Commit \/ Push \/ CloneTarget
  BY <1>0, <1>3 DEF Commit, Push, CloneTarget, Return, Goto, GitTypeOK
<1>4. CASE Find \/ Create \/ LockSource \/ CopySource \/ LockTarget \/ Write
  BY <1>0, <1>4
     DEF Find, Create, LockSource, CopySource, LockTarget, Write, Goto, GitTypeOK
<1> QED
  BY <1>1, <1>2, <1>3, <1>4 DEF GitStep

\* The steps that change the stored status, or the cache's copy of it.
LEMMA StatusChanges ==
  ASSUME TypeInv, [Next]_vars, NEW r \in Repos
  PROVE  /\ \/ status'[r] = status[r]
            \/ Report /\ git.fresh /\ git.repo = r /\ status'[r].url = git.url
         /\ seen'[r] \in {seen[r], status[r]}
<1>0. GitTypeOK
  BY DEF TypeInv, TypeOK
<1>1. CASE Report /\ UNCHANGED pkgVars
  BY <1>0, <1>1 DEF Report, GitTypeOK
<1>2. ASSUME NEW q \in Repos, Deliver(q) PROVE seen'[r] \in {seen[r], status[r]} /\ status' = status
  BY <1>0, <1>2 DEF Deliver, GitTypeOK
<1>3. CASE Restart
  BY <1>3 DEF Restart, Restarted
<1>4. CASE PkgStep
  BY <1>4 DEF PkgStep, PkgLock, PkgRead, PkgSource, PkgApply, PkgReport, PkgFails
<1>5. CASE Outside
  BY <1>5 DEF Outside, Edit, PushedByUser, DeletedByUser
<1>6. CASE GitStep /\ ~Report
  BY <1>6 DEF GitStep, Find, Create, LockSource, CopySource, LockTarget, CloneTarget,
              Write, Commit, Push, PushLost, CallFails, Fails
<1> QED
  BY <1>1, <1>2, <1>3, <1>4, <1>5, <1>6 DEF Next, vars, Start, PkgStart, GitStep

LEMMA NextUrl ==
  ASSUME ~PushFails, MaxOutside = 0, TypeInv, ContentInv, UrlInv, SourcesInv, [Next]_vars
  PROVE  UrlInv'
<1>0. /\ GitTypeOK /\ GitWorks /\ PkgWorks /\ app \in [Packages -> Seq(BOOLEAN)]
      /\ pkg \in [at : {"idle", "lock", "read", "source", "apply", "report"},
                  pkg : Packages \cup {NoPackage}, synced : BOOLEAN, urls : Seq(BOOLEAN)]
  BY DEF TypeInv, TypeOK
<1>a. \A r \in Repos : Holds(r) => Holds(r)'
  BY HoldsKept
<1>b. \A p \in Packages : Sources[p] \in Seq(Repos)
  BY PackageAssumption
<1>1. \A r \in Repos : (status'[r].url => Holds(r)') /\ (seen'[r].url => Holds(r)')
  <2> SUFFICES ASSUME NEW r \in Repos
               PROVE  (status'[r].url => Holds(r)') /\ (seen'[r].url => Holds(r)')
    OBVIOUS
  <2>1. /\ \/ status'[r] = status[r]
           \/ Report /\ git.repo = r /\ status'[r].url = git.url
        /\ seen'[r] \in {seen[r], status[r]}
    BY StatusChanges
  <2>2. status'[r].url => Holds(r)
    BY <2>1 DEF UrlInv, Report
  <2>3. seen'[r].url => Holds(r)
    BY <2>1 DEF UrlInv
  <2> QED
    BY <1>a, <2>2, <2>3
<1>2. git'.at # "idle" /\ git'.url =>
        remote'[git'.repo].exists /\ Full(remote'[git'.repo].files)
  <2> SUFFICES ASSUME git'.at # "idle", git'.url
               PROVE  remote'[git'.repo].exists /\ Full(remote'[git'.repo].files)
    OBVIOUS
  <2>1. CASE GitStep
    <3>1. git'.repo = git.repo /\ git.at # "idle" /\ git.repo \in Repos
      BY <1>0, <2>1, UrlOfPass DEF GitWorks
    <3>2. CASE git'.url = git.url
      BY <1>a, <3>1, <3>2 DEF UrlInv, Holds
    <3>3. CASE git'.at = "report" /\ git'.synced
      BY <2>1, <3>1, <3>3, SuccessHolds
    <3> QED
      BY <2>1, <3>2, <3>3, UrlOfPass
  <2>2. ASSUME NEW r \in Repos, Start(r)
        PROVE  remote'[git'.repo].exists /\ Full(remote'[git'.repo].files)
    BY <1>a, <2>2 DEF Start, UrlInv, Holds
  <2>3. CASE UNCHANGED git
    BY <1>0, <1>a, <2>3 DEF UrlInv, Holds, GitWorks
  <2>4. CASE Restart
    BY <2>4 DEF Restart, Restarted, Idle
  <2>5. CASE PkgStep
    BY <2>3, <2>5 DEF PkgStep, PkgLock, PkgRead, PkgSource, PkgApply, PkgReport, PkgFails
  <2> QED
    BY <2>1, <2>2, <2>3, <2>4, <2>5
       DEF Next, vars, Deliver, Outside, Edit, PushedByUser, DeletedByUser, PkgStart
<1>3. pkg'.at # "idle" =>
        \A i \in DOMAIN pkg'.urls : pkg'.urls[i] =>
          /\ remote'[Sources[pkg'.pkg][i]].exists
          /\ Full(remote'[Sources[pkg'.pkg][i]].files)
  <2> SUFFICES ASSUME pkg'.at # "idle", NEW i \in DOMAIN pkg'.urls, pkg'.urls[i]
               PROVE  /\ remote'[Sources[pkg'.pkg][i]].exists
                      /\ Full(remote'[Sources[pkg'.pkg][i]].files)
    OBVIOUS
  <2>1. CASE pkg' = pkg
    <3>1. Sources[pkg.pkg][i] \in Repos
      BY <1>0, <1>b, <2>1 DEF PkgWorks, SourcesInv
    <3> QED
      BY <1>a, <2>1, <3>1 DEF UrlInv, Holds
  <2>2. CASE PkgSource
    <3> DEFINE r == Sources[pkg.pkg][Len(pkg.urls) + 1]
    <3>1. /\ pkg.pkg \in Packages /\ Len(pkg.urls) < Len(Sources[pkg.pkg])
          /\ pkg'.pkg = pkg.pkg /\ pkg'.urls = Append(pkg.urls, seen[r].url)
      BY <1>0, <2>2 DEF PkgSource, PkgWorks
    <3>2. r \in Repos
      BY <1>0, <1>b, <3>1
    <3>3. CASE i \in DOMAIN pkg.urls
      <4>1. pkg.urls[i] /\ Sources[pkg.pkg][i] \in Repos
        BY <1>0, <1>b, <3>1, <3>3
      <4>2. Holds(Sources[pkg.pkg][i])
        BY <2>2, <3>3, <4>1 DEF UrlInv, PkgSource
      <4> QED
        BY <1>a, <3>1, <4>1, <4>2 DEF Holds
    <3>4. CASE i \notin DOMAIN pkg.urls
      <4>1. i = Len(pkg.urls) + 1 /\ seen[r].url
        BY <1>0, <3>1, <3>4
      <4>2. Holds(r)
        BY <3>2, <4>1 DEF UrlInv
      <4> QED
        BY <1>a, <3>1, <3>2, <4>1, <4>2 DEF Holds
    <3> QED
      BY <3>3, <3>4
  <2>3. CASE pkg'.urls = pkg.urls /\ pkg'.pkg = pkg.pkg /\ pkg.at # "idle"
    <3>1. Sources[pkg.pkg][i] \in Repos
      BY <1>0, <1>b, <2>3 DEF PkgWorks, SourcesInv
    <3> QED
      BY <1>a, <2>3, <3>1 DEF UrlInv, Holds
  <2>4. CASE PkgLock \/ PkgRead \/ PkgApply \/ PkgFails
    BY <1>0, <2>3, <2>4 DEF PkgLock, PkgRead, PkgApply, PkgFails
  <2>5. CASE PkgReport \/ Restart
    BY <2>5 DEF PkgReport, Restart, NoPass
  <2>6. ASSUME NEW p \in Packages, PkgStart(p) PROVE FALSE
    BY <2>6 DEF PkgStart
  <2> QED
    BY <2>1, <2>2, <2>4, <2>5, <2>6 DEF Next, PkgStep, vars
<1>4. \A p \in Packages : \A i \in DOMAIN app'[p] : app'[p][i] => Holds(Sources[p][i])'
  <2> SUFFICES ASSUME NEW p \in Packages, NEW i \in DOMAIN app'[p], app'[p][i]
               PROVE  Holds(Sources[p][i])'
    OBVIOUS
  <2>1. CASE app'[p] = app[p]
    <3>1. Sources[p][i] \in Repos
      BY <1>0, <1>b, <2>1 DEF SourcesInv
    <3> QED
      BY <1>a, <2>1, <3>1 DEF UrlInv
  <2>2. CASE PkgApply
    <3>1. pkg.at # "idle" /\ Len(pkg.urls) = Len(Sources[pkg.pkg])
      BY <1>0, <2>2 DEF PkgApply, PkgWorks
    <3>2. app'[p] = app[p] \/ (p = pkg.pkg /\ app'[p] = pkg.urls)
      BY <1>0, <2>2 DEF PkgApply
    <3>3. CASE p = pkg.pkg /\ app'[p] = pkg.urls
      <4>1. Sources[p][i] \in Repos
        BY <1>0, <1>b, <3>1, <3>3
      <4> QED
        BY <1>a, <3>1, <3>3, <4>1 DEF UrlInv
    <3> QED
      BY <2>1, <3>2, <3>3
  <2>3. CASE app' = app
    BY <2>1, <2>3
  <2> QED
    BY <2>2, <2>3 DEF Next, PkgStep, vars, PkgLock, PkgRead, PkgSource, PkgReport,
                      PkgFails, PkgStart, Restart
<1> QED
  BY <1>1, <1>2, <1>3, <1>4 DEF UrlInv, Holds

LEMMA UrlSeeded == SourcesInv /\ UrlInv => AppSeeded
  BY NamesApart DEF UrlInv, AppSeeded, Seeded, Holds, Full

\* AppSeeded: an Application never reads a repository in Gitea that has not been
\* filled, as long as no push is lost and no user writes to Gitea.
THEOREM NoEmptyApplication ==
  ASSUME ~PushFails, MaxOutside = 0 PROVE Spec => []AppSeeded
<1>1. TypeInv /\ ContentInv /\ [Next]_vars => ContentInv'
  BY NextContent
<1>2. Spec => []ContentInv
  BY <1>1, InitContent, Typed, PTL DEF Spec
<1>3. Spec => []SourcesInv
  BY InitUrl, NextSources, Typed, PTL DEF Spec
<1>4. TypeInv /\ ContentInv /\ UrlInv /\ SourcesInv /\ [Next]_vars => UrlInv'
  BY NextUrl
<1>5. Spec => []UrlInv
  BY <1>2, <1>3, <1>4, InitUrl, Typed, PTL DEF Spec
<1> QED
  BY <1>3, <1>5, UrlSeeded, PTL

-----------------------------------------------------------------------------
(* A URL once known is not forgotten *)

\* The repository of a stored URL is there, and the cache trails behind the status.
KeptStatus ==
    \A r \in Repos : /\ seen[r].url => status[r].url
                     /\ status[r].url => remote[r].exists

\* A pass over a repository that is there finds its URL and writes it again.
KeptGit ==
    /\ git.at # "idle" /\ (git.url \/ git.info) => remote[git.repo].exists
    /\ git.at = "create" => ~remote[git.repo].exists
    /\ git.at # "idle" /\ git.fresh /\ status[git.repo].url => git.url
    /\ git.at \notin {"idle", "find", "report"} /\ status[git.repo].url => git.info

\* The Applications trail behind the cache, and a pass finds what they know.
KeptPkg ==
    /\ \A p \in Packages : \A i \in DOMAIN app[p] : app[p][i] => seen[Sources[p][i]].url
    /\ pkg.at # "idle" => \A i \in DOMAIN pkg.urls :
                            /\ pkg.urls[i] => seen[Sources[pkg.pkg][i]].url
                            /\ i \in DOMAIN app[pkg.pkg] /\ app[pkg.pkg][i] => pkg.urls[i]

KeptInv == KeptStatus /\ KeptGit /\ KeptPkg

LEMMA InitKept == Init => KeptInv
  BY DEF Init, GitInit, Idle, NoPass, KeptInv, KeptStatus, KeptGit, KeptPkg

\* Nobody but a user removes a repository from Gitea.
LEMMA ExistsKept ==
  ASSUME MaxOutside = 0, TypeInv, [Next]_vars, NEW r \in Repos, remote[r].exists
  PROVE  remote'[r].exists
<1>0. GitTypeOK /\ GitWorks
  BY DEF TypeInv, TypeOK
<1>1. CASE Create
  BY <1>0, <1>1 DEF Create, GitTypeOK, GitWorks
<1>2. CASE Push \/ PushLost
  <2>1. UNCHANGED remote \/ Accept(git.repo)
    BY <1>2 DEF Push, PushLost
  <2>2. CASE Accept(git.repo)
    BY <1>0, <2>2 DEF Accept, GitTypeOK
  <2> QED
    BY <2>1, <2>2
<1>3. CASE remote' = remote
  BY <1>3
<1>4. CASE GitStep
  BY <1>1, <1>2, <1>3, <1>4
     DEF GitStep, Find, LockSource, CopySource, LockTarget, CloneTarget, Write, Commit,
         Report, CallFails, Fails
<1>5. CASE PkgStep
  BY <1>3, <1>5 DEF PkgStep, PkgLock, PkgRead, PkgSource, PkgApply, PkgReport, PkgFails
<1>6. CASE Outside
  BY <1>3, <1>6, NobodyElse DEF Outside, Edit
<1> QED
  BY <1>3, <1>4, <1>5, <1>6 DEF Next, vars, Start, Deliver, PkgStart, Restart, Restarted

LEMMA StatusKept ==
  ASSUME TypeInv, KeptInv, [Next]_vars, NEW r \in Repos
  PROVE  /\ status[r].url => status'[r].url
         /\ seen[r].url => seen'[r].url
<1>1. CASE status'[r] = status[r]
  BY <1>1, StatusChanges DEF KeptInv, KeptStatus
<1>2. CASE Report /\ git.fresh /\ git.repo = r /\ status'[r].url = git.url
  BY <1>2, StatusChanges DEF KeptInv, KeptStatus, KeptGit, Report
<1> QED
  BY <1>1, <1>2, StatusChanges

LEMMA NextKeptStatus ==
  ASSUME MaxOutside = 0, TypeInv, KeptInv, [Next]_vars PROVE KeptStatus'
<1> SUFFICES ASSUME NEW r \in Repos
             PROVE  /\ seen'[r].url => status'[r].url
                    /\ status'[r].url => remote'[r].exists
  BY DEF KeptStatus
<1>1. seen'[r].url => status'[r].url
  BY StatusKept, StatusChanges DEF KeptInv, KeptStatus
<1>2. status'[r].url => remote[r].exists
  BY StatusChanges DEF KeptInv, KeptStatus, KeptGit, Report
<1> QED
  BY <1>1, <1>2, ExistsKept

\* The steps of a pass, one by one: what they do to the URL and to what is
\* known of it.
LEMMA GitKept ==
  ASSUME MaxOutside = 0, TypeInv, KeptInv, GitStep, UNCHANGED pkgVars, [Next]_vars
  PROVE  KeptGit'
<1>0. /\ GitTypeOK /\ GitWorks
      /\ git.repo \in Repos
  BY DEF TypeInv, TypeOK, GitStep, GitWorks, Find, Create, LockSource, CopySource,
         LockTarget, CloneTarget, Write, Commit, Push, PushLost, Report, CallFails
<1>1. CASE Report
  <2>1. git'.at = "idle"
    BY <1>1 DEF Report, Idle
  <2> QED
    BY <2>1 DEF KeptGit
<1>a. CASE ~Report
  <2>1. status' = status /\ git'.repo = git.repo /\ git'.fresh = git.fresh /\ git.at # "idle"
    <3>1. CASE CallFails \/ PushLost
      BY <1>0, <3>1 DEF CallFails, PushLost, Fails, Return, GitTypeOK
    <3>2. CASE Commit \/ Push \/ CloneTarget
      <4>1. \/ Return(TRUE) \/ Return(FALSE)
            \/ Goto("write") \/ Goto("push")
        BY <3>2 DEF Commit, Push, CloneTarget
      <4>2. git'.repo = git.repo /\ git'.fresh = git.fresh
        BY <1>0, <4>1 DEF Return, Goto, GitTypeOK
      <4> QED
        BY <3>2, <4>2 DEF Commit, Push, CloneTarget
    <3>3. CASE Find \/ Create \/ LockSource \/ CopySource \/ LockTarget \/ Write
      BY <1>0, <3>3
         DEF Find, Create, LockSource, CopySource, LockTarget, Write, Goto, GitTypeOK
    <3> QED
      BY <1>a, <3>1, <3>2, <3>3 DEF GitStep
  <2>2. remote[git.repo].exists => remote'[git.repo].exists
    BY <1>0, ExistsKept
  <2>3. CASE Find
    <3>1. remote' = remote /\ git'.url = git.url /\ git'.info = remote[git.repo].exists
          /\ (git'.at = "create" => ~remote[git.repo].exists)
      BY <1>0, <2>3 DEF Find, GitTypeOK
    <3> QED
      BY <1>0, <2>1, <3>1 DEF KeptInv, KeptStatus, KeptGit
  <2>4. CASE /\ git'.at # "create" /\ git.at # "find"
             /\ git'.url = git.url /\ git'.info = git.info
             /\ git.at # "report"
    BY <2>1, <2>2, <2>4 DEF KeptInv, KeptGit
  <2>5. CASE Create \/ LockSource \/ CopySource \/ LockTarget \/ Write
    <3>1. /\ git'.at \in {"lockSource", "copySource", "lockTarget", "cloneTarget", "commit"}
          /\ git'.url = git.url /\ git'.info = git.info
          /\ git.at \notin {"find", "report"}
      BY <1>0, <2>5 DEF Create, LockSource, CopySource, LockTarget, Write, Goto, GitTypeOK
    <3> QED
      BY <2>4, <3>1
  <2>6. CASE (CloneTarget \/ Commit) /\ (Goto("write") \/ Goto("push"))
    <3>1. /\ git'.at \in {"write", "push"}
          /\ git'.url = git.url /\ git'.info = git.info
      BY <1>0, <2>6 DEF Goto, GitTypeOK
    <3>2. git.at \notin {"find", "report"}
      BY <2>6 DEF CloneTarget, Commit
    <3> QED
      BY <2>4, <3>1, <3>2
  <2>7. CASE Return(FALSE)
    <3>1. git'.at = "report" /\ git'.url = git.url /\ git'.info = git.info
      BY <1>0, <2>7 DEF Return, GitTypeOK
    <3> QED
      BY <2>1, <2>2, <3>1 DEF KeptInv, KeptGit
  <2>8. CASE Return(TRUE) /\ git.at \notin {"idle", "find", "report"}
    <3>1. git'.at = "report" /\ git'.url = git.info /\ git'.info = git.info
      BY <1>0, <2>8 DEF Return, GitTypeOK
    <3> QED
      BY <2>1, <2>2, <2>8, <3>1 DEF KeptInv, KeptGit
  <2> QED
    BY <1>a, <2>3, <2>5, <2>6, <2>7, <2>8
       DEF GitStep, CloneTarget, Commit, Push, PushLost, CallFails, Fails
<1> QED
  BY <1>1, <1>a

LEMMA NextKeptGit ==
  ASSUME MaxOutside = 0, TypeInv, KeptInv, [Next]_vars PROVE KeptGit'
<1>1. CASE GitStep /\ UNCHANGED pkgVars
  BY <1>1, GitKept
<1>2. ASSUME NEW r \in Repos, Start(r) PROVE KeptGit'
  <2>1. /\ git'.at = "find" /\ git'.repo = r /\ git'.url = seen[r].url /\ ~git'.info
        /\ git'.fresh = (seen[r] = status[r]) /\ status' = status /\ remote' = remote
    BY <1>2 DEF Start
  <2>2. /\ seen[r].url => remote[r].exists
        /\ seen[r] = status[r] /\ status[r].url => seen[r].url
    BY DEF KeptInv, KeptStatus
  <2> QED
    BY <2>1, <2>2 DEF KeptGit
<1>3. CASE Restart
  BY <1>3 DEF Restart, Restarted, Idle, KeptGit
<1>4. CASE UNCHANGED <<git, status, remote>>
  BY <1>4 DEF KeptInv, KeptGit
<1>5. CASE PkgStep
  BY <1>4, <1>5 DEF PkgStep, PkgLock, PkgRead, PkgSource, PkgApply, PkgReport, PkgFails
<1>6. CASE Outside
  BY <1>4, <1>6, NobodyElse DEF Outside, Edit
<1> QED
  BY <1>1, <1>2, <1>3, <1>4, <1>5, <1>6 DEF Next, vars, Deliver, PkgStart

LEMMA NextKeptPkg ==
  ASSUME TypeInv, SourcesInv, KeptInv, [Next]_vars PROVE KeptPkg'
<1>0. /\ PkgWorks /\ app \in [Packages -> Seq(BOOLEAN)]
      /\ pkg \in [at : {"idle", "lock", "read", "source", "apply", "report"},
                  pkg : Packages \cup {NoPackage}, synced : BOOLEAN, urls : Seq(BOOLEAN)]
  BY DEF TypeInv, TypeOK
<1>a. \A r \in Repos : seen[r].url => seen'[r].url
  BY StatusKept
<1>b. \A p \in Packages : Sources[p] \in Seq(Repos)
  BY PackageAssumption
<1>1. CASE PkgSource
  <2> DEFINE r == Sources[pkg.pkg][Len(pkg.urls) + 1]
  <2>1. /\ pkg.at = "source" /\ pkg.pkg \in Packages
        /\ Len(pkg.urls) < Len(Sources[pkg.pkg])
        /\ pkg'.pkg = pkg.pkg /\ pkg'.urls = Append(pkg.urls, seen[r].url)
        /\ app' = app /\ seen' = seen
    BY <1>0, <1>1 DEF PkgSource, PkgWorks
  <2>2. ASSUME NEW i \in DOMAIN pkg'.urls
        PROVE  /\ pkg'.urls[i] => seen[Sources[pkg.pkg][i]].url
               /\ i \in DOMAIN app[pkg.pkg] /\ app[pkg.pkg][i] => pkg'.urls[i]
    <3>1. CASE i \in DOMAIN pkg.urls
      <4>1. pkg'.urls[i] = pkg.urls[i]
        BY <1>0, <2>1, <3>1
      <4> QED
        BY <2>1, <3>1, <4>1 DEF KeptInv, KeptPkg
    <3>2. CASE i \notin DOMAIN pkg.urls
      <4>1. i = Len(pkg.urls) + 1 /\ pkg'.urls[i] = seen[Sources[pkg.pkg][i]].url
        BY <1>0, <2>1, <2>2, <3>2
      <4> QED
        BY <2>1, <4>1 DEF KeptInv, KeptPkg
    <3> QED
      BY <3>1, <3>2
  <2> QED
    BY <2>1, <2>2 DEF KeptInv, KeptPkg
<1>2. CASE PkgApply
  <2>1. /\ pkg.at # "idle" /\ pkg.pkg \in Packages
        /\ Len(pkg.urls) = Len(Sources[pkg.pkg])
        /\ pkg'.pkg = pkg.pkg /\ pkg'.urls = pkg.urls /\ seen' = seen
    BY <1>0, <1>2 DEF PkgApply, PkgWorks
  <2>2. \A p \in Packages : app'[p] = app[p] \/ (p = pkg.pkg /\ app'[p] = pkg.urls)
    BY <1>0, <1>2 DEF PkgApply
  <2>3. \A p \in Packages : \A i \in DOMAIN app'[p] : app'[p][i] => seen[Sources[p][i]].url
    BY <2>1, <2>2 DEF KeptInv, KeptPkg
  <2>4. \A i \in DOMAIN pkg.urls :
          /\ pkg.urls[i] => seen[Sources[pkg.pkg][i]].url
          /\ i \in DOMAIN app'[pkg.pkg] /\ app'[pkg.pkg][i] => pkg.urls[i]
    BY <2>1, <2>2 DEF KeptInv, KeptPkg
  <2> QED
    BY <2>1, <2>3, <2>4 DEF KeptPkg
<1>3. CASE app' = app
  <2>1. ASSUME NEW p \in Packages, NEW i \in DOMAIN app[p], app[p][i]
        PROVE  seen'[Sources[p][i]].url
    <3>1. Sources[p][i] \in Repos
      BY <1>0, <1>b DEF SourcesInv
    <3> QED
      BY <1>a, <2>1, <3>1 DEF KeptInv, KeptPkg
  <2>2. CASE pkg'.pkg = pkg.pkg /\ pkg'.urls = pkg.urls /\ pkg.at # "idle"
    <3>1. ASSUME NEW i \in DOMAIN pkg.urls
          PROVE  /\ pkg.urls[i] => seen'[Sources[pkg.pkg][i]].url
                 /\ i \in DOMAIN app[pkg.pkg] /\ app[pkg.pkg][i] => pkg.urls[i]
      <4>1. Sources[pkg.pkg][i] \in Repos
        BY <1>0, <1>b, <2>2 DEF PkgWorks, SourcesInv
      <4> QED
        BY <1>a, <2>2, <4>1 DEF KeptInv, KeptPkg
    <3> QED
      BY <1>3, <2>1, <2>2, <3>1 DEF KeptPkg
  <2>3. CASE pkg'.at = "idle" \/ pkg'.urls = <<>>
    BY <1>3, <2>1, <2>3 DEF KeptPkg
  <2>4. CASE pkg' = pkg
    BY <2>2, <2>3, <2>4
  <2>5. CASE PkgLock \/ PkgRead \/ PkgFails
    BY <1>0, <2>2, <2>5 DEF PkgLock, PkgRead, PkgFails
  <2>6. CASE PkgReport \/ Restart
    BY <2>3, <2>6 DEF PkgReport, Restart, NoPass
  <2>7. ASSUME NEW p \in Packages, PkgStart(p) PROVE KeptPkg'
    BY <2>3, <2>7 DEF PkgStart
  <2> QED
    BY <1>1, <1>2, <2>4, <2>5, <2>6, <2>7 DEF Next, PkgStep, vars
<1> QED
  BY <1>1, <1>2, <1>3 DEF Next, PkgStep, vars, PkgLock, PkgRead, PkgReport, PkgFails,
                          PkgStart, Restart

LEMMA KeptStep ==
  ASSUME TypeInv, SourcesInv, KeptInv, [Next]_vars,
         NEW p \in Packages, NEW i \in DOMAIN app[p], app[p][i]
  PROVE  app'[p][i]
<1>0. PkgWorks /\ app \in [Packages -> Seq(BOOLEAN)]
      /\ pkg \in [at : {"idle", "lock", "read", "source", "apply", "report"},
                  pkg : Packages \cup {NoPackage}, synced : BOOLEAN, urls : Seq(BOOLEAN)]
  BY DEF TypeInv, TypeOK
<1>1. CASE app' = app
  BY <1>1
<1>2. CASE PkgApply
  <2>1. app'[p] = app[p] \/ (p = pkg.pkg /\ app'[p] = pkg.urls)
    BY <1>0, <1>2 DEF PkgApply
  <2>2. /\ pkg.at # "idle"
        /\ Len(pkg.urls) = Len(Sources[pkg.pkg])
        /\ Len(app[p]) = Len(Sources[p])
    BY <1>0, <1>2 DEF PkgApply, PkgWorks, SourcesInv
  <2>3. p = pkg.pkg => i \in DOMAIN pkg.urls
    BY <1>0, <2>2
  <2>4. p = pkg.pkg => pkg.urls[i]
    BY <2>2, <2>3 DEF KeptInv, KeptPkg
  <2> QED
    BY <2>1, <2>4
<1> QED
  BY <1>1, <1>2 DEF Next, PkgStep, vars, PkgLock, PkgRead, PkgSource, PkgReport, PkgFails,
                    PkgStart, Restart

\* UrlKept: an Application that reads its in-cluster repository keeps doing so,
\* whatever fails, gets lost or restarts, as long as nobody deletes repositories
\* in Gitea.
THEOREM UrlsNotForgotten ==
  ASSUME MaxOutside = 0 PROVE Spec => UrlKept
<1>1. Spec => []SourcesInv
  BY InitUrl, NextSources, Typed, PTL DEF Spec
<1>2. TypeInv /\ SourcesInv /\ KeptInv /\ [Next]_vars => KeptInv'
  BY NextKeptStatus, NextKeptGit, NextKeptPkg DEF KeptInv
<1>3. Spec => []KeptInv
  BY <1>1, <1>2, InitKept, Typed, PTL DEF Spec
<1>4. TypeInv /\ SourcesInv /\ KeptInv /\ [Next]_vars
      => [\A p \in Packages : \A i \in DOMAIN app[p] : app[p][i] => app'[p][i]]_vars
  BY KeptStep
<1> QED
  BY <1>1, <1>3, <1>4, Typed, PTL DEF Spec, UrlKept

-----------------------------------------------------------------------------
(* The controllers implement PackageDelivery *)

\* Every source that counts for a package has its URL, as the cache has it.
Ready(p) == \A i \in DOMAIN Sources[p] \ InValues[p] : seen[Sources[p][i]].url

\* A package reported synced is ready, and so is one that a pass will report; a
\* pass over a synced package finds it synced again.
SettledInv ==
    /\ \A p \in Packages : pkgSynced[p] => Ready(p)
    /\ pkg.at # "idle" /\ pkg.synced => Ready(pkg.pkg)
    /\ pkg.at # "idle" /\ pkgSynced[pkg.pkg] =>
         pkg.synced /\ \A i \in DOMAIN pkg.urls \ InValues[pkg.pkg] : pkg.urls[i]

LEMMA InitSettled == Init => SettledInv
  BY DEF Init, NoPass, SettledInv

LEMMA ReadyKept ==
  ASSUME TypeInv, KeptInv, [Next]_vars, NEW p \in Packages, Ready(p)
  PROVE  Ready(p)'
<1>1. \A i \in DOMAIN Sources[p] : Sources[p][i] \in Repos
  BY PackageAssumption
<1>2. \A r \in Repos : seen[r].url => seen'[r].url
  BY StatusKept
<1> QED
  BY <1>1, <1>2 DEF Ready

LEMMA NextSettled ==
  ASSUME TypeInv, KeptInv, SettledInv, [Next]_vars PROVE SettledInv'
<1>0. /\ PkgWorks /\ pkgSynced \in [Packages -> BOOLEAN]
      /\ pkg \in [at : {"idle", "lock", "read", "source", "apply", "report"},
                  pkg : Packages \cup {NoPackage}, synced : BOOLEAN, urls : Seq(BOOLEAN)]
  BY DEF TypeInv, TypeOK
<1>a. \A p \in Packages : Ready(p) => Ready(p)'
  BY ReadyKept
<1>b. pkg.at # "idle" => pkg.pkg \in Packages
  BY <1>0 DEF PkgWorks
<1>c. \A p \in Packages : pkg.at # "idle" /\ pkg.synced /\ p = pkg.pkg => Ready(p)'
  BY <1>a, <1>b DEF SettledInv
<1>1. CASE /\ pkgSynced' = pkgSynced
           /\ \/ pkg'.at = "idle"
              \/ /\ pkg'.pkg = pkg.pkg /\ pkg'.synced = pkg.synced
                 /\ pkg'.urls = pkg.urls /\ pkg.at # "idle"
  BY <1>a, <1>b, <1>c, <1>1 DEF SettledInv, Ready
<1>2. CASE PkgSource
  <2> DEFINE r == Sources[pkg.pkg][Len(pkg.urls) + 1]
  <2>1. /\ pkg.at = "source" /\ pkg.pkg \in Packages
        /\ Len(pkg.urls) < Len(Sources[pkg.pkg])
        /\ pkg'.pkg = pkg.pkg /\ pkg'.synced = pkg.synced
        /\ pkg'.urls = Append(pkg.urls, seen[r].url)
        /\ pkgSynced' = pkgSynced
    BY <1>0, <1>2 DEF PkgSource, PkgWorks
  <2>2. ASSUME pkgSynced[pkg.pkg], NEW i \in DOMAIN pkg'.urls \ InValues[pkg.pkg]
        PROVE  pkg'.urls[i]
    <3>1. CASE i \in DOMAIN pkg.urls
      <4>1. pkg'.urls[i] = pkg.urls[i]
        BY <1>0, <2>1, <3>1
      <4> QED
        BY <2>1, <2>2, <3>1, <4>1 DEF SettledInv
    <3>2. CASE i \notin DOMAIN pkg.urls
      <4>1. i = Len(pkg.urls) + 1 /\ pkg'.urls[i] = seen[Sources[pkg.pkg][i]].url
        BY <1>0, <2>1, <2>2, <3>2
      <4>2. i \in DOMAIN Sources[pkg.pkg]
        BY <1>0, <2>1, <4>1, PackageAssumption
      <4> QED
        BY <2>1, <2>2, <4>1, <4>2 DEF SettledInv, Ready
    <3> QED
      BY <3>1, <3>2
  <2>3. pkg'.synced =>
          \A i \in DOMAIN Sources[pkg.pkg] \ InValues[pkg.pkg] :
             seen'[Sources[pkg.pkg][i]].url
    BY <1>c, <2>1 DEF Ready
  <2>4. pkgSynced[pkg.pkg] => pkg.synced
    BY <2>1 DEF SettledInv
  <2> QED
    BY <1>a, <2>1, <2>2, <2>3, <2>4 DEF SettledInv, Ready
<1>3. CASE PkgApply
  <2>1. /\ pkg.at # "idle" /\ pkg.pkg \in Packages
        /\ Len(pkg.urls) = Len(Sources[pkg.pkg])
        /\ pkg'.pkg = pkg.pkg /\ pkg'.urls = pkg.urls
        /\ pkg'.synced = SourcesSynced(pkg.pkg, pkg.urls)
        /\ pkgSynced' = pkgSynced /\ seen' = seen
    BY <1>0, <1>3 DEF PkgApply, PkgWorks
  <2>2. DOMAIN pkg.urls = DOMAIN Sources[pkg.pkg]
    BY <1>0, <2>1, PackageAssumption
  <2>3. SourcesSynced(pkg.pkg, pkg.urls) => Ready(pkg.pkg)
    BY <2>1, <2>2 DEF SourcesSynced, KeptInv, KeptPkg, Ready
  <2>4. pkgSynced[pkg.pkg] => SourcesSynced(pkg.pkg, pkg.urls)
    BY <2>1 DEF SourcesSynced, SettledInv
  <2> QED
    BY <1>a, <2>1, <2>3, <2>4 DEF SettledInv, Ready
<1>4. CASE PkgReport
  <2>1. /\ pkg.at = "report" /\ pkg.pkg \in Packages /\ pkg'.at = "idle"
        /\ \A p \in Packages : \/ pkgSynced'[p] = pkgSynced[p]
                               \/ p = pkg.pkg /\ pkgSynced'[p] = pkg.synced
    BY <1>0, <1>4 DEF PkgReport, PkgWorks, NoPass
  <2> QED
    BY <1>a, <1>c, <2>1 DEF SettledInv
<1>5. ASSUME NEW p \in Packages, PkgStart(p) PROVE SettledInv'
  <2>1. /\ pkg'.pkg = p /\ pkg'.synced = pkgSynced[p] /\ pkg'.urls = <<>>
        /\ pkgSynced' = pkgSynced
    BY <1>5 DEF PkgStart
  <2> QED
    BY <1>a, <2>1 DEF SettledInv, Ready
<1>6. CASE PkgLock \/ PkgRead \/ PkgFails
  BY <1>0, <1>1, <1>6 DEF PkgLock, PkgRead, PkgFails
<1>7. CASE Restart
  BY <1>1, <1>7 DEF Restart, NoPass
<1>8. CASE UNCHANGED pkgVars
  BY <1>1, <1>8
<1> QED
  BY <1>2, <1>3, <1>4, <1>5, <1>6, <1>7, <1>8 DEF Next, PkgStep, vars

\* Together: what the refinement needs.
DeliveryInv == TypeInv /\ SourcesInv /\ ContentInv /\ UrlInv /\ KeptInv /\ SettledInv

LEMMA InitDelivered == Init => DeliveryInv
  BY InitTyped, InitUrl, InitContent, InitKept, InitSettled DEF DeliveryInv

LEMMA NextDelivered ==
  ASSUME ~PushFails, MaxOutside = 0, DeliveryInv, [Next]_vars PROVE DeliveryInv'
<1> USE DEF DeliveryInv
<1>1. TypeInv' /\ SourcesInv' /\ ContentInv'
  BY NextTyped, NextSources, NextContent
<1>2. UrlInv' /\ KeptStatus' /\ KeptGit' /\ KeptPkg' /\ SettledInv'
  BY NextUrl, NextKeptStatus, NextKeptGit, NextKeptPkg, NextSettled
<1> QED
  BY <1>1, <1>2 DEF KeptInv

\* The four things a step may do to what PackageDelivery sees.
Unshown == UNCHANGED <<remote, status, app, pkgSynced>>

LEMMA OnlyThese ==
  ASSUME ~PushFails, MaxOutside = 0, DeliveryInv, [Next]_vars
  PROVE  \/ Unshown
         \/ /\ Create \/ (Push /\ Accept(git.repo) /\ CanPush(git.repo))
            /\ UNCHANGED <<status, app, pkgSynced>>
         \/ Report /\ git.fresh /\ UNCHANGED <<remote, app, pkgSynced>>
         \/ PkgApply /\ UNCHANGED <<remote, status, pkgSynced>>
         \/ PkgReport /\ UNCHANGED <<remote, status, app>>
<1> USE DEF Unshown
<1>1. CASE GitStep /\ UNCHANGED pkgVars
  <2>1. CASE Report
    BY <1>1, <2>1 DEF Report
  <2>2. CASE Create \/ Push
    BY <1>1, <2>2 DEF Create, Push
  <2>3. CASE ~Report /\ ~Create /\ ~Push
    BY <1>1, <2>3
       DEF GitStep, Find, LockSource, CopySource, LockTarget, CloneTarget, Write,
           Commit, PushLost, CallFails, Fails
  <2> QED
    BY <2>1, <2>2, <2>3
<1>2. CASE PkgStep
  BY <1>2 DEF PkgStep, PkgLock, PkgRead, PkgSource, PkgApply, PkgReport, PkgFails
<1>3. CASE Outside /\ UNCHANGED pkgVars
  <2>1. \E q \in Places : Edit(q)
    BY <1>3, NobodyElse DEF Outside, DeliveryInv
  <2> QED
    BY <1>3, <2>1 DEF Edit
<1> QED
  BY <1>1, <1>2, <1>3 DEF Next, vars, Start, Deliver, PkgStart, Restart, Restarted

\* A repository is made bare, and only a bare or a full one is filled.
LEMMA RemoteDelivers ==
  ASSUME DeliveryInv,
         Create \/ (Push /\ Accept(git.repo) /\ CanPush(git.repo)),
         UNCHANGED <<status, app, pkgSynced>>
  PROVE  [Delivery!DeliveryNext]_(Delivery!deliveryVars)
<1>0. GitTypeOK /\ GitWorks /\ git.repo \in Repos
  BY DEF DeliveryInv, TypeInv, TypeOK, GitWorks, Create, Push
<1> SUFFICES ASSUME NEW r \in Repos, r = git.repo
             PROVE  [Delivery!DeliveryNext]_(Delivery!deliveryVars)
  BY <1>0
<1> DEFINE Content == [q \in Repos |-> IF ~remote[q].exists THEN "none"
                            ELSE IF Full(remote[q].files) THEN "full" ELSE "bare"]
<1>1. CASE Create
  <2>1. ~remote[r].exists
    BY <1>1 DEF DeliveryInv, ContentInv, Create
  <2>2. /\ \A q \in Repos : q # r => remote'[q] = remote[q]
        /\ remote'[r].exists /\ remote'[r].files = {Readme}
    BY <1>0, <1>1 DEF Create, GitTypeOK
  <2>3. ~Full({Readme})
    BY NamesApart DEF Full
  <2>4. Content[r] = "none" /\ Content' = [Content EXCEPT ![r] = "bare"]
    BY <1>0, <2>1, <2>2, <2>3
  <2>5. Delivery!MakeRepo(r)
    BY <2>4 DEF Delivery!MakeRepo
  <2> QED
    BY <1>0, <2>5 DEF Delivery!DeliveryNext
<1>2. CASE Push /\ Accept(git.repo) /\ CanPush(git.repo)
  <2>1. remote[r].exists /\ Full(clone[r].head)
    BY <1>2 DEF DeliveryInv, ContentInv, Push, CanPush
  <2>2. /\ \A q \in Repos : q # r => remote'[q] = remote[q]
        /\ remote'[r].exists /\ remote'[r].files = clone[r].head
    BY <1>0, <1>2 DEF Accept, GitTypeOK
  <2>3. Content[r] \in {"bare", "full"} /\ Content' = [Content EXCEPT ![r] = "full"]
    BY <1>0, <2>1, <2>2
  <2>4. CASE Content[r] = "bare"
    <3>1. Delivery!Fill(r)
      BY <2>3, <2>4 DEF Delivery!Fill
    <3> QED
      BY <1>0, <3>1 DEF Delivery!DeliveryNext
  <2>5. CASE Content[r] = "full"
    <3>1. Content' = Content
      BY <1>0, <2>3, <2>5
    <3> QED
      BY <3>1 DEF Delivery!deliveryVars
  <2> QED
    BY <2>3, <2>4, <2>5
<1> QED
  BY <1>1, <1>2

\* The status of a repository: a URL is announced, or stays announced.
LEMMA ReportDelivers ==
  ASSUME DeliveryInv, [Next]_vars, Report, git.fresh,
         UNCHANGED <<remote, app, pkgSynced>>
  PROVE  [Delivery!DeliveryNext]_(Delivery!deliveryVars)
<1>0. GitTypeOK /\ GitWorks /\ git.repo \in Repos
  BY DEF DeliveryInv, TypeInv, TypeOK, GitWorks, Report
<1> SUFFICES ASSUME NEW r \in Repos, r = git.repo
             PROVE  [Delivery!DeliveryNext]_(Delivery!deliveryVars)
  BY <1>0
<1> DEFINE Announced == {q \in Repos : status[q].url}
<1>1. \A q \in Repos : q # r => status'[q] = status[q]
  BY <1>0 DEF Report, GitTypeOK
<1>2. CASE status'[r] = status[r]
  <2>1. Announced' = Announced
    BY <1>1, <1>2
  <2> QED
    BY <2>1 DEF Delivery!deliveryVars
<1>3. CASE status'[r] # status[r] /\ git.url
  <2>1. status'[r].url
    BY <1>0, <1>3 DEF Report, GitTypeOK
  <2>2. Announced' = Announced \cup {r}
    BY <1>0, <1>1, <2>1
  <2>3. Holds(r)
    BY <1>3 DEF DeliveryInv, UrlInv, Report
  <2>4. Delivery!Announce(r)
    BY <1>0, <2>2, <2>3 DEF Delivery!Announce, Holds
  <2> QED
    BY <1>0, <2>4 DEF Delivery!DeliveryNext
<1>4. CASE status'[r] # status[r] /\ ~git.url
  <2>1. ~status'[r].url
    BY <1>0, <1>4 DEF Report, GitTypeOK
  <2>2. ~status[r].url
    BY <1>0, <2>1, StatusKept DEF DeliveryInv
  <2>3. Announced' = Announced
    BY <1>1, <2>1, <2>2
  <2> QED
    BY <2>3 DEF Delivery!deliveryVars
<1> QED
  BY <1>2, <1>3, <1>4

\* The Application gets announced URLs, and keeps those it had.
LEMMA ApplyDelivers ==
  ASSUME DeliveryInv, [Next]_vars, PkgApply, UNCHANGED <<remote, status, pkgSynced>>
  PROVE  [Delivery!DeliveryNext]_(Delivery!deliveryVars)
<1>0. /\ PkgWorks /\ app \in [Packages -> Seq(BOOLEAN)]
      /\ pkg \in [at : {"idle", "lock", "read", "source", "apply", "report"},
                  pkg : Packages \cup {NoPackage}, synced : BOOLEAN, urls : Seq(BOOLEAN)]
  BY DEF DeliveryInv, TypeInv, TypeOK
<1>p. pkg.pkg \in Packages
  BY <1>0 DEF PkgApply, PkgWorks
<1> SUFFICES ASSUME NEW p \in Packages, p = pkg.pkg
             PROVE  [Delivery!DeliveryNext]_(Delivery!deliveryVars)
  BY <1>p
<1> DEFINE Reads == [q \in Packages |-> {i \in DOMAIN app[q] : app[q][i]}]
           found == {i \in DOMAIN pkg.urls : pkg.urls[i]}
<1>1. /\ p \in Packages /\ pkg.at # "idle"
      /\ Len(pkg.urls) = Len(Sources[p])
      /\ app' = app \/ app' = [app EXCEPT ![p] = pkg.urls]
  BY <1>0 DEF PkgApply, PkgWorks
<1>2. CASE app' = app
  BY <1>2 DEF Delivery!deliveryVars
<1>3. CASE app' = [app EXCEPT ![p] = pkg.urls]
  <2>1. \A i \in DOMAIN app[p] : app[p][i] => app'[p][i]
    BY <1>1, KeptStep DEF DeliveryInv
  <2>2. app'[p] = pkg.urls /\ \A q \in Packages : q # p => app'[q] = app[q]
    BY <1>0, <1>1, <1>3
  <2>3. Len(app[p]) = Len(Sources[p]) \/ app[p] = <<>>
    BY <1>1 DEF DeliveryInv, SourcesInv
  <2>4. DOMAIN app[p] \subseteq DOMAIN pkg.urls
    BY <1>0, <1>1, <2>3
  <2>5. Reads[p] \cup found = found
    BY <1>1, <2>1, <2>2, <2>4
  <2>a. \A q \in Packages : Reads'[q] = IF q = p THEN found ELSE Reads[q]
    BY <2>2
  <2>6. Reads' = [Reads EXCEPT ![p] = @ \cup found]
    BY <2>5, <2>a
  <2>7. DOMAIN pkg.urls = DOMAIN Sources[p]
    BY <1>0, <1>1, PackageAssumption
  <2>8. \A i \in found : /\ Sources[p][i] \in Repos
                         /\ status[Sources[p][i]].url
    BY <1>1, <2>7, PackageAssumption
       DEF DeliveryInv, KeptInv, KeptPkg, KeptStatus
  <2>9. found \in SUBSET {i \in DOMAIN Sources[p] :
                            Sources[p][i] \in {r \in Repos : status[r].url}}
    BY <2>7, <2>8
  <2>10. Delivery!Point(p)
    BY <2>6, <2>9 DEF Delivery!Point
  <2> QED
    BY <1>1, <2>10 DEF Delivery!DeliveryNext
<1> QED
  BY <1>1, <1>2, <1>3

\* A package is reported synced when all it counts is announced, and stays so.
LEMMA SettleDelivers ==
  ASSUME DeliveryInv, PkgReport, UNCHANGED <<remote, status, app>>
  PROVE  [Delivery!DeliveryNext]_(Delivery!deliveryVars)
<1>0. PkgWorks /\ pkgSynced \in [Packages -> BOOLEAN]
  BY DEF DeliveryInv, TypeInv, TypeOK
<1>p. pkg.pkg \in Packages
  BY <1>0 DEF PkgReport, PkgWorks
<1> SUFFICES ASSUME NEW p \in Packages, p = pkg.pkg
             PROVE  [Delivery!DeliveryNext]_(Delivery!deliveryVars)
  BY <1>p
<1> DEFINE Settled == {q \in Packages : pkgSynced[q]}
           CountedBy == [q \in Packages |-> DOMAIN Sources[q] \ InValues[q]]
<1>1. /\ p \in Packages /\ pkg.at # "idle"
      /\ pkgSynced' = pkgSynced \/ pkgSynced' = [pkgSynced EXCEPT ![p] = pkg.synced]
  BY <1>0 DEF PkgReport, PkgWorks
<1>2. CASE pkgSynced' = pkgSynced
  BY <1>2 DEF Delivery!deliveryVars
<1>3. CASE pkgSynced' = [pkgSynced EXCEPT ![p] = pkg.synced] /\ pkg.synced
  <2>1. Settled' = Settled \cup {p}
    BY <1>0, <1>1, <1>3
  <2>2. \A i \in CountedBy[p] : /\ Sources[p][i] \in Repos
                              /\ status[Sources[p][i]].url
    BY <1>1, <1>3, PackageAssumption
       DEF DeliveryInv, SettledInv, Ready, KeptInv, KeptStatus
  <2>3. Delivery!Settle(p)
    BY <2>1, <2>2 DEF Delivery!Settle
  <2> QED
    BY <1>1, <2>3 DEF Delivery!DeliveryNext
<1>4. CASE pkgSynced' = [pkgSynced EXCEPT ![p] = pkg.synced] /\ ~pkg.synced
  <2>1. ~pkgSynced[p]
    BY <1>1, <1>4 DEF DeliveryInv, SettledInv
  <2>2. Settled' = Settled
    BY <1>0, <1>1, <1>4, <2>1
  <2> QED
    BY <2>2 DEF Delivery!deliveryVars
<1> QED
  BY <1>1, <1>2, <1>3, <1>4

LEMMA DeliveryStep ==
  ASSUME ~PushFails, MaxOutside = 0, DeliveryInv, [Next]_vars
  PROVE  [Delivery!DeliveryNext]_(Delivery!deliveryVars)
<1>1. Unshown => UNCHANGED Delivery!deliveryVars
  BY DEF Unshown, Delivery!deliveryVars
<1> QED
  BY <1>1, OnlyThese, RemoteDelivers, ReportDelivers, ApplyDelivers, SettleDelivers

LEMMA DeliveryStart == Init => Delivery!DeliveryInit
  BY DEF Init, GitInit, Delivery!DeliveryInit

\* ImplementsDelivery: a repository is made, filled, announced and read in this
\* order, a package synced on announced sources only, and none of it is taken
\* back, through lagging caches, failing calls, edits and restarts, as long as no
\* push is lost and no user writes to Gitea.
THEOREM DeliveryImplemented ==
  ASSUME ~PushFails, MaxOutside = 0 PROVE Spec => ImplementsDelivery
<1>1. DeliveryInv /\ [Next]_vars => DeliveryInv'
  BY NextDelivered
<1>2. DeliveryInv /\ [Next]_vars => [Delivery!DeliveryNext]_(Delivery!deliveryVars)
  BY DeliveryStep
<1> QED
  BY <1>1, <1>2, InitDelivered, DeliveryStart, PTL
     DEF Spec, ImplementsDelivery, Delivery!DeliverySpec

====
