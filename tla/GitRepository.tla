---- MODULE GitRepository ----
(***************************************************************************)
(* The GitRepository controller (platform/controllers/gitrepository): it   *)
(* creates a repository in Gitea for each GitRepository object and copies  *)
(* a source into it, a local directory or an upstream repository, through  *)
(* clones it keeps in a temporary directory of the process.  The clones    *)
(* are guarded by one lock per URL (utils.RepoMap), which the              *)
(* CustomPackage controller takes as well.  A tree is the set of its       *)
(* files; a changed file is another member of Files.                       *)
(***************************************************************************)
EXTENDS Naturals, FiniteSets

CONSTANTS
    Repos,       \* GitRepository objects, each with its repository in Gitea
    Dirs,        \* local (or embedded) source directories
    Urls,        \* upstream repositories
    SourceOf,    \* the directory or upstream repository each one copies
    Follows,     \* the upstream repositories read at a branch or tag (Ref)
    Files,       \* what sources hold
    Readme,      \* what Gitea puts into a repository it initialises
    NoRepo,      \* no repository: an idle worker
    NoClone,     \* no clone of a repository in the temporary directory
    PushFails,   \* whether a push can fail for reasons of the network
    MaxEdits, MaxFaults, MaxOutside, MaxCrashes  \* bounds on the environment

Places == Dirs \cup Urls
Keys == Repos \cup Urls            \* what RepoMap has a lock for

ASSUME SourceAssumption == SourceOf \in [Repos -> Places]
ASSUME NamesApart == /\ Dirs \cap Urls = {} /\ Repos \cap Urls = {}
                     /\ NoRepo \notin Repos /\ Readme \notin Files
ASSUME BoundsAssumption ==
    /\ PushFails \in BOOLEAN
    /\ MaxEdits \in Nat /\ MaxFaults \in Nat /\ MaxOutside \in Nat /\ MaxCrashes \in Nat

Tree == SUBSET (Files \cup {Readme})
\* A clone of a repository in Gitea: its worktree and head, the remote commit
\* it is based on, and whether head has been committed but not pushed.
Clone == [wt : Tree, head : Tree, base : Nat, ahead : BOOLEAN]
ASSUME NoCloneAssumption == NoClone \notin Clone

Status == [synced : BOOLEAN, url : BOOLEAN]

Stages == {"idle", "find", "create", "lockSource", "copySource", "lockTarget",
           "cloneTarget", "write", "commit", "push", "report"}

VARIABLES
    declared,    \* the GitRepository objects that exist
    status,      \* their stored status: synced, and whether the internal URL is set
    seen,        \* that status as the informer cache of the process holds it
    source,      \* the content of every directory and upstream repository
    remote,      \* the repositories in Gitea: exists, number of its last commit, files
    clone,       \* the clone of each of them
    upstream,    \* the clone of each upstream repository, {} when there is none
    lock,        \* who holds the lock of each URL
    git,         \* the worker of this controller and the copy it works on
    spent        \* what the environment has used of its bounds

clones == <<clone, upstream>>
objects == <<declared, status, seen>>
gitVars == <<declared, status, seen, source, remote, clone, upstream, lock, git, spent>>

Mirrors(r) == SourceOf[r] \in Urls
Idle == [at |-> "idle", repo |-> NoRepo, synced |-> FALSE, url |-> FALSE, info |-> FALSE,
         fresh |-> TRUE]

GitTypeOK ==
    /\ declared \subseteq Repos
    /\ status \in [Repos -> Status]
    /\ seen \in [Repos -> Status]
    /\ source \in [Places -> SUBSET Files]
    /\ remote \in [Repos -> [exists : BOOLEAN, tip : Nat, files : Tree]]
    /\ clone \in [Repos -> Clone \cup {NoClone}]
    /\ upstream \in [Urls -> SUBSET Files]
    /\ lock \in [Keys -> {"free", "git", "package"}]
    /\ git \in [at : Stages, repo : Repos \cup {NoRepo}, synced : BOOLEAN,
                url : BOOLEAN, info : BOOLEAN, fresh : BOOLEAN]
    /\ spent \in [edits : Nat, faults : Nat, outside : Nat, crashes : Nat]

GitInit ==
    /\ status = [r \in Repos |-> [synced |-> FALSE, url |-> FALSE]]
    /\ seen = status
    /\ source \in [Places -> {files \in SUBSET Files : files # {}}]
    /\ remote = [r \in Repos |-> [exists |-> FALSE, tip |-> 0, files |-> {}]]
    /\ clone = [r \in Repos |-> NoClone]
    /\ upstream = [u \in Urls |-> {}]
    /\ lock = [k \in Keys |-> "free"]
    /\ git = Idle
    /\ spent = [edits |-> 0, faults |-> 0, outside |-> 0, crashes |-> 0]

\* A call that fails: of the API server, of Gitea, of an upstream server, of a disk.
Fault == /\ spent.faults < MaxFaults
         /\ spent' = [spent EXCEPT !.faults = @ + 1]

\* The lock of a RepoMap entry.
Acquire(k, worker) == /\ lock[k] = "free"
                      /\ lock' = [lock EXCEPT ![k] = worker]
Released(worker) == [k \in Keys |-> IF lock[k] = worker THEN "free" ELSE lock[k]]

\* CloneRemoteRepoToDir of an upstream repository: an existing clone is only
\* brought up to date when there is a branch or tag to pull.
Refreshed(u) ==
    IF upstream[u] = {} \/ u \in Follows THEN source[u] ELSE upstream[u]

-----------------------------------------------------------------------------
(* One pass of the controller over one GitRepository *)

Goto(stage) == git' = [git EXCEPT !.at = stage]

\* Mutant of Return: the URL is dropped by a failed pass.
ReturnReset(ok) ==
    /\ git' = [git EXCEPT !.at = "report", !.synced = ok, !.url = ok /\ git.info]
    /\ lock' = Released("git")
\* Mutant of Return: an error returns without the unlock.
ReturnLocked(ok) ==
    /\ git' = [git EXCEPT !.at = "report", !.synced = ok, !.url = IF ok THEN git.info ELSE @]
    /\ lock' = IF ok THEN Released("git") ELSE lock

\* reconcileGitRepo returns: the deferred unlocks run, then postProcessReconcile.
Return(ok) ==
    /\ git' = [git EXCEPT !.at = "report", !.synced = ok,
                          !.url = IF ok THEN git.info ELSE @]
    /\ lock' = Released("git")

Fails == /\ Fault /\ Return(FALSE)
         /\ UNCHANGED <<objects, source, remote, clones>>

\* Reconcile reads the object, from the cache, into the copy it later writes back.
Start(r) ==
    /\ git.at = "idle" /\ r \in declared
    /\ git' = [at |-> "find", repo |-> r, synced |-> FALSE,
               url |-> seen[r].url, info |-> FALSE, fresh |-> seen[r] = status[r]]
    /\ UNCHANGED <<objects, source, remote, clones, lock, spent>>

\* Mutant of Find: getRepository answers no internal URL, as createRepository.
FindNoUrl ==
    /\ git.at = "find"
    /\ Goto(IF ~remote[git.repo].exists THEN "create"
            ELSE IF Mirrors(git.repo) THEN "lockSource" ELSE "lockTarget")
    /\ UNCHANGED <<objects, source, remote, clones, lock, spent>>

\* getRepository answers the internal URL of a repository that exists.
Find ==
    /\ git.at = "find"
    /\ git' = [git EXCEPT
         !.at = IF ~remote[git.repo].exists THEN "create"
                ELSE IF Mirrors(git.repo) THEN "lockSource" ELSE "lockTarget",
         !.info = remote[git.repo].exists]
    /\ UNCHANGED <<objects, source, remote, clones, lock, spent>>

\* createRepository answers no internal URL.
Create ==
    /\ git.at = "create"
    /\ remote' = [remote EXCEPT ![git.repo] =
                    [exists |-> TRUE, tip |-> @.tip + 1, files |-> {Readme}]]
    /\ Goto(IF Mirrors(git.repo) THEN "lockSource" ELSE "lockTarget")
    /\ UNCHANGED <<objects, source, clones, lock, spent>>

LockSource ==
    /\ git.at = "lockSource" /\ Acquire(SourceOf[git.repo], "git")
    /\ Goto("copySource")
    /\ UNCHANGED <<objects, source, remote, clones, spent>>

CopySource ==
    /\ git.at = "copySource"
    /\ upstream' = [upstream EXCEPT ![SourceOf[git.repo]] = Refreshed(SourceOf[git.repo])]
    /\ Goto("lockTarget")
    /\ UNCHANGED <<objects, source, remote, clone, lock, spent>>

LockTarget ==
    /\ git.at = "lockTarget" /\ Acquire(git.repo, "git")
    /\ Goto("cloneTarget")
    /\ UNCHANGED <<objects, source, remote, clones, spent>>

\* The clone is made once; without a Ref an existing one is never pulled.
CloneTarget ==
    /\ git.at = "cloneTarget"
    /\ LET r == git.repo IN
         \/ /\ clone[r] = NoClone /\ remote[r].exists
            /\ clone' = [clone EXCEPT ![r] =
                 [wt |-> remote[r].files, head |-> remote[r].files,
                  base |-> remote[r].tip, ahead |-> FALSE]]
            /\ Goto("write") /\ UNCHANGED lock
         \/ clone[r] # NoClone /\ Goto("write") /\ UNCHANGED <<clone, lock>>
         \/ clone[r] = NoClone /\ ~remote[r].exists /\ Return(FALSE) /\ UNCHANGED clone
    /\ UNCHANGED <<objects, source, remote, upstream, spent>>

\* Mutants of Written: the worktree is not cleared; .git is copied with the files.
WrittenOver(r) == clone[r].wt \cup (IF Mirrors(r) THEN upstream[SourceOf[r]]
                                               ELSE source[SourceOf[r]])
WrittenWithGit(r) == {NoClone} \cup source[SourceOf[r]]

\* clearWorktreeDir and writeRepoContents leave exactly the source;
\* CopyTreeToTree only adds to what is there.
Written(r) == IF Mirrors(r) THEN clone[r].wt \cup upstream[SourceOf[r]]
                            ELSE source[SourceOf[r]]

Write ==
    /\ git.at = "write"
    /\ clone' = [clone EXCEPT ![git.repo].wt = Written(git.repo)]
    /\ Goto("commit")
    /\ UNCHANGED <<objects, source, remote, upstream, lock, spent>>

\* addAllAndCommit: a clean worktree needs no push; an error of Commit is dropped.
Commit ==
    /\ git.at = "commit"
    /\ LET c == clone[git.repo] IN
         \/ /\ c.wt = c.head /\ Return(TRUE)
            /\ UNCHANGED <<clone, spent>>
         \/ /\ c.wt # c.head /\ Goto("push")
            /\ clone' = [clone EXCEPT ![git.repo].head = c.wt, ![git.repo].ahead = TRUE]
            /\ UNCHANGED <<lock, spent>>
         \/ c.wt # c.head /\ Fault /\ Goto("push") /\ UNCHANGED <<clone, lock>>
    /\ UNCHANGED <<objects, source, remote, upstream>>

\* pushToRemote: a fast-forward is accepted, anything else is an error, and so
\* is having nothing to push.
CanPush(r) == /\ remote[r].exists
              /\ clone[r].ahead
              /\ clone[r].base = remote[r].tip

Accept(r) ==
    /\ remote' = [remote EXCEPT ![r] =
                    [exists |-> TRUE, tip |-> @.tip + 1, files |-> clone[r].head]]
    /\ clone' = [clone EXCEPT ![r].base = remote[r].tip + 1, ![r].ahead = FALSE]

\* Mutant of Push: having nothing to push is taken for success, also where the commit
\* has failed.
PushUpToDate ==
    /\ git.at = "push"
    /\ IF CanPush(git.repo)
       THEN Accept(git.repo) /\ Return(TRUE)
       ELSE Return(remote[git.repo].exists /\ ~clone[git.repo].ahead) /\ UNCHANGED <<remote, clone>>
    /\ UNCHANGED <<objects, source, upstream, spent>>

Push ==
    /\ git.at = "push"
    /\ IF CanPush(git.repo)
       THEN Accept(git.repo) /\ Return(TRUE)
       ELSE Return(FALSE) /\ UNCHANGED <<remote, clone>>
    /\ UNCHANGED <<objects, source, upstream, spent>>

\* The push, or only the answer to it, is lost.
PushLost ==
    /\ git.at = "push" /\ PushFails
    /\ Fault /\ Return(FALSE)
    /\ \/ UNCHANGED <<remote, clone>>
       \/ CanPush(git.repo) /\ Accept(git.repo)
    /\ UNCHANGED <<objects, source, upstream>>

\* postProcessReconcile writes the whole status of the copy.  A write that fails,
\* or that conflicts because the copy was not the stored version, is only logged.
Report ==
    /\ git.at = "report"
    /\ \/ /\ git.fresh /\ UNCHANGED spent
          /\ status' = [status EXCEPT ![git.repo] = [synced |-> git.synced, url |-> git.url]]
       \/ ~git.fresh /\ UNCHANGED <<status, spent>>
       \/ Fault /\ UNCHANGED status
    /\ git' = Idle
    /\ UNCHANGED <<declared, seen, source, remote, clones, lock>>

CallFails == git.at \in {"find", "create", "copySource", "cloneTarget", "write"} /\ Fails

GitStep == \/ Find \/ Create \/ LockSource \/ CopySource \/ LockTarget \/ CloneTarget
           \/ Write \/ Commit \/ Push \/ PushLost \/ Report \/ CallFails

-----------------------------------------------------------------------------
(* The environment *)

\* A watch event brings an object into the cache.
Deliver(r) ==
    /\ seen[r] # status[r]
    /\ seen' = [seen EXCEPT ![r] = status[r]]
    /\ UNCHANGED <<declared, status, source, remote, clones, lock, git, spent>>

\* Someone edits a directory or pushes to an upstream repository.
Edit(p) ==
    /\ spent.edits < MaxEdits
    /\ \E files \in SUBSET Files : files \notin {{}, source[p]} /\ source' = [source EXCEPT ![p] = files]
    /\ spent' = [spent EXCEPT !.edits = @ + 1]
    /\ UNCHANGED <<objects, remote, clones, lock, git>>

\* A user commits to the repository in Gitea, or deletes it there.
PushedByUser(r) ==
    /\ spent.outside < MaxOutside /\ remote[r].exists
    /\ \E files \in Tree : remote' = [remote EXCEPT ![r].files = files, ![r].tip = @ + 1]
    /\ spent' = [spent EXCEPT !.outside = @ + 1]
    /\ UNCHANGED <<objects, source, clones, lock, git>>

DeletedByUser(r) ==
    /\ spent.outside < MaxOutside /\ remote[r].exists
    /\ remote' = [remote EXCEPT ![r] = [exists |-> FALSE, tip |-> @.tip, files |-> {}]]
    /\ spent' = [spent EXCEPT !.outside = @ + 1]
    /\ UNCHANGED <<objects, source, clones, lock, git>>

\* The process restarts: new locks and a new, empty temporary directory.
Restarted ==
    /\ spent.crashes < MaxCrashes
    /\ git' = Idle
    /\ lock' = [k \in Keys |-> "free"]
    /\ clone' = [r \in Repos |-> NoClone]
    /\ upstream' = [u \in Urls |-> {}]
    /\ seen' = status
    /\ spent' = [spent EXCEPT !.crashes = @ + 1]
    /\ UNCHANGED <<declared, status, source, remote>>

Outside == \/ \E p \in Places : Edit(p)
           \/ \E r \in Repos : PushedByUser(r) \/ DeletedByUser(r)

====
