---- MODULE CustomPackage ----
(***************************************************************************)
(* The CustomPackage controller (platform/controllers/custompackage) with  *)
(* the GitRepository controller it depends on.  A package names an ArgoCD  *)
(* Application (or ApplicationSet) some of whose sources are directories;  *)
(* for each of them the controller creates a GitRepository and rewrites    *)
(* the source to the in-cluster URL in that object's status.  The two      *)
(* controllers run one worker each in one process and share the locks and  *)
(* the clones of upstream repositories.                                    *)
(***************************************************************************)
EXTENDS GitRepository, Sequences

CONSTANTS
    Packages,    \* CustomPackage objects
    Sources,     \* the GitRepository each directory source of a package becomes
    InValues,    \* which of those sources stand in Helm values
    Origin,      \* the upstream repository a package is read from, or NoRepo
    NoPackage    \* an idle worker

ASSUME PackageAssumption ==
    /\ Sources \in [Packages -> Seq(Repos) \ {<<>>}]
    /\ InValues \in [Packages -> SUBSET Nat]
    /\ Origin \in [Packages -> Urls \cup {NoRepo}] /\ NoRepo \notin Urls
    /\ NoPackage \notin Packages

VARIABLES
    app,         \* the stored Application: which of its sources have their URL,
                 \* <<>> before it has been created
    pkgSynced,   \* Status.Synced of every package
    pkg          \* the worker of this controller and what its pass has found

vars == <<declared, status, seen, source, remote, clone, upstream, lock, git, spent,
          app, pkgSynced, pkg>>

NoPass == [at |-> "idle", pkg |-> NoPackage, synced |-> FALSE, urls |-> <<>>]

TypeOK ==
    /\ GitTypeOK
    /\ app \in [Packages -> Seq(BOOLEAN)]
    /\ pkgSynced \in [Packages -> BOOLEAN]
    /\ pkg \in [at : {"idle", "lock", "read", "source", "apply", "report"},
                pkg : Packages \cup {NoPackage}, synced : BOOLEAN, urls : Seq(BOOLEAN)]

\* GitRepository objects no package asks for have been made by users.
OfPackages == UNION {{Sources[p][i] : i \in DOMAIN Sources[p]} : p \in Packages}

Init ==
    /\ GitInit
    /\ declared = Repos \ OfPackages
    /\ app = [p \in Packages |-> <<>>]
    /\ pkgSynced = [p \in Packages |-> FALSE]
    /\ pkg = NoPass

PkgStart(p) ==
    /\ pkg.at = "idle"
    /\ pkg' = [at |-> IF Origin[p] \in Urls THEN "lock" ELSE "read", pkg |-> p,
               synced |-> pkgSynced[p], urls |-> <<>>]
    /\ UNCHANGED <<gitVars, app, pkgSynced>>

\* Mutant of PkgLock: the file is read without the lock.
PkgLockNot ==
    /\ pkg.at = "lock"
    /\ pkg' = [pkg EXCEPT !.at = "read"]
    /\ UNCHANGED <<objects, source, remote, clones, lock, git, spent, app, pkgSynced>>

\* getArgoCDAppFile, of a package in an upstream repository: lock, clone or
\* pull, read, unlock.
PkgLock ==
    /\ pkg.at = "lock" /\ Acquire(Origin[pkg.pkg], "package")
    /\ pkg' = [pkg EXCEPT !.at = "read"]
    /\ UNCHANGED <<objects, source, remote, clones, git, spent, app, pkgSynced>>

PkgRead ==
    /\ pkg.at = "read"
    /\ upstream' = [u \in Urls |-> IF u = Origin[pkg.pkg] THEN Refreshed(u) ELSE upstream[u]]
    /\ lock' = Released("package")
    /\ pkg' = [pkg EXCEPT !.at = "source"]
    /\ UNCHANGED <<objects, source, remote, clone, git, spent, app, pkgSynced>>

\* reconcileArgoCDSource for the next directory source: CreateOrUpdate of its
\* GitRepository answers the object as the cache has it, or a new one.
PkgSource ==
    /\ pkg.at = "source"
    /\ LET r == Sources[pkg.pkg][Len(pkg.urls) + 1] IN
         /\ declared' = declared \cup {r}
         /\ pkg' = [pkg EXCEPT !.urls = Append(@, seen[r].url),
                      !.at = IF Len(pkg.urls) + 1 = Len(Sources[pkg.pkg]) THEN "apply" ELSE @]
    /\ UNCHANGED <<status, seen, source, remote, clones, lock, git, spent, app, pkgSynced>>

\* Mutant of SourcesSynced: a package is synced once every source was looked at.
SourcesSeen(p, urls) == DOMAIN urls = DOMAIN Sources[p]

\* A source in Helm values is rewritten, but not counted.
SourcesSynced(p, urls) == \A i \in DOMAIN urls \ InValues[p] : urls[i]

\* The Application is created or updated with whatever URLs there are; Synced
\* has been set in the copy by then, whether the call succeeds or not.
PkgApply ==
    /\ pkg.at = "apply"
    /\ pkg' = [pkg EXCEPT !.at = "report", !.synced = SourcesSynced(pkg.pkg, pkg.urls)]
    /\ \/ app' = [app EXCEPT ![pkg.pkg] = pkg.urls] /\ UNCHANGED spent
       \/ Fault /\ UNCHANGED app
    /\ UNCHANGED <<objects, source, remote, clones, lock, git, pkgSynced>>

\* postProcessReconcile
PkgReport ==
    /\ pkg.at = "report"
    /\ \/ pkgSynced' = [pkgSynced EXCEPT ![pkg.pkg] = pkg.synced] /\ UNCHANGED spent
       \/ Fault /\ UNCHANGED pkgSynced
    /\ pkg' = NoPass
    /\ UNCHANGED <<objects, source, remote, clones, lock, git, app>>

\* An error return before the Application is written.
PkgFails ==
    /\ pkg.at \in {"read", "source"} /\ Fault
    /\ lock' = Released("package")
    /\ pkg' = [pkg EXCEPT !.at = "report"]
    /\ UNCHANGED <<objects, source, remote, clones, git, app, pkgSynced>>

PkgStep == PkgLock \/ PkgRead \/ PkgSource \/ PkgApply \/ PkgReport \/ PkgFails

Restart ==
    /\ Restarted
    /\ pkg' = NoPass
    /\ UNCHANGED <<app, pkgSynced>>

pkgVars == <<app, pkgSynced, pkg>>

Next ==
    \/ GitStep /\ UNCHANGED pkgVars
    \/ \E r \in Repos : Start(r) /\ UNCHANGED pkgVars
    \/ \E r \in Repos : Deliver(r) /\ UNCHANGED pkgVars
    \/ Outside /\ UNCHANGED pkgVars
    \/ PkgStep
    \/ \E p \in Packages : PkgStart(p)
    \/ Restart

\* Both workers keep running, both queues are fair, a mutex is not starved for
\* ever, and watch events arrive.  Nothing is assumed of users or of restarts.
Fairness ==
    /\ WF_vars(GitStep /\ UNCHANGED pkgVars) /\ WF_vars(PkgStep)
    /\ SF_vars(LockSource /\ UNCHANGED pkgVars) /\ SF_vars(PkgLock)
    /\ \A r \in Repos : SF_vars(Start(r) /\ UNCHANGED pkgVars)
    /\ \A r \in Repos : WF_vars(Deliver(r) /\ UNCHANGED pkgVars)
    /\ \A p \in Packages : SF_vars(PkgStart(p))

Spec == Init /\ [][Next]_vars /\ Fairness

-----------------------------------------------------------------------------
(* Properties *)

\* The two controllers never work in the same clone of an upstream repository
\* at the same time (the locks of RepoMap).
OneInDirectory ==
    ~ /\ git.at \in {"copySource", "lockTarget", "cloneTarget", "write"}
      /\ pkg.at = "read"
      /\ git.repo \in Repos /\ Mirrors(git.repo)
      /\ Origin[pkg.pkg] = SourceOf[git.repo]

\* An Application whose source has been rewritten to the in-cluster URL reads a
\* repository that holds more than what Gitea put there: ArgoCD never syncs, and
\* with pruning never empties, from a repository not filled yet.
Seeded(r) == remote[r].exists /\ remote[r].files \notin {{}, {Readme}}
AppSeeded ==
    \A p \in Packages : \A i \in DOMAIN app[p] : app[p][i] => Seeded(Sources[p][i])

\* An Application that reads its in-cluster repository is never pointed away
\* from it again by a later pass over older state.
UrlKept ==
    [][\A p \in Packages : \A i \in DOMAIN app[p] : app[p][i] => app'[p][i]]_vars

\* A repository that copies a directory comes to hold exactly what the
\* directory holds, once users let it be, and stays so.
Mirrored(r) == remote[r].files = source[SourceOf[r]]
Converges == \A r \in Repos : ~Mirrors(r) => <>[](r \in declared => Mirrored(r))

\* Every package ends with an Application all of whose sources are in the cluster.
PackageSettles ==
    \A p \in Packages : <>[](app[p] = [i \in DOMAIN Sources[p] |-> TRUE] /\ pkgSynced[p])

\* The two controllers deliver as PackageDelivery says: between any two of their
\* passes, from lagging caches, through failing calls and restarts, nothing is
\* announced before it is filled, read or reported before it is announced, and
\* nothing announced, read or reported is taken back.
Full(files) == files \cap Files # {}
Delivery == INSTANCE PackageDelivery WITH
    Repositories <- Repos, Supplier <- Sources,
    Counted <- [p \in Packages |-> DOMAIN Sources[p] \ InValues[p]],
    content <- [r \in Repos |-> IF ~remote[r].exists THEN "none"
                                ELSE IF Full(remote[r].files) THEN "full" ELSE "bare"],
    announced <- {r \in Repos : status[r].url},
    reads <- [p \in Packages |-> {i \in DOMAIN app[p] : app[p][i]}],
    settled <- {p \in Packages : pkgSynced[p]}
ImplementsDelivery == Delivery!DeliverySpec

\* No lock of RepoMap outlives its use: a worker that waits for one waits for the
\* other worker only, which holds it in a stage it leaves without a lock of its
\* own to wait for, so neither can wait for ever.
LocksComeFree ==
    /\ git.at \in {"idle", "find", "create", "report"} => \A k \in Keys : lock[k] # "git"
    /\ git.at = "lockSource" => lock[SourceOf[git.repo]] # "git"
    /\ git.at = "lockTarget" => lock[git.repo] = "free"
    /\ pkg.at # "read" => \A k \in Keys : lock[k] # "package"

====
