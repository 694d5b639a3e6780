---------------------------- MODULE PackageDelivery ----------------------------
(***************************************************************************)
(* What the GitRepository and CustomPackage controllers promise together   *)
(* about the delivery of directories to ArgoCD: a repository is made, then *)
(* filled, only then is its in-cluster URL announced, only then does an    *)
(* Application read it, and a package is synced only when every source it  *)
(* counts is announced.  Nothing on the way is ever taken back             *)
(* (gitrepository/controller.go:164-213, custompackage/controller.go:      *)
(* 107-254).                                                               *)
(***************************************************************************)
EXTENDS Naturals

CONSTANTS Repositories, Packages,
          Supplier,     \* the repository of every source of every package
          Counted       \* the sources that make a package synced

VARIABLES content,      \* per repository: "none", "bare" as made, or "full"
          announced,    \* repositories whose URL is in their status
          reads,        \* per package: sources its Application has the URL of
          settled       \* packages reported synced

deliveryVars == <<content, announced, reads, settled>>

DeliveryInit ==
  /\ content = [r \in Repositories |-> "none"]
  /\ announced = {}
  /\ reads = [p \in Packages |-> {}]
  /\ settled = {}

MakeRepo(r) == /\ content[r] = "none"
               /\ content' = [content EXCEPT ![r] = "bare"]
               /\ UNCHANGED <<announced, reads, settled>>

Fill(r) == /\ content[r] = "bare"
           /\ content' = [content EXCEPT ![r] = "full"]
           /\ UNCHANGED <<announced, reads, settled>>

Announce(r) == /\ content[r] = "full"
               /\ announced' = announced \cup {r}
               /\ UNCHANGED <<content, reads, settled>>

(* A write of the Application brings whatever URLs are announced by then.  *)
Point(p) == /\ \E found \in SUBSET {i \in DOMAIN Supplier[p] :
                                      Supplier[p][i] \in announced} :
                 reads' = [reads EXCEPT ![p] = @ \cup found]
            /\ UNCHANGED <<content, announced, settled>>

Settle(p) == /\ \A i \in Counted[p] : Supplier[p][i] \in announced
             /\ settled' = settled \cup {p}
             /\ UNCHANGED <<content, announced, reads>>

DeliveryNext == \/ \E r \in Repositories : MakeRepo(r) \/ Fill(r) \/ Announce(r)
                \/ \E p \in Packages : Point(p) \/ Settle(p)

DeliverySpec == DeliveryInit /\ [][DeliveryNext]_deliveryVars
=============================================================================
