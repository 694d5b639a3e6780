------------------------- MODULE PlatformBootstrap -------------------------
(***************************************************************************)
(* What the AdharPlatform controller promises about the installation of a  *)
(* platform: nothing before it is asked for, the core components on the    *)
(* network and database layer, the repositories through Gitea, what ArgoCD *)
(* generates from them only when all are published; and that a run of the  *)
(* CLI exits of its own accord only from a platform that is whole          *)
(* (controller.go:149-165, :253-262, :294-440).                            *)
(***************************************************************************)
CONSTANTS Runs,           \* what runs the CLI
          Components,     \* the core components, Gitea among them
          Sources,        \* the GitOps repositories
          Generators      \* the ApplicationSets

VARIABLES asked,          \* the AdharPlatform object was created
          laid,           \* the network and database layer is whole
          installed,      \* core components
          published,      \* repositories with the content of the platform
          recorded,       \* the status says that they are
          generating,     \* ApplicationSets in the cluster
          finished,       \* runs that have decided to exit
          handedOver      \* the in-cluster manager is deployed

bootVars == <<asked, laid, installed, published, recorded, generating, finished,
              handedOver>>

BootInit ==
  /\ asked = FALSE /\ laid = FALSE /\ installed = {} /\ published = {}
  /\ recorded = FALSE /\ generating = {} /\ finished = {} /\ handedOver = FALSE

Ask == /\ asked' = TRUE
       /\ UNCHANGED <<laid, installed, published, recorded, generating, finished,
                      handedOver>>

Lay == /\ asked /\ laid' = TRUE
       /\ UNCHANGED <<asked, installed, published, recorded, generating, finished,
                      handedOver>>

Install == /\ asked /\ laid
           /\ \E c \in Components : installed' = installed \cup {c}
           /\ UNCHANGED <<asked, laid, published, recorded, generating, finished,
                          handedOver>>

Publish == /\ asked /\ "gitea" \in installed
           /\ \E s \in Sources : published' = published \cup {s}
           /\ UNCHANGED <<asked, laid, installed, recorded, generating, finished,
                          handedOver>>

Generate == /\ asked /\ published = Sources
            /\ \E g \in Generators : generating' = generating \cup {g}
            /\ UNCHANGED <<asked, laid, installed, published, recorded, finished,
                           handedOver>>

(* The record may be lost to a write from an older copy, and made again.   *)
Report == /\ recorded' => published = Sources
          /\ UNCHANGED <<asked, laid, installed, published, generating, finished,
                         handedOver>>

(* Somebody deletes a component or an ApplicationSet.                      *)
Lose == /\ installed' \subseteq installed /\ generating' \subseteq generating
        /\ UNCHANGED <<asked, laid, published, recorded, finished, handedOver>>

Whole == /\ asked /\ laid /\ installed = Components /\ published = Sources
         /\ generating # {}

Finish == /\ Whole
          /\ \E r \in Runs \ finished : finished' = finished \cup {r}
          /\ UNCHANGED <<asked, laid, installed, published, recorded, generating,
                         handedOver>>

(* A run ends: one that finished, or one that was interrupted; it may      *)
(* deploy the manager, which needs the object to reconcile.                *)
Leave == /\ \E r \in Runs : finished' = finished \ {r}
         /\ handedOver' => handedOver \/ asked
         /\ handedOver => handedOver'
         /\ UNCHANGED <<asked, laid, installed, published, recorded, generating>>

BootNext == \/ Ask \/ Lay \/ Install \/ Publish \/ Generate \/ Report \/ Lose
            \/ Finish \/ Leave

BootSpec == BootInit /\ [][BootNext]_bootVars
=============================================================================
