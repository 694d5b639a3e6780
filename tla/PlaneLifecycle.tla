--------------------------- MODULE PlaneLifecycle ---------------------------
(***************************************************************************)
(* What the DataPlane controller promises about the life of one plane: a   *)
(* cluster is registered with ArgoCD only for a guarded plane, a guarded   *)
(* plane passes through deletion, is deregistered there, and only then     *)
(* disappears.  (design/0023, the finalizer of conditions.go:30-32.)       *)
(***************************************************************************)
VARIABLES plane,       \* "absent", "bare" (no finalizer), "guarded", "deleting"
          registered   \* an ArgoCD cluster secret exists

lifeVars == <<plane, registered>>

LifeInit == plane = "absent" /\ registered = FALSE

Create == /\ plane = "absent" /\ plane' = "bare"
          /\ UNCHANGED registered
Discard == /\ plane = "bare" /\ plane' = "absent"
           /\ UNCHANGED registered
Guard == /\ plane = "bare" /\ plane' = "guarded"
         /\ UNCHANGED registered

(* A pass that began before the deletion may still register.               *)
RegisterCluster == /\ plane \in {"guarded", "deleting"}
                   /\ registered' = TRUE
                   /\ UNCHANGED plane

MarkDeleted == /\ plane = "guarded" /\ plane' = "deleting"
               /\ UNCHANGED registered
DeregisterCluster == /\ plane = "deleting"
                     /\ registered' = FALSE
                     /\ UNCHANGED plane
Remove == /\ plane = "deleting" /\ ~registered
          /\ plane' = "absent"
          /\ UNCHANGED registered

LifeNext == \/ Create \/ Discard \/ Guard \/ RegisterCluster
            \/ MarkDeleted \/ DeregisterCluster \/ Remove

LifeSpec == LifeInit /\ [][LifeNext]_lifeVars
=============================================================================
