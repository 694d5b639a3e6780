---------------------------- MODULE MCDataPlane ----------------------------
(* Instances of DataPlane for TLC.                                         *)
EXTENDS DataPlane, TLC

(* The replicas of the manager are interchangeable.                        *)
Replicas == Permutations(Managers)

(* Either two edits and no fault (an edit of the mode and then a deletion), *)
(* or one edit and up to two faults.                                       *)
WithinBudget == 2 * edits + faults <= 4
=============================================================================
