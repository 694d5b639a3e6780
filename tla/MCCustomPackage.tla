---- MODULE MCCustomPackage ----
(* Instances of CustomPackage for TLC: a package in local directories and one *)
(* in an upstream repository, which is also what its GitRepository copies.    *)
EXTENDS CustomPackage

CONSTANTS d1, d2, mirror, dir1, dir2, up, p1, p2, f1, f2

McSourceOf == [r \in Repos |-> CASE r = d1 -> dir1 [] r = d2 -> dir2 [] OTHER -> up]
McSources == [p \in Packages |-> CASE p = p2 -> <<mirror>>
                                   [] p = p1 /\ d2 \in Repos -> <<d1, d2>>
                                   [] OTHER -> <<d1, d1>>]
McOrigin == [p \in Packages |-> IF p = p2 THEN up ELSE NoRepo]
McInValues == [p \in Packages |-> {1}]
====
