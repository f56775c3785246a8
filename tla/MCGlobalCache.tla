---------------------------- MODULE MCGlobalCache ----------------------------
\* Small instances of GlobalCache.
EXTENDS GlobalCache

\* The second version is shorter than the others.
Sizes == [v \in 1 .. MaxVer |-> IF v = 2 THEN 1 ELSE 2]
AllOps == {"flush", "upload", "read", "head", "delete", "deep", "gc"}
AllPolicies == {"replication", "nocache"}
Symmetry == Permutations(Tasks) \cup Permutations(Nodes)
==============================================================================
