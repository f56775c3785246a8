---------------------------- MODULE MCPageCache ----------------------------
(***************************************************************************)
(* Small instances of PageCache: bodies of two positions, written as a     *)
(* whole or in part.                                                       *)
(***************************************************************************)
EXTENDS PageCache, TLC

TwoPos == {0, 1}
WholeOrFirst == {{0}, {0, 1}}
Whole == {{0, 1}}
AllOps == OpNames
Sym == Permutations(Threads) \cup Permutations(Pages)
============================================================================
