---------------------------- MODULE MCPageCache ----------------------------
(***************************************************************************)
(* Instances of PageCache for TLC.                                         *)
(***************************************************************************)
EXTENDS PageCache, TLC

CONSTANTS n1, n2, v1, v2

OneFile   == {n1}
TwoFiles  == {n1, n2}
TwoPages  == {0, 1}
ThreePages == {0, 1, 2}
TwoValues == {v1, v2}

Symmetry == Permutations(Files) \cup Permutations(Values)
=============================================================================
