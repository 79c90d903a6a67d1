---------------------------- MODULE MCRemoveChain ----------------------------
(* Instance of RemoveChain: six ids, so arrays of up to seven elements, in   *)
(* which a removed node may have zero, one or two children, and the last     *)
(* node may be a child of it, a child of its sibling, or its sibling.        *)
EXTENDS RemoveChain, TLC

Alone == {<<NoId>>}

IdSymmetry == Permutations(Ids)
=============================================================================
