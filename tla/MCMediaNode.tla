---------------------------- MODULE MCMediaNode ----------------------------
(***************************************************************************)
(* Instances of MediaNode for model checking.                               *)
(***************************************************************************)
EXTENDS MediaNode, TLC
Symmetry == Permutations(Conn) \cup Permutations(Token)
=============================================================================
