--------------------------- MODULE MCCCSketchAlg ---------------------------
(***************************************************************************)
(* Instances of CCSketchAlg for TLC.                                       *)
(***************************************************************************)
EXTENDS CCSketchAlg, TLC

Symmetry == Permutations(Thread)
=============================================================================
