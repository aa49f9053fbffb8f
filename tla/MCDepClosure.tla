---------------------------- MODULE MCDepClosure ----------------------------
(***************************************************************************)
(* Every dependency graph of four packages with up to two dependencies     *)
(* each, in every order, cyclic ones and self-loops included.              *)
(***************************************************************************)
EXTENDS DepClosure

CONSTANTS p1, p2, p3, p4

MCKnown == {p1, p2, p3, p4}

\* The packages are alike.
Alike == Permutations(MCKnown)
=============================================================================
