------------------------------- MODULE MCTree -------------------------------
(* Tree with four identifiers: two nested folders and their copies, or a    *)
(* folder chain three deep with a connection below it.                      *)
EXTENDS Tree, TLC

Symmetry == Permutations(ID)
=============================================================================
