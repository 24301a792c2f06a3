---------------------------- MODULE MCPersister ----------------------------
(* Two commands, so that one is marked while another changes the tree, one   *)
(* restore, one export at a time and one failing save.                       *)
EXTENDS Persister, TLC

Symmetry == Permutations(Cmd)
=============================================================================
