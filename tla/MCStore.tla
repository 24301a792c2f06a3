------------------------------ MODULE MCStore ------------------------------
(* Three archives are kept, so a fourth makes the retention bite: two         *)
(* goroutines take them, in the same second or not, and so does each Restore. *)
(* Two Saves tell a torn store from a whole one.  Two seconds allow one crash *)
(* and everything after it.                                                   *)
EXTENDS Store, TLC

Symmetry == Permutations(Backuper)
=============================================================================
