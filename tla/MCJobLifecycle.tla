---------------------------- MODULE MCJobLifecycle ----------------------------
(* Small instances of JobLifecycle for TLC. *)
EXTENDS JobLifecycle, TLC

(* Entries are interchangeable everywhere; so are retriers: no other constant *)
(* of a run names one of them.                                               *)
Symmetry == Permutations(Entries) \cup Permutations(Retriers)
===============================================================================
