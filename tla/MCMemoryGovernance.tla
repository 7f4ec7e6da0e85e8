-------------------------- MODULE MCMemoryGovernance --------------------------
(* Small instances of MemoryGovernance for TLC. *)
EXTENDS MemoryGovernance, TLC

(* Reviewers are interchangeable: no other constant names one of them. *)
Symmetry == Permutations(Reviewers)
===============================================================================
