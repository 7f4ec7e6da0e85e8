---------------------------- MODULE MCAgentCatalog ----------------------------
(* Small instances of AgentCatalog for TLC. *)
EXTENDS AgentCatalog, TLC

(* Owners are interchangeable, and editors, and job rows. *)
Symmetry == Permutations(Owners) \cup Permutations(Clients \ Owners) \cup Permutations(Jobs)
===============================================================================
