------------------------------ MODULE MCEvalRuns ------------------------------
(* Small instances of EvalRuns for TLC. *)
EXTENDS EvalRuns, TLC

(* No constant names a run: NoRun is not one. *)
Symmetry == Permutations(Evals)
===============================================================================
