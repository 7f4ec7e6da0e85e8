----------------------------- MODULE MCDelegation -----------------------------
(* Small instances of Delegation for TLC. *)
EXTENDS Delegation, TLC

(* Every agent may call every other one: delegation "tenant". *)
Everyone == [a \in Agents |-> Agents]

(* No other constant names a job or, with Everyone, an agent. *)
Symmetry == Permutations(Jobs \ Roots) \cup Permutations(Agents)

(* Bound: one retried child at a time is queued or executing. *)
OneRetried == Cardinality({j \in Jobs \ Roots : by[j] = "arq" /\ at[j] # "none"}) <= 1
===============================================================================
