----------------------------- MODULE MCDispatch -----------------------------
(* Instances of Dispatch for TLC: which nodes match which job.             *)
EXTENDS Dispatch, TLC

CONSTANTS
    Unmatched,  \* a job that no node can take, which stays pending
    Misfit      \* a node that can take no job

SomeMatch == [j \in Jobs |-> IF j = Unmatched THEN {} ELSE Nodes \ {Misfit}]

NodeSymmetry == Permutations(Nodes \ {Misfit})
=============================================================================
