----------------------------- MODULE DagClosure -----------------------------
(***************************************************************************)
(* What is reachable along a graph, as the least closed set: the meaning   *)
(* of "transitively downstream" and "ancestor" in internal/cluster/dag.go, *)
(* used by Workflow and computed by the walks of DagWalk.                  *)
(***************************************************************************)

Closed(S, next) == \A x \in S : next[x] \subseteq S

\* next is a function from nodes to the sets of their successors.
Reach(next, j) ==
    {k \in DOMAIN next : \A S \in SUBSET DOMAIN next :
        next[j] \subseteq S /\ Closed(S, next) => k \in S}

=============================================================================
