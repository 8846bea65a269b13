------------------------------ MODULE DagWalk -------------------------------
(***************************************************************************)
(* internal/cluster/dag.go: the two walks over a workflow graph.           *)
(*   Descendants   breadth first along downstream edges: a child is marked *)
(*                 when it is met, then queued (the cascade of skips)      *)
(*   ancestorsOf   depth first along depends_on: a job is marked when it   *)
(*                 is popped (the check of from references)                *)
(*                                                                         *)
(* graph[j] is the set of the jobs that the walk goes to from j.  The order*)
(* of the queue, of the stack and of the result does not matter to their   *)
(* users, so they are sets, and the next job taken from them is any.       *)
(***************************************************************************)
EXTENDS DagClosure

CONSTANT Steps

VARIABLES graph, start, walk, found, work, phase

walkVars == <<graph, start, walk, found, work, phase>>

WalkInit ==
    /\ graph \in [Steps -> SUBSET Steps]
    /\ start \in Steps
    /\ walk \in {"descendants", "ancestors"}
    /\ found = {}
    /\ work = IF walk = "descendants" THEN {start} ELSE graph[start]
    /\ phase = "walk"

\* One round of the outer loop of Descendants: the children of j that are not
\* marked yet are marked and queued.
Descend(j) ==
    /\ phase = "walk" /\ walk = "descendants"
    /\ j \in work
    /\ found' = found \cup graph[j]
    /\ work' = (work \ {j}) \cup (graph[j] \ found)
    /\ UNCHANGED <<graph, start, walk, phase>>

\* One round of the loop of ancestorsOf: j is popped; unless it has been seen,
\* it is marked and its dependencies are pushed.
Climb(j) ==
    /\ phase = "walk" /\ walk = "ancestors"
    /\ j \in work
    /\ found' = found \cup {j}
    /\ work' = IF j \in found THEN work \ {j} ELSE (work \ {j}) \cup graph[j]
    /\ UNCHANGED <<graph, start, walk, phase>>

WalkEnds ==
    /\ phase = "walk"
    /\ work = {}
    /\ phase' = "done"
    /\ UNCHANGED <<graph, start, walk, found, work>>

WalkNext == (\E j \in work : Descend(j) \/ Climb(j)) \/ WalkEnds

WalkSpec == WalkInit /\ [][WalkNext]_walkVars

-----------------------------------------------------------------------------
(* Properties.                                                             *)

\* What a walk returns is exactly what is reachable from its start, on every
\* graph, one with cycles included (ancestorsOf is only sure to see none).
WalkFindsReach == phase = "done" => found = Reach(graph, start)

=============================================================================
