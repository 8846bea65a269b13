-------------------------------- MODULE Kahn --------------------------------
(***************************************************************************)
(* internal/cluster/dag.go TopologicalSort, the cycle check of             *)
(* ValidateDAG.                                                            *)
(*                                                                         *)
(* A depends_on list may name a job twice, and the code then counts it     *)
(* twice in inDegree and in downstream: an edge is one entry of a list,    *)
(* [dep, child, copy].  The graph is chosen in the initial state, any      *)
(* graph whose entries name jobs.  One step is one entry of downstream[name]*)
(* in the inner loop, or the head of the queue taken.                      *)
(***************************************************************************)
EXTENDS Naturals, Sequences, FiniteSets

CONSTANTS Jobs, Copies

Edge == [dep : Jobs, child : Jobs, copy : Copies]

ASSUME KahnAssumption == IsFiniteSet(Jobs) /\ IsFiniteSet(Edge)

VARIABLES
    edges,     \* the entries of all depends_on lists
    inDegree,
    queue,
    sorted,
    todo,      \* entries of downstream[name] the inner loop has not seen
    outcome    \* "walk", then the result: "sorted" or "cycle"

sortVars == <<edges, inDegree, queue, sorted, todo, outcome>>

InEdges(j) == {e \in edges : e.child = j}

Elements(s) == {s[i] : i \in DOMAIN s}

Once(s) == \A i, k \in DOMAIN s : s[i] = s[k] => i = k

InDegrees == [j \in Jobs |-> Cardinality(InEdges(j))]

\* The jobs without dependencies, in the order the client lists them.
Seeds == {s \in UNION {[1 .. n -> Jobs] : n \in 0 .. Cardinality(Jobs)} :
            Once(s) /\ Elements(s) = {j \in Jobs : inDegree[j] = 0}}

SortInit ==
    /\ edges \in SUBSET Edge
    /\ inDegree = InDegrees
    /\ queue \in Seeds
    /\ sorted = <<>>
    /\ todo = {}
    /\ outcome = "walk"

\* The head of the queue is sorted.
Take ==
    /\ outcome = "walk"
    /\ todo = {}
    /\ queue # <<>>
    /\ sorted' = Append(sorted, Head(queue))
    /\ queue' = Tail(queue)
    /\ todo' = {e \in edges : e.dep = Head(queue)}
    /\ UNCHANGED <<edges, inDegree, outcome>>

\* Mutant: the child is queued when its first dependency is done.
Relax_First(e) ==
    /\ outcome = "walk"
    /\ e \in todo
    /\ inDegree' = [inDegree EXCEPT ![e.child] = @ - 1]
    /\ queue' = IF e.child \in Elements(queue) \cup Elements(sorted) THEN queue
                ELSE Append(queue, e.child)
    /\ todo' = todo \ {e}
    /\ UNCHANGED <<edges, sorted, outcome>>

\* One entry: the child loses a dependency, and is queued at the last one.
Relax(e) ==
    /\ outcome = "walk"
    /\ e \in todo
    /\ inDegree' = [inDegree EXCEPT ![e.child] = @ - 1]
    /\ queue' = IF inDegree[e.child] = 1 THEN Append(queue, e.child) ELSE queue
    /\ todo' = todo \ {e}
    /\ UNCHANGED <<edges, sorted, outcome>>

Result == IF Len(sorted) = Cardinality(Jobs) THEN "sorted" ELSE "cycle"

Finish ==
    /\ outcome = "walk"
    /\ todo = {}
    /\ queue = <<>>
    /\ outcome' = Result
    /\ UNCHANGED <<edges, inDegree, queue, sorted, todo>>

SortNext == Take \/ (\E e \in todo : Relax(e)) \/ Finish

SortSpec == SortInit /\ [][SortNext]_sortVars

-----------------------------------------------------------------------------
(* Properties.                                                             *)

\* The variables are well formed: above all, the count of a job never falls
\* below zero, however often a depends_on list repeats a name.
KahnTypeOK ==
    /\ edges \subseteq Edge
    /\ inDegree \in [Jobs -> Nat]
    /\ queue \in Seq(Jobs)
    /\ sorted \in Seq(Jobs)
    /\ todo \subseteq edges
    /\ outcome \in {"walk", "sorted", "cycle"}

\* Every job comes after all its dependencies in the result.
DepsFirst ==
    \A i \in DOMAIN sorted : \A e \in edges :
        e.child = sorted[i] => \E k \in 1 .. (i - 1) : sorted[k] = e.dep

\* No job is in the result twice.
SortedOnce == Once(sorted)

\* A set of jobs each of which depends on one in the set: there is a cycle.
Knotted ==
    \E S \in SUBSET Jobs :
        S # {} /\ \A j \in S : \E e \in edges : e.child = j /\ e.dep \in S

\* The verdict is right both ways: a graph is accepted only if it has no
\* cycle, refused only if it has one.
VerdictRight ==
    /\ outcome = "sorted" =>
          /\ Elements(sorted) = Jobs
          /\ \A i, k \in DOMAIN sorted : \A e \in edges :
                e.dep = sorted[i] /\ e.child = sorted[k] => i < k
    /\ outcome = "cycle" => Knotted

=============================================================================
