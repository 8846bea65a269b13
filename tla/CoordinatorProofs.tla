------------------------- MODULE CoordinatorProofs --------------------------
(***************************************************************************)
(* Proofs about the smaller parts of the coordinator.                      *)
(*                                                                         *)
(* ValidateDAG on a submitted workflow.  TopologicalSort is right for every*)
(* finite graph: the result lists each job after its dependencies, and a   *)
(* cycle is reported exactly when there is one.  The inductive invariant   *)
(* counts the entries the walk has not seen: the in-degree of a job is the *)
(* number of its entries in Remaining, so it is zero exactly when the job  *)
(* is queued or sorted.  The two walks of dag.go return what is reachable. *)
(*                                                                         *)
(* NodeRegistry, for any nodes and faults: LiveInv says how old the entry  *)
(* of a node may be.  EventPipeline, for any jobs, attempts, chunks, sizes *)
(* and faults: the reconciler deletes no chunk that PostgreSQL has no row  *)
(* for.                                                                    *)
(***************************************************************************)
EXTENDS Kahn, DagWalk, NodeRegistry, EventPipeline, FiniteSetTheorems, TLAPS

\* The entries of a job that no step has relaxed yet.
Remaining(j) ==
    {e \in edges : e.child = j /\ (e \in todo \/ e.dep \notin Elements(sorted))}

KahnInv ==
    /\ KahnTypeOK
    /\ \A e \in todo : e.dep \in Elements(sorted)
    /\ \A j \in Jobs : inDegree[j] = Cardinality(Remaining(j))
    /\ \A j \in Jobs : inDegree[j] = 0 <=> j \in Elements(queue) \cup Elements(sorted)
    /\ Once(queue) /\ Once(sorted)
    /\ Elements(queue) \cap Elements(sorted) = {}
    /\ DepsFirst
    /\ VerdictRight

-----------------------------------------------------------------------------
(* Lists without repetition.                                               *)

\* Appending a new element adds it, and keeps the list free of repetitions
\* (queue = append(queue, child), sorted = append(sorted, name)).
LEMMA AppendOnce ==
    ASSUME NEW S, NEW s \in Seq(S), NEW x \in S
    PROVE  /\ Append(s, x) \in Seq(S)
           /\ Elements(Append(s, x)) = Elements(s) \cup {x}
           /\ Once(s) /\ x \notin Elements(s) => Once(Append(s, x))
<1> DEFINE t == Append(s, x)
<1>1. t \in Seq(S) /\ DOMAIN t = 1 .. Len(s) + 1 /\ DOMAIN s = 1 .. Len(s)
  OBVIOUS
<1>2. \A i \in 1 .. Len(s) : t[i] = s[i]
  OBVIOUS
<1>3. t[Len(s) + 1] = x
  OBVIOUS
<1>4. Len(s) \in Nat
  OBVIOUS
<1> HIDE DEF t
<1>5. Elements(t) = Elements(s) \cup {x}
  BY <1>1, <1>2, <1>3, <1>4 DEF Elements
<1>6. ASSUME Once(s), x \notin Elements(s) PROVE Once(t)
  BY <1>1, <1>2, <1>3, <1>4, <1>6 DEF Elements, Once
<1> QED
  BY <1>1, <1>5, <1>6 DEF t

\* Taking the head removes exactly it (name := queue[0]; queue = queue[1:]).
LEMMA TailOnce ==
    ASSUME NEW S, NEW s \in Seq(S), s # <<>>, Once(s)
    PROVE  /\ Head(s) \in Elements(s)
           /\ Head(s) \in S
           /\ Tail(s) \in Seq(S)
           /\ Elements(Tail(s)) = Elements(s) \ {Head(s)}
           /\ Once(Tail(s))
<1> DEFINE t == Tail(s)
<1>1. Len(s) \in Nat /\ Len(s) >= 1 /\ DOMAIN s = 1 .. Len(s)
  OBVIOUS
<1>2. t \in Seq(S) /\ DOMAIN t = 1 .. Len(s) - 1
  OBVIOUS
<1>3. \A i \in 1 .. Len(s) - 1 : t[i] = s[i + 1]
  OBVIOUS
<1>4. Head(s) = s[1] /\ s[1] \in S
  BY <1>1
<1> HIDE DEF t
<1>5. Head(s) \in Elements(s)
  BY <1>1, <1>4 DEF Elements
<1>6. Elements(t) = Elements(s) \ {Head(s)}
  <2>1. ASSUME NEW i \in DOMAIN t PROVE t[i] \in Elements(s) /\ t[i] # Head(s)
    BY <1>1, <1>2, <1>3, <1>4 DEF Elements, Once
  <2>2. ASSUME NEW i \in DOMAIN s, s[i] # Head(s) PROVE s[i] \in Elements(t)
    <3>1. i - 1 \in DOMAIN t /\ i = (i - 1) + 1
      BY <1>1, <1>2, <1>4, <2>2
    <3>2. t[i - 1] = s[i]
      BY <1>2, <1>3, <3>1
    <3> QED
      BY <3>1, <3>2 DEF Elements
  <2> QED
    BY <2>1, <2>2 DEF Elements
<1>7. Once(t)
  BY <1>1, <1>2, <1>3 DEF Once
<1> QED
  BY <1>2, <1>4, <1>5, <1>6, <1>7 DEF t

\* The comparison len(sorted) != len(jobs) tells whether all jobs are sorted.
LEMMA SortedAll ==
    ASSUME sorted \in Seq(Jobs), Once(sorted)
    PROVE  Len(sorted) = Cardinality(Jobs) <=> Elements(sorted) = Jobs
<1>1. Len(sorted) \in Nat /\ DOMAIN sorted = 1 .. Len(sorted)
  OBVIOUS
<1>2. sorted \in Injection(1 .. Len(sorted), Jobs)
  BY <1>1 DEF Injection, IsInjective, Once
<1>3. Cardinality(1 .. Len(sorted)) = Len(sorted)
  BY <1>1, FS_Interval
<1>4. Len(sorted) = Cardinality(Jobs) <=> sorted \in Surjection(1 .. Len(sorted), Jobs)
  BY <1>2, <1>3, FS_Injection, KahnAssumption
<1>5. sorted \in Surjection(1 .. Len(sorted), Jobs) <=> Elements(sorted) = Jobs
  BY <1>1, <1>2 DEF Surjection, Injection, Elements
<1> QED
  BY <1>4, <1>5

-----------------------------------------------------------------------------
(* The inductive invariant.                                                *)

\* Remaining entries are finite in number, so counts behave.
LEMMA RemainingFinite ==
    ASSUME KahnTypeOK, NEW j
    PROVE  IsFiniteSet(Remaining(j)) /\ Cardinality(Remaining(j)) \in Nat
<1>1. Remaining(j) \in SUBSET Edge
  BY DEF Remaining, KahnTypeOK
<1> QED
  BY <1>1, KahnAssumption, FS_Subset, FS_CardinalityType

\* The seeding of inDegree and of the queue establishes the invariant.
LEMMA KahnInvInit == SortInit => KahnInv
<1> SUFFICES ASSUME SortInit PROVE KahnInv
  OBVIOUS
<1> USE DEF SortInit
<1>1. Elements(sorted) = {} /\ sorted \in Seq(Jobs) /\ Once(sorted)
  BY DEF Elements, Once
<1>2. \A j \in Jobs : Remaining(j) = InEdges(j)
  BY <1>1 DEF Remaining, InEdges
<1>3. queue \in Seq(Jobs) /\ Once(queue) /\ Elements(queue) = {j \in Jobs : inDegree[j] = 0}
  <2>1. PICK n \in 0 .. Cardinality(Jobs) : queue \in [1 .. n -> Jobs]
    BY DEF Seeds
  <2>2. n \in Nat
    BY <2>1, FS_CardinalityType, KahnAssumption
  <2> QED
    BY <2>1, <2>2 DEF Seeds
<1>4. \A j \in Jobs : InEdges(j) \in SUBSET Edge
  BY DEF InEdges
<1>5. \A j \in Jobs : Cardinality(InEdges(j)) \in Nat
  BY <1>4, KahnAssumption, FS_Subset, FS_CardinalityType
<1>6. KahnTypeOK
  BY <1>1, <1>3, <1>5 DEF KahnTypeOK, InDegrees
<1>7. DepsFirst
  BY DEF DepsFirst
<1>8. VerdictRight
  BY DEF VerdictRight
<1>9. \A j \in Jobs : inDegree[j] = Cardinality(Remaining(j))
  BY <1>2 DEF InDegrees
<1> QED
  BY <1>1, <1>3, <1>6, <1>7, <1>8, <1>9 DEF KahnInv

\* Taking the head of the queue: its entries become the ones to relax, and as
\* none of its own is left, its dependencies are all sorted before it.
LEMMA TakeInv == KahnInv /\ Take => KahnInv'
<1> SUFFICES ASSUME KahnInv, Take PROVE KahnInv'
  OBVIOUS
<1> DEFINE h == Head(queue)
<1>0. KahnTypeOK /\ Once(queue) /\ Once(sorted) /\ Elements(queue) \cap Elements(sorted) = {}
  BY DEF KahnInv
<1>1. h \in Elements(queue) /\ h \in Jobs /\ Tail(queue) \in Seq(Jobs)
      /\ Elements(Tail(queue)) = Elements(queue) \ {h} /\ Once(Tail(queue))
  BY <1>0, TailOnce DEF Take, KahnTypeOK
<1>2. h \notin Elements(sorted)
  BY <1>0, <1>1
<1>3. sorted' \in Seq(Jobs) /\ Elements(sorted') = Elements(sorted) \cup {h} /\ Once(sorted')
  BY <1>0, <1>1, <1>2, AppendOnce DEF Take, KahnTypeOK
<1>4. Elements(queue') = Elements(queue) \ {h} /\ Once(queue') /\ queue' \in Seq(Jobs)
  BY <1>1 DEF Take
<1>5. todo = {} /\ todo' = {e \in edges : e.dep = h} /\ edges' = edges /\ inDegree' = inDegree
      /\ outcome = "walk" /\ outcome' = outcome
  BY DEF Take
<1> HIDE DEF h
<1>6. Elements(sorted)' = Elements(sorted) \cup {h} /\ Elements(queue)' = Elements(queue) \ {h}
      /\ Once(sorted)' /\ Once(queue)'
  BY <1>3, <1>4 DEF Elements, Once
<1>7. KahnTypeOK'
  BY <1>0, <1>3, <1>4, <1>5 DEF KahnTypeOK
<1>8. \A j \in Jobs : Remaining(j)' = Remaining(j)
  BY <1>2, <1>5, <1>6 DEF Remaining
<1>9. \A e \in edges : e.child = h => e.dep \in Elements(sorted)
  <2>1. inDegree[h] = 0
    BY <1>1 DEF KahnInv
  <2>2. Remaining(h) = {}
    BY <1>0, <1>1, <2>1, RemainingFinite, FS_EmptySet DEF KahnInv
  <2> QED
    BY <2>2 DEF Remaining
<1>10. DepsFirst'
  <2>1. Len(sorted) \in Nat /\ DOMAIN sorted = 1 .. Len(sorted)
    BY <1>0 DEF KahnTypeOK
  <2>2. DOMAIN sorted' = 1 .. Len(sorted) + 1 /\ sorted'[Len(sorted) + 1] = h
        /\ \A i \in 1 .. Len(sorted) : sorted'[i] = sorted[i]
    BY <1>0, <1>1 DEF Take, KahnTypeOK, h
  <2> SUFFICES ASSUME NEW i \in DOMAIN sorted', NEW e \in edges, e.child = sorted'[i]
               PROVE  \E k \in 1 .. (i - 1) : sorted'[k] = e.dep
    BY <1>5 DEF DepsFirst
  <2>3. CASE i = Len(sorted) + 1
    <3>1. PICK k \in DOMAIN sorted : sorted[k] = e.dep
      BY <1>9, <2>2, <2>3 DEF Elements
    <3> QED
      BY <2>1, <2>2, <2>3, <3>1
  <2>4. CASE i \in 1 .. Len(sorted)
    <3>1. PICK k \in 1 .. (i - 1) : sorted[k] = e.dep
      BY <2>1, <2>2, <2>4 DEF KahnInv, DepsFirst
    <3> QED
      BY <2>1, <2>2, <2>4, <3>1
  <2> QED
    BY <2>1, <2>2, <2>3, <2>4
<1>11. VerdictRight'
  BY <1>5 DEF VerdictRight
<1>12. \A j \in Jobs : inDegree'[j] = Cardinality(Remaining(j)')
  BY <1>5, <1>8 DEF KahnInv
<1>13. \A j \in Jobs : inDegree'[j] = 0 <=> j \in Elements(queue)' \cup Elements(sorted)'
  BY <1>1, <1>5, <1>6 DEF KahnInv
<1>14. \A e \in todo' : e.dep \in Elements(sorted)'
  BY <1>5, <1>6
<1>15. Elements(queue)' \cap Elements(sorted)' = {}
  BY <1>0, <1>6
<1> QED
  BY <1>6, <1>7, <1>10, <1>11, <1>12, <1>13, <1>14, <1>15 DEF KahnInv

\* Relaxing one entry takes exactly it out of the child's remaining entries; a
\* child whose last entry goes is neither queued nor sorted yet.
LEMMA RelaxInv == ASSUME KahnInv, NEW e \in todo, Relax(e) PROVE KahnInv'
<1> DEFINE c == e.child
<1>0. KahnTypeOK /\ Once(queue) /\ Once(sorted) /\ Elements(queue) \cap Elements(sorted) = {}
      /\ e \in edges /\ c \in Jobs /\ e.dep \in Elements(sorted)
  BY DEF KahnInv, KahnTypeOK, Edge
<1>1. edges' = edges /\ sorted' = sorted /\ outcome' = outcome /\ outcome = "walk" /\ todo' = todo \ {e}
      /\ inDegree' = [inDegree EXCEPT ![c] = @ - 1]
      /\ queue' = IF inDegree[c] = 1 THEN Append(queue, c) ELSE queue
  BY DEF Relax
<1>2. Elements(sorted)' = Elements(sorted) /\ Once(sorted)' /\ DepsFirst' /\ VerdictRight'
  BY <1>0, <1>1 DEF KahnInv, Elements, Once, DepsFirst, VerdictRight
<1>3. e \in Remaining(c)
  BY <1>0 DEF Remaining
<1>4. \A j \in Jobs : Remaining(j)' = Remaining(j) \ {e}
  BY <1>0, <1>1, <1>2 DEF Remaining
<1>5. \A j \in Jobs : j # c => e \notin Remaining(j)
  BY DEF Remaining
<1> HIDE DEF c
<1>6. \A j \in Jobs : Cardinality(Remaining(j)') =
                       IF j = c THEN Cardinality(Remaining(j)) - 1 ELSE Cardinality(Remaining(j))
  BY <1>0, <1>3, <1>4, <1>5, RemainingFinite, FS_RemoveElement
<1>7. inDegree[c] = Cardinality(Remaining(c)) /\ inDegree[c] # 0 /\ inDegree[c] \in Nat
  BY <1>0, <1>3, RemainingFinite, FS_EmptySet DEF KahnInv, KahnTypeOK
<1>8. c \notin Elements(queue) /\ c \notin Elements(sorted)
  BY <1>0, <1>7 DEF KahnInv
<1>9. inDegree' \in [Jobs -> Nat]
  BY <1>0, <1>1, <1>7 DEF KahnTypeOK
<1>10. \A j \in Jobs : inDegree'[j] = IF j = c THEN inDegree[j] - 1 ELSE inDegree[j]
  BY <1>0, <1>1 DEF KahnTypeOK
<1>11. \A j \in Jobs : inDegree'[j] = Cardinality(Remaining(j)')
  BY <1>6, <1>10 DEF KahnInv
<1>12. queue' \in Seq(Jobs) /\ Once(queue')
       /\ Elements(queue') = IF inDegree[c] = 1 THEN Elements(queue) \cup {c} ELSE Elements(queue)
  BY <1>0, <1>1, <1>8, AppendOnce DEF KahnTypeOK
<1>13. Elements(queue)' = Elements(queue') /\ Once(queue)'
  BY <1>12 DEF Elements, Once
<1>14. \A j \in Jobs : inDegree'[j] = 0 <=> j \in Elements(queue)' \cup Elements(sorted)'
  <2> SUFFICES ASSUME NEW j \in Jobs
               PROVE  inDegree'[j] = 0 <=> j \in Elements(queue)' \cup Elements(sorted)'
    OBVIOUS
  <2>1. CASE j = c
    BY <1>2, <1>7, <1>8, <1>10, <1>12, <1>13, <2>1
  <2>2. CASE j # c
    BY <1>2, <1>10, <1>12, <1>13, <2>2 DEF KahnInv
  <2> QED
    BY <2>1, <2>2
<1>15. KahnTypeOK'
  BY <1>0, <1>1, <1>9, <1>12 DEF KahnTypeOK
<1>16. \A x \in todo' : x.dep \in Elements(sorted)'
  BY <1>1, <1>2 DEF KahnInv
<1>17. Elements(queue)' \cap Elements(sorted)' = {}
  BY <1>0, <1>2, <1>8, <1>12, <1>13
<1> QED
  BY <1>2, <1>11, <1>13, <1>14, <1>15, <1>16, <1>17 DEF KahnInv

\* The verdict: all jobs sorted, in an order; or the jobs left over each wait
\* for one another.
LEMMA FinishInv == KahnInv /\ Finish => KahnInv'
<1> SUFFICES ASSUME KahnInv, Finish PROVE KahnInv'
  OBVIOUS
<1>0. KahnTypeOK /\ Once(sorted) /\ DepsFirst
  BY DEF KahnInv
<1>1. edges' = edges /\ inDegree' = inDegree /\ queue' = queue /\ sorted' = sorted
      /\ todo' = todo /\ todo = {} /\ queue = <<>> /\ outcome' = Result
  BY DEF Finish
<1>2. Elements(queue) = {}
  BY <1>1 DEF Elements
<1>3. Len(sorted) = Cardinality(Jobs) <=> Elements(sorted) = Jobs
  BY <1>0, SortedAll DEF KahnTypeOK
<1>4. ASSUME Elements(sorted) # Jobs PROVE Knotted
  <2> DEFINE S == Jobs \ Elements(sorted)
  <2>1. S # {} /\ S \in SUBSET Jobs
    <3>1. Elements(sorted) \subseteq Jobs
      BY <1>0 DEF KahnTypeOK, Elements
    <3> QED
      BY <1>4, <3>1
  <2>2. ASSUME NEW j \in S PROVE \E e \in edges : e.child = j /\ e.dep \in S
    <3>1. inDegree[j] # 0 /\ inDegree[j] = Cardinality(Remaining(j))
      BY <1>2, <2>2 DEF KahnInv
    <3>2. Remaining(j) # {}
      BY <1>0, <3>1, FS_EmptySet
    <3>3. PICK e \in Remaining(j) : TRUE
      BY <3>2
    <3>4. e \in edges /\ e.child = j /\ e.dep \notin Elements(sorted) /\ e.dep \in Jobs
      BY <1>0, <1>1, <3>3 DEF Remaining, KahnTypeOK, Edge
    <3> QED
      BY <3>4
  <2> HIDE DEF S
  <2> QED
    BY <2>1, <2>2 DEF Knotted
<1>5. ASSUME NEW i \in DOMAIN sorted, NEW k \in DOMAIN sorted, NEW e \in edges,
             e.dep = sorted[i], e.child = sorted[k]
      PROVE  i < k
  <2>1. PICK n \in 1 .. (k - 1) : sorted[n] = e.dep
    BY <1>0, <1>5 DEF DepsFirst
  <2>2. DOMAIN sorted = 1 .. Len(sorted) /\ Len(sorted) \in Nat
    BY <1>0 DEF KahnTypeOK
  <2>3. n \in DOMAIN sorted
    BY <2>1, <2>2
  <2>4. n = i
    BY <1>0, <1>5, <2>1, <2>3 DEF Once
  <2> QED
    BY <2>1, <2>2, <2>4
<1>6. VerdictRight'
  <2>1. Knotted' <=> Knotted
    BY <1>1 DEF Knotted
  <2>2. outcome' = "sorted" => Elements(sorted) = Jobs
    BY <1>1, <1>3 DEF Result
  <2>3. outcome' = "cycle" => Knotted
    BY <1>1, <1>3, <1>4 DEF Result
  <2>4. Elements(sorted)' = Elements(sorted)
    BY <1>1 DEF Elements
  <2> QED
    BY <1>1, <1>5, <2>1, <2>2, <2>3, <2>4 DEF VerdictRight
<1>7. KahnTypeOK' /\ DepsFirst' /\ Once(sorted)' /\ Once(queue)'
  BY <1>0, <1>1 DEF KahnInv, KahnTypeOK, DepsFirst, Once, Result
<1>8. Elements(queue)' = Elements(queue) /\ Elements(sorted)' = Elements(sorted)
      /\ \A j \in Jobs : Remaining(j)' = Remaining(j)
  BY <1>1 DEF Elements, Remaining
<1> QED
  BY <1>1, <1>6, <1>7, <1>8 DEF KahnInv

\* The invariant holds in every state of every walk.
THEOREM KahnInvariant == SortSpec => []KahnInv
<1>1. KahnInv /\ [SortNext]_sortVars => KahnInv'
  <2> SUFFICES ASSUME KahnInv, [SortNext]_sortVars PROVE KahnInv'
    OBVIOUS
  <2>1. CASE Take
    BY <2>1, TakeInv
  <2>2. ASSUME NEW e \in todo, Relax(e) PROVE KahnInv'
    BY <2>2, RelaxInv
  <2>3. CASE Finish
    BY <2>3, FinishInv
  <2>4. CASE UNCHANGED sortVars
    <3>1. edges' = edges /\ inDegree' = inDegree /\ queue' = queue /\ sorted' = sorted
          /\ todo' = todo /\ outcome' = outcome
      BY <2>4 DEF sortVars
    <3>2. Elements(queue)' = Elements(queue) /\ Elements(sorted)' = Elements(sorted)
          /\ (Knotted' <=> Knotted) /\ \A j \in Jobs : Remaining(j)' = Remaining(j)
      BY <3>1 DEF Elements, Remaining, Knotted
    <3>3. KahnTypeOK' /\ DepsFirst' /\ Once(sorted)' /\ Once(queue)'
      <4>1. KahnTypeOK'
        BY <3>1 DEF KahnInv, KahnTypeOK
      <4>2. DepsFirst'
        BY <3>1 DEF KahnInv, DepsFirst
      <4>3. Once(sorted)' /\ Once(queue)'
        BY <3>1 DEF KahnInv, Once
      <4> QED
        BY <4>1, <4>2, <4>3
    <3>4. VerdictRight'
      BY <3>1, <3>2 DEF KahnInv, VerdictRight
    <3> QED
      BY <3>1, <3>2, <3>3, <3>4 DEF KahnInv
  <2> QED
    BY <2>1, <2>2, <2>3, <2>4 DEF SortNext
<1> QED
  BY <1>1, KahnInvInit, PTL DEF SortSpec

\* inDegree never goes below zero in TopologicalSort, for every finite graph.
THEOREM KahnTypeCorrect == SortSpec => []KahnTypeOK
<1>1. KahnInv => KahnTypeOK
  BY DEF KahnInv
<1> QED
  BY <1>1, KahnInvariant, PTL

\* TopologicalSort lists every job after its dependencies, for every graph.
THEOREM SortRespectsDeps == SortSpec => []DepsFirst
<1>1. KahnInv => DepsFirst
  BY DEF KahnInv
<1> QED
  BY <1>1, KahnInvariant, PTL

\* TopologicalSort lists no job twice, for every graph.
THEOREM SortHasNoRepeats == SortSpec => []SortedOnce
<1>1. KahnInv => SortedOnce
  BY DEF KahnInv, SortedOnce
<1> QED
  BY <1>1, KahnInvariant, PTL

\* TopologicalSort reports a cycle exactly when there is one, for every graph.
THEOREM SortVerdictRight == SortSpec => []VerdictRight
<1>1. KahnInv => VerdictRight
  BY DEF KahnInv
<1> QED
  BY <1>1, KahnInvariant, PTL

-----------------------------------------------------------------------------
(* The walks.                                                              *)

\* Everything found or waiting is reachable, and the jobs that the walk has
\* left behind have all their successors found or waiting.
WalkInv ==
    /\ graph \in [Steps -> SUBSET Steps]
    /\ start \in Steps
    /\ walk \in {"descendants", "ancestors"}
    /\ phase \in {"walk", "done"}
    /\ found \subseteq Steps /\ work \subseteq Steps
    /\ phase = "done" => work = {}
    /\ \A S \in SUBSET Steps : graph[start] \subseteq S /\ Closed(S, graph) =>
          found \subseteq S /\ work \subseteq S \cup {start}
    /\ walk = "descendants" =>
          \A j \in found \cup {start} : j \in work \/ graph[j] \subseteq found
    /\ walk = "ancestors" =>
          /\ \A S \in SUBSET Steps : graph[start] \subseteq S /\ Closed(S, graph) => work \subseteq S
          /\ \A j \in found \cup {start} : graph[j] \subseteq found \cup work

\* Both walks of dag.go keep the invariant.
THEOREM WalkInvariant == WalkSpec => []WalkInv
<1>1. WalkInit => WalkInv
  BY DEF WalkInit, WalkInv
<1>2. WalkInv /\ [WalkNext]_walkVars => WalkInv'
  <2> SUFFICES ASSUME WalkInv, [WalkNext]_walkVars PROVE WalkInv'
    OBVIOUS
  <2>1. ASSUME NEW j \in work, Descend(j) PROVE WalkInv'
    BY <2>1 DEF WalkInv, Descend, Closed
  <2>2. ASSUME NEW j \in work, Climb(j) PROVE WalkInv'
    BY <2>2 DEF WalkInv, Climb, Closed
  <2>3. CASE WalkEnds
    BY <2>3 DEF WalkInv, WalkEnds, Closed
  <2>4. CASE UNCHANGED walkVars
    BY <2>4 DEF WalkInv, walkVars, Closed
  <2> QED
    BY <2>1, <2>2, <2>3, <2>4 DEF WalkNext
<1> QED
  BY <1>1, <1>2, PTL DEF WalkSpec

\* Descendants and the ancestor set of validateFromReferences are the
\* reachable jobs, for every graph.
THEOREM WalksAreClosures == WalkSpec => []WalkFindsReach
<1>1. WalkInv => WalkFindsReach
  <2> SUFFICES ASSUME WalkInv, phase = "done" PROVE found = Reach(graph, start)
    BY DEF WalkFindsReach
  <2>1. DOMAIN graph = Steps /\ work = {} /\ found \in SUBSET Steps
    BY DEF WalkInv
  <2>2. graph[start] \subseteq found /\ Closed(found, graph)
    BY <2>1 DEF WalkInv, Closed
  <2>3. Reach(graph, start) \subseteq found
    BY <2>1, <2>2 DEF Reach
  <2>4. found \subseteq Reach(graph, start)
    BY <2>1 DEF Reach, WalkInv
  <2> QED
    BY <2>3, <2>4
<1> QED
  BY <1>1, WalkInvariant, PTL

-----------------------------------------------------------------------------
(* NodeRegistry: heartbeats that come in time keep a node healthy.         *)

\* An entry is a record, and its age stops at StaleAfter.
EntryShape(e) ==
    /\ e = [addr |-> e.addr, labels |-> e.labels, age |-> e.age]
    /\ e.age \in 0 .. StaleAfter

\* A node that was heard has been seen in this interval, or in the last one
\* and its next heartbeat is still due; only a serving coordinator hears.
LiveInv ==
    /\ agent = [n \in Nodes |-> agent[n]]
    /\ \A n \in Nodes : agent[n] = [pc |-> agent[n].pc, addr |-> agent[n].addr,
                                    labels |-> agent[n].labels]
    /\ entry = [n \in Nodes |-> entry[n]] /\ \A n \in Nodes : EntryShape(entry[n])
    /\ heard \subseteq Nodes
    /\ heard # {} => serving
    /\ \A n \in heard : /\ agent[n].pc = "up"
                        /\ entry[n].age = 0 \/ (entry[n].age = 1 /\ n \in due)

LEMMA NoEntryShape == EntryShape(NoEntry)
  BY DEF EntryShape, NoEntry, StaleAfter

LEMMA LiveStart == Init => LiveInv
  <1> SUFFICES ASSUME Init PROVE LiveInv
    OBVIOUS
  <1>1. agent = [n \in Nodes |-> Off] /\ entry = [n \in Nodes |-> NoEntry] /\ heard = {}
    BY DEF Init
  <1>2. Off = [pc |-> Off.pc, addr |-> Off.addr, labels |-> Off.labels]
    BY DEF Off
  <1>3. /\ agent = [n \in Nodes |-> agent[n]]
        /\ \A n \in Nodes : agent[n] = [pc |-> agent[n].pc, addr |-> agent[n].addr,
                                        labels |-> agent[n].labels]
    BY <1>1, <1>2
  <1>4. entry = [n \in Nodes |-> entry[n]] /\ \A n \in Nodes : EntryShape(entry[n])
    BY <1>1, NoEntryShape
  <1> QED
    BY <1>1, <1>3, <1>4 DEF LiveInv

LEMMA LiveStep == LiveInv /\ [Next]_vars => LiveInv'
  <1> SUFFICES ASSUME LiveInv, [Next]_vars PROVE LiveInv'
    OBVIOUS
  <1>1. CASE UNCHANGED vars
    BY <1>1 DEF vars, LiveInv
  <1>2. ASSUME NEW n \in Nodes, NEW a \in Addresses, NEW l \in Labels, AgentStart(n, a, l)
        PROVE  LiveInv'
    BY <1>2 DEF AgentStart, LiveInv
  <1>3. ASSUME NEW n \in Nodes, Register(n)
        PROVE  LiveInv'
    <2>1. PICK e : e = [addr |-> agent[n].addr, labels |-> agent[n].labels, age |-> 0]
      OBVIOUS
    <2>2. EntryShape(e) /\ e.age = 0
      BY <2>1 DEF EntryShape, StaleAfter
    <2>3. PICK g : g = [agent[n] EXCEPT !.pc = "up"]
      OBVIOUS
    <2>4. g.pc = "up" /\ g = [pc |-> g.pc, addr |-> g.addr, labels |-> g.labels]
      BY <2>3 DEF LiveInv
    <2>5. /\ entry' = [entry EXCEPT ![n] = e] /\ heard' = heard \cup {n}
          /\ agent' = [agent EXCEPT ![n] = g] /\ due' = due /\ serving'
      BY <1>3, <2>1, <2>3 DEF Register
    <2>6. /\ entry' = [m \in Nodes |-> entry'[m]] /\ \A m \in Nodes : EntryShape(entry'[m])
          /\ entry'[n].age = 0 /\ \A m \in Nodes \ {n} : entry'[m] = entry[m]
      BY <2>2, <2>5 DEF LiveInv
    <2>7. /\ agent' = [m \in Nodes |-> agent'[m]] /\ agent'[n] = g
          /\ \A m \in Nodes \ {n} : agent'[m] = agent[m]
      BY <2>5 DEF LiveInv
    <2>8. \A m \in Nodes : agent'[m] = [pc |-> agent'[m].pc, addr |-> agent'[m].addr,
                                        labels |-> agent'[m].labels]
      BY <2>4, <2>7 DEF LiveInv
    <2>9. \A m \in heard' : /\ agent'[m].pc = "up"
                            /\ entry'[m].age = 0 \/ (entry'[m].age = 1 /\ m \in due')
      BY <2>4, <2>5, <2>6, <2>7 DEF LiveInv
    <2> QED
      BY <2>5, <2>6, <2>7, <2>8, <2>9 DEF LiveInv
  <1>4. ASSUME NEW n \in Nodes, HandleHeartbeat(n)
        PROVE  LiveInv'
    <2>1. CASE entry[n] = NoEntry
      BY <1>4, <2>1 DEF HandleHeartbeat, LiveInv, NoEntry, StaleAfter
    <2>2. CASE entry[n] # NoEntry
      <3>1. PICK e : e = [entry[n] EXCEPT !.age = 0]
        OBVIOUS
      <3>2. EntryShape(e) /\ e.age = 0
        BY <3>1 DEF LiveInv, EntryShape, StaleAfter
      <3>3. /\ entry' = [entry EXCEPT ![n] = e] /\ heard' = heard \cup {n}
            /\ agent' = agent /\ agent[n].pc = "up" /\ due' = due \ {n} /\ serving /\ serving'
        BY <1>4, <2>2, <3>1 DEF HandleHeartbeat
      <3> QED
        BY <3>2, <3>3 DEF LiveInv
    <2> QED
      BY <2>1, <2>2
  <1>5. ASSUME NEW n \in Nodes, AgentStop(n)
        PROVE  LiveInv'
    BY <1>5 DEF AgentStop, LiveInv, Off
  <1>6. ASSUME NEW s \in saves, SaveNode(s) \/ SaveFails(s)
        PROVE  LiveInv'
    BY <1>6 DEF SaveNode, SaveFails, LiveInv
  <1>7. CASE PruneStaleNodes
    BY <1>7 DEF PruneStaleNodes, LiveInv
  <1>8. CASE CoordinatorStop
    <2>1. entry' = [n \in Nodes |-> NoEntry] /\ heard' = {} /\ agent' = agent
      BY <1>8 DEF CoordinatorStop
    <2>2. entry' = [n \in Nodes |-> entry'[n]] /\ \A n \in Nodes : EntryShape(entry'[n])
      BY <2>1, NoEntryShape
    <2> QED
      BY <2>1, <2>2 DEF LiveInv
  <1>9. CASE Restore
    <2>1. ASSUME NEW n \in Nodes
          PROVE  EntryShape(entry'[n])
      <3>1. PICK last : last = CHOOSE a \in RecordsOf(n) : \A b \in RecordsOf(n) : b <= a
        OBVIOUS
      <3>2. \/ entry'[n] = NoEntry
            \/ entry'[n] = [addr |-> last, labels |-> NoLabels, age |-> StaleAfter]
        BY <1>9, <2>1, <3>1 DEF Restore
      <3>3. EntryShape([addr |-> last, labels |-> NoLabels, age |-> StaleAfter])
        BY DEF EntryShape, StaleAfter
      <3> QED
        BY <3>2, <3>3, NoEntryShape
    <2>2. heard' = {} /\ agent' = agent /\ entry' = [n \in Nodes |-> entry'[n]]
      BY <1>9 DEF Restore, LiveInv
    <2> QED
      BY <2>1, <2>2 DEF LiveInv
  <1>10. CASE Interval
    <2>1. \A n \in Nodes : EntryShape(entry'[n])
      BY <1>10 DEF Interval, LiveInv, EntryShape, StaleAfter
    <2>2. ASSUME NEW n \in heard
          PROVE  entry'[n].age = 1 /\ n \in due'
      <3>1. n \in Nodes /\ n \notin due /\ entry[n].age = 0 /\ agent[n].pc = "up"
        BY <1>10, <2>2 DEF Interval, LiveInv
      <3>2. n \in due'
        BY <1>10, <3>1 DEF Interval
      <3>3. entry'[n] = [entry[n] EXCEPT !.age = entry[n].age + 1] /\ EntryShape(entry[n])
        BY <1>10, <3>1 DEF Interval, LiveInv, StaleAfter
      <3> QED
        BY <3>1, <3>2, <3>3 DEF EntryShape
    <2> QED
      BY <1>10, <2>1, <2>2 DEF Interval, LiveInv
  <1> QED
    BY <1>1, <1>2, <1>3, <1>4, <1>5, <1>6, <1>7, <1>8, <1>9, <1>10 DEF Next

\* A node that runs and that the coordinator has heard never turns unhealthy
\* (registry.go isHealthy, the heartbeats and PruneStaleNodes), whatever
\* nodes, addresses and faults there are.
THEOREM LiveNodesStayHealthy == Spec => []LiveStaysHealthy
  <1>1. LiveInv => LiveStaysHealthy
    <2> SUFFICES ASSUME LiveInv, NEW n \in heard PROVE isHealthy(n)
      BY DEF LiveStaysHealthy
    <2>1. entry[n].age = 0 \/ entry[n].age = 1
      BY DEF LiveInv
    <2>2. NoEntry.age = 2
      BY DEF NoEntry, StaleAfter
    <2> QED
      BY <2>1, <2>2 DEF isHealthy, StaleAfter
  <1> QED
    BY <1>1, LiveStart, LiveStep, PTL DEF Spec

-----------------------------------------------------------------------------
(* The log chunks of a run.                                                *)

\* Badger's chunks are functions of their keys; what the second pass holds was
\* confirmed, and rows never go away.
ReconcilerInv ==
    /\ log \in [Keys -> Nat] /\ stored \in [Keys -> Nat]
    /\ run \in [JobIDs -> [attempt : Nat, seq : Nat, at : {"ready", "live", "over"}]]
    /\ DOMAIN rows = Keys
    /\ sweep \in [pc : {"idle", "ask", "delete"}, keys : SUBSET Keys]
    /\ sweep.pc = "delete" => \A k \in sweep.keys : rows[k] # 0
    /\ KeptSomewhere

\* ON CONFLICT DO NOTHING: a transaction never takes a row away.
LEMMA LandKeepsRows ==
    ASSUME NEW b, Land(b)
    PROVE  DOMAIN rows' = Keys /\ \A k \in Keys : rows[k] # 0 => rows'[k] # 0
BY DEF Land, FirstRow

\* A step that leaves Badger and the reconciler alone.
LEMMA SinkStepInv ==
    ASSUME ReconcilerInv, UNCHANGED <<run, log, sweep, stored>>, UNCHANGED rows \/ \E b : Land(b)
    PROVE  ReconcilerInv'
<1>1. DOMAIN rows' = Keys /\ \A k \in Keys : rows[k] # 0 => rows'[k] # 0
  BY LandKeepsRows DEF ReconcilerInv
<1>2. sweep'.pc = "delete" => \A k \in sweep'.keys : rows'[k] # 0
  <2> SUFFICES ASSUME sweep.pc = "delete", NEW k \in sweep.keys PROVE rows'[k] # 0
    OBVIOUS
  <2> QED BY <1>1 DEF ReconcilerInv
<1>3. KeptSomewhere'
  BY <1>1 DEF ReconcilerInv, KeptSomewhere
<1> QED BY <1>1, <1>2, <1>3 DEF ReconcilerInv

\* A chunk taken by Badger is there under its key.
LEMMA StreamChunkInv ==
    ASSUME ReconcilerInv, NEW j \in JobIDs, NEW ok \in BOOLEAN, StreamChunk(j, ok)
    PROVE  ReconcilerInv'
<1> USE DEF ReconcilerInv
<1> PICK a : a = run[j].attempt
  BY Zenon
<1> PICK s : s = run[j].seq + 1
  BY Zenon
<1>1. /\ run' = [run EXCEPT ![j].seq = s] /\ s <= MaxChunks
      /\ UNCHANGED <<rows, sweep>>
      /\ IF ok THEN /\ log' = [log EXCEPT ![<<j, s>>] = a]
                    /\ stored' = [stored EXCEPT ![<<j, s>>] = a]
               ELSE UNCHANGED <<log, stored>>
  BY DEF StreamChunk, pgVars
<1>2. a \in Nat /\ s \in Nat
  OBVIOUS
<1>3. run' \in [JobIDs -> [attempt : Nat, seq : Nat, at : {"ready", "live", "over"}]]
  BY <1>1, <1>2
<1>4. log' \in [Keys -> Nat] /\ stored' \in [Keys -> Nat]
  BY <1>1, <1>2, Zenon
<1>5. KeptSomewhere'
  <2>1. CASE ok
    <3> HIDE DEF ReconcilerInv
    <3>1. PICK key : key = <<j, s>>
      BY Zenon
    <3>2. /\ log' = [log EXCEPT ![key] = a] /\ stored' = [stored EXCEPT ![key] = a]
          /\ DOMAIN log = Keys /\ DOMAIN stored = Keys /\ rows' = rows /\ KeptSomewhere
      BY <1>1, <2>1, <3>1, Zenon DEF ReconcilerInv
    <3>3. ASSUME NEW k \in Keys, k = key
          PROVE  log'[k] = stored'[k]
      BY <3>2, <3>3, Zenon
    <3>4. ASSUME NEW k \in Keys, k # key
          PROVE  log'[k] = log[k] /\ stored'[k] = stored[k]
      BY <3>2, <3>4, Zenon
    <3> QED BY <3>2, <3>3, <3>4, Zenon DEF KeptSomewhere
  <2>2. CASE ~ok
    BY <1>1, <2>2 DEF KeptSomewhere
  <2> QED BY <2>1, <2>2
<1> QED BY <1>1, <1>3, <1>4, <1>5

\* A run starts or ends.
LEMMA RunInv ==
    ASSUME ReconcilerInv, NEW j \in JobIDs, StartRun(j) \/ \E how \in Outcomes : EndRun(j, how)
    PROVE  ReconcilerInv'
<1>1. UNCHANGED <<rows, log, sweep, stored>>
  BY DEF StartRun, EndRun, pgVars
<1>2. run' \in [JobIDs -> [attempt : Nat, seq : Nat, at : {"ready", "live", "over"}]]
  BY DEF StartRun, EndRun, ReconcilerInv
<1> QED BY <1>1, <1>2 DEF ReconcilerInv, KeptSomewhere

\* A step of the reconciler that deletes nothing.
LEMMA PassInv ==
    ASSUME ReconcilerInv, UNCHANGED <<run, log, rows, stored>>,
           NEW p \in {"idle", "ask", "delete"}, NEW S \in SUBSET Keys,
           sweep' = [pc |-> p, keys |-> S],
           p = "delete" => \A k \in S : rows[k] # 0
    PROVE  ReconcilerInv'
<1>1. sweep' \in [pc : {"idle", "ask", "delete"}, keys : SUBSET Keys]
  OBVIOUS
<1>2. KeptSomewhere'
  BY DEF ReconcilerInv, KeptSomewhere
<1> QED BY <1>1, <1>2 DEF ReconcilerInv

\* The passes of the reconciler: what is deleted was confirmed, and a row that
\* was there at the first pass is there at the second.
LEMMA SweepInv ==
    ASSUME ReconcilerInv,
           \/ Gather \/ Confirm \/ ConfirmFails \/ SweepEnds
           \/ \E k \in Keys, ok \in BOOLEAN : Delete(k, ok)
    PROVE  ReconcilerInv'
<1>1. CASE Gather \/ Confirm \/ ConfirmFails \/ SweepEnds
  <2>1. UNCHANGED <<run, log, rows, stored>>
    BY <1>1 DEF Gather, Confirm, ConfirmFails, SweepEnds, pgVars
  <2>2. CASE Gather
    <3>1. PICK S \in SUBSET Keys : sweep' = [pc |-> "ask", keys |-> S]
      BY <2>2 DEF Gather
    <3> QED BY <2>1, <3>1, PassInv
  <2>3. CASE Confirm
    <3>1. PICK S : S = {k \in sweep.keys : rows[k] # 0}
      BY Zenon
    <3>2. S \in SUBSET Keys /\ sweep' = [pc |-> "delete", keys |-> S]
      BY <2>3, <3>1 DEF Confirm, ReconcilerInv
    <3> QED BY <2>1, <3>1, <3>2, PassInv
  <2>4. CASE ConfirmFails \/ SweepEnds
    BY <2>1, <2>4, PassInv DEF ConfirmFails, SweepEnds, Idle
  <2> QED BY <1>1, <2>2, <2>3, <2>4
<1>2. ASSUME NEW k \in Keys, NEW ok \in BOOLEAN, Delete(k, ok)
      PROVE  ReconcilerInv'
  <2>1. /\ sweep.pc = "delete" /\ k \in sweep.keys /\ rows[k] # 0
        /\ sweep' = [sweep EXCEPT !.keys = @ \ {k}]
        /\ log' = [log EXCEPT ![k] = 0] \/ log' = log
        /\ UNCHANGED <<run, rows, stored>>
    BY <1>2 DEF Delete, ReconcilerInv, pgVars
  <2>2. log' \in [Keys -> Nat] /\ \A l \in Keys : log'[l] = log[l] \/ rows[l] # 0
    BY <2>1 DEF ReconcilerInv
  <2>3. /\ sweep' \in [pc : {"idle", "ask", "delete"}, keys : SUBSET Keys]
        /\ sweep'.pc = "delete" => \A l \in sweep'.keys : rows[l] # 0
    BY <2>1 DEF ReconcilerInv
  <2> QED BY <2>1, <2>2, <2>3 DEF ReconcilerInv, KeptSomewhere
<1> QED BY <1>1, <1>2

\* A stop or a crash ends the reconciler's pass.
LEMMA DownInv ==
    ASSUME ReconcilerInv, Stop \/ Crash PROVE ReconcilerInv'
<1>1. UNCHANGED <<run, log, rows, stored>> /\ sweep' = [pc |-> "idle", keys |-> {}]
  BY DEF Stop, Crash, Idle, pgVars
<1> QED BY <1>1, PassInv

\* logstore/reconciler.go: a chunk that Badger took is there still, or
\* PostgreSQL has a row under its key.
THEOREM ChunksAreKept == PipelineSpec => []KeptSomewhere
<1>1. PipelineInit => ReconcilerInv
  <2> SUFFICES ASSUME PipelineInit PROVE ReconcilerInv
    OBVIOUS
  <2>1. sweep = [pc |-> "idle", keys |-> {}]
    BY DEF PipelineInit, Idle
  <2>2. /\ sweep \in [pc : {"idle", "ask", "delete"}, keys : SUBSET Keys]
        /\ sweep.pc # "delete"
    BY <2>1
  <2>3. run \in [JobIDs -> [attempt : Nat, seq : Nat, at : {"ready", "live", "over"}]]
    BY DEF PipelineInit
  <2>4. /\ log \in [Keys -> Nat] /\ stored \in [Keys -> Nat] /\ DOMAIN rows = Keys
        /\ \A k \in Keys : stored[k] = 0
    BY DEF PipelineInit
  <2>5. KeptSomewhere
    BY <2>4 DEF KeptSomewhere
  <2> QED
    BY <2>2, <2>3, <2>4, <2>5 DEF ReconcilerInv
<1>2. ReconcilerInv /\ [PipelineNext]_pipelineVars => ReconcilerInv'
  <2> SUFFICES ASSUME ReconcilerInv, [PipelineNext]_pipelineVars PROVE ReconcilerInv'
    OBVIOUS
  <2>1. ASSUME NEW j \in JobIDs, StartRun(j) \/ \E how \in Outcomes : EndRun(j, how)
        PROVE  ReconcilerInv'
    BY <2>1, RunInv
  <2>2. ASSUME NEW j \in JobIDs, NEW ok \in BOOLEAN, StreamChunk(j, ok) PROVE ReconcilerInv'
    BY <2>2, StreamChunkInv
  <2>3. CASE ReceiveEvent \/ Tick \/ FlushFails \/ LoopEnds \/ Restart \/ MinAgePasses \/ UNCHANGED pipelineVars
    <3>1. UNCHANGED <<run, log, sweep, stored>> /\ UNCHANGED rows
      BY <2>3 DEF ReceiveEvent, Tick, FlushFails, LoopEnds, Restart, MinAgePasses, pipelineVars, pgVars
    <3> QED BY <3>1, SinkStepInv
  <2>4. CASE FlushCommit \/ FlushUnheard \/ \E ok \in BOOLEAN : FinalFlush(ok)
    <3>1. UNCHANGED <<run, log, sweep, stored>> /\ (UNCHANGED rows \/ \E b : Land(b))
      BY <2>4 DEF FlushCommit, FlushUnheard, FinalFlush, pgVars
    <3> QED BY <3>1, SinkStepInv
  <2>5. CASE Stop \/ Crash
    BY <2>5, DownInv
  <2>6. CASE \/ Gather \/ Confirm \/ ConfirmFails \/ SweepEnds
             \/ \E k \in Keys, ok \in BOOLEAN : Delete(k, ok)
    BY <2>6, SweepInv
  <2> QED BY <2>1, <2>2, <2>3, <2>4, <2>5, <2>6 DEF PipelineNext
<1>3. ReconcilerInv => KeptSomewhere
  BY DEF ReconcilerInv
<1> QED BY <1>1, <1>2, <1>3, PTL DEF PipelineSpec

=============================================================================
