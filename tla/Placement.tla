----------------------------- MODULE Placement -----------------------------
(* The dispatch loop's choices: which pending job first, and on which node *)
(*   internal/cluster/priority.go         EffectivePriority, the queue     *)
(*   internal/cluster/dispatch.go         a tick over the queue            *)
(*   internal/cluster/scheduler.go        filters by selector and GPUs     *)
(*   internal/cluster/policy.go           round-robin, least-loaded        *)
(*   internal/cluster/policy_resource.go  best fit                         *)
(* Dispatch models what happens to a job that has its node; here the       *)
(* nodes' health and load move while a tick walks its snapshot. The        *)
(* healthy nodes are listed in the order of a Go map: any order, drawn     *)
(* anew at every call.                                                     *)
EXTENDS Integers, Sequences, FiniteSets, Functions, FiniteSetsExt

CONSTANTS Jobs,         \* job ids
          Needs,        \* job -> [priority, selector, gpus]
          Nodes,        \* node ids
          Offers,       \* node -> [labels, gpus, slots, cpu]
          Policies,     \* the values of HELION_SCHEDULER tried
          TopPriority,  \* the cap of EffectivePriority (100)
          MidPriority,  \* the priority of a job that gives none (50)
          Aged          \* bound: minutes that pass

PlacementAssumption ==
    /\ TopPriority \in Nat /\ MidPriority \in 1..TopPriority /\ Aged \in Nat
    /\ Needs \in [Jobs -> [priority : Nat, selector : SUBSET STRING, gpus : Nat]]

VARIABLES policy,    \* the configured policy
          now,       \* minutes
          created,   \* job -> CreatedAt, -1 before it is submitted
          placed,    \* job -> set of nodes it was scheduled on
          queue,     \* what is left of the tick's snapshot; NoTick between ticks
          healthy,   \* nodes with a fresh heartbeat
          reported,  \* node -> RunningJobs of its last heartbeat
          counters,  \* RoundRobinPolicy: candidate set -> counter
          served     \* history: candidate set -> nodes picked in this rotation

vars == <<policy, now, created, placed, queue, healthy, reported, counters, served>>

NoTick == <<"no tick">>

Init ==
    /\ policy \in Policies
    /\ now = 0
    /\ created = [j \in Jobs |-> -1]
    /\ placed = [j \in Jobs |-> {}]
    /\ queue = NoTick
    /\ healthy \in SUBSET Nodes
    /\ reported = [n \in Nodes |-> 0]
    /\ counters = [S \in SUBSET Nodes |-> 0]
    /\ served = [S \in SUBSET Nodes |-> {}]

-----------------------------------------------------------------------------
(* The queue.                                                              *)

Base(j) == IF Needs[j].priority = 0 THEN MidPriority ELSE Needs[j].priority

\* Mutant: a job's age is not counted.
EffectivePriority_NoAge(j) == Base(j)

\* One point for each minute of age, up to the cap.
EffectivePriority(j) ==
    LET eff == Base(j) + (now - created[j])
    IN  IF eff > TopPriority THEN TopPriority ELSE eff

Pending == {j \in Jobs : created[j] >= 0 /\ placed[j] = {}}

Before(j, k) ==
    \/ EffectivePriority(j) > EffectivePriority(k)
    \/ EffectivePriority(j) = EffectivePriority(k) /\ created[j] < created[k]

\* sort.Slice is not stable: jobs that compare equal come in any order.
PendingByPriority ==
    {q \in Bijection(1..Cardinality(Pending), Pending) :
        \A i, k \in DOMAIN q : i < k => ~Before(q[k], q[i])}

-----------------------------------------------------------------------------
(* The candidates of a job, as the policy gets them.                       *)

nodeMatchesSelector(n, j) == Needs[j].selector \subseteq Offers[n].labels

filterBySelector(S, j) ==
    IF Needs[j].selector = {} THEN S ELSE {n \in S : nodeMatchesSelector(n, j)}

filterByGPU(S, j) ==
    IF Needs[j].gpus = 0 THEN S ELSE {n \in S : Offers[n].gpus >= Needs[j].gpus}

Candidates(j) == filterByGPU(filterBySelector(healthy, j), j)

Orders(S) == Bijection(1..Cardinality(S), S)

\* A scan that keeps the first node no later node beats.
FirstBest(order, Better(_, _)) ==
    order[CHOOSE i \in DOMAIN order :
            /\ \A k \in DOMAIN order : ~Better(order[k], order[i])
            /\ \A k \in 1..(i - 1) : Better(order[i], order[k])]

RoundRobinPick(order, S) == order[(counters[S] % Len(order)) + 1]

LessLoaded(n, m) == reported[n] < reported[m]

LeastLoadedPick(order) == FirstBest(order, LessLoaded)

remainingScore(n) ==
    LET slots == Offers[n].slots - reported[n]
        cpu == Offers[n].cpu - reported[n]
    IN  (IF slots > 0 THEN slots ELSE 0) + (IF cpu > 0 THEN cpu ELSE 0)

Tighter(n, m) == remainingScore(n) < remainingScore(m)

\* A node says nothing of its capacity with zeros; a full one is passed over.
HasRoom(n) ==
    /\ ~(Offers[n].cpu = 0 /\ Offers[n].slots = 0)
    /\ ~(Offers[n].slots > 0 /\ reported[n] >= Offers[n].slots)

ResourceAwarePick(order) ==
    LET fits == SelectSeq(order, HasRoom)
    IN  IF fits # <<>> THEN FirstBest(fits, Tighter) ELSE LeastLoadedPick(order)

Pick(order, S) ==
    CASE policy = "round-robin" -> RoundRobinPick(order, S)
      [] policy = "least" -> LeastLoadedPick(order)
      [] policy = "resource-aware" -> ResourceAwarePick(order)

-----------------------------------------------------------------------------
(* The dispatch loop.                                                      *)

TickStart ==
    /\ queue = NoTick
    /\ \E q \in PendingByPriority : queue' = q
    /\ UNCHANGED <<policy, now, created, placed, healthy, reported, counters, served>>

\* Mutant: a job without a matching node ends the tick.
AfterNoMatch_Return(q) == <<>>

\* ErrNoNodeMatchesSelector: the loop goes on to the next job.
AfterNoMatch(q) == Tail(q)

(* One job of the snapshot: with no healthy node at all the tick ends.     *)
TickJob ==
    /\ queue # NoTick /\ queue # <<>>
    /\ LET j == Head(queue)
           S == Candidates(j)
       IN  IF healthy = {}
           THEN queue' = <<>> /\ UNCHANGED <<placed, counters, served>>
           ELSE IF S = {}
           THEN queue' = AfterNoMatch(queue) /\ UNCHANGED <<placed, counters, served>>
           ELSE \E order \in Orders(S) :
                  LET n == Pick(order, S)
                  IN  /\ placed' = [placed EXCEPT ![j] = @ \cup {n}]
                      /\ queue' = Tail(queue)
                      /\ IF policy = "round-robin"
                         THEN /\ counters' = [counters EXCEPT ![S] = (@ + 1) % Cardinality(S)]
                              /\ served' = [served EXCEPT ![S] =
                                               IF counters[S] = 0 THEN {n} ELSE @ \cup {n}]
                         ELSE UNCHANGED <<counters, served>>
    /\ UNCHANGED <<policy, now, created, healthy, reported>>

TickEnd ==
    /\ queue = <<>>
    /\ queue' = NoTick
    /\ UNCHANGED <<policy, now, created, placed, healthy, reported, counters, served>>

-----------------------------------------------------------------------------
(* Around it.                                                              *)

Submit(j) ==
    /\ created[j] = -1
    /\ created' = [created EXCEPT ![j] = now]
    /\ UNCHANGED <<policy, now, placed, queue, healthy, reported, counters, served>>

Minute ==
    /\ now < Aged
    /\ now' = now + 1
    /\ UNCHANGED <<policy, created, placed, queue, healthy, reported, counters, served>>

\* A heartbeat carries the number of jobs the node runs.
Heartbeat(n) ==
    /\ healthy' = healthy \cup {n}
    /\ reported' = [reported EXCEPT ![n] = Cardinality({j \in Jobs : n \in placed[j]})]
    /\ UNCHANGED <<policy, now, created, placed, queue, counters, served>>

GoesStale(n) ==
    /\ healthy' = healthy \ {n}
    /\ UNCHANGED <<policy, now, created, placed, queue, reported, counters, served>>

Tick == TickStart \/ TickJob \/ TickEnd

Next ==
    \/ Tick
    \/ \E j \in Jobs : Submit(j)
    \/ Minute
    \/ \E n \in Nodes : Heartbeat(n) \/ GoesStale(n)

Spec == Init /\ [][Next]_vars

\* The loop's ticker fires again and again, whatever else happens.
FairSpec == Spec /\ WF_vars(Tick)

-----------------------------------------------------------------------------
(* Properties.                                                             *)

PlacementTypeOK ==
    /\ now \in 0..Aged
    /\ created \in [Jobs -> -1..Aged]
    /\ placed \in [Jobs -> SUBSET Nodes]
    /\ queue = NoTick \/ Range(queue) \subseteq Jobs
    /\ healthy \subseteq Nodes

(* A job that has waited long enough to reach the top priority is tried    *)
(* before every job submitted after it, whatever their priorities: this    *)
(* is what the age boost is for (priority.go). The order is that of the    *)
(* moment the tick began, so a minute that passes meanwhile is allowed     *)
(* for.                                                                    *)
OldFirst ==
    queue # NoTick =>
        \A i, k \in DOMAIN queue :
            i < k => ~ /\ created[queue[k]] < created[queue[i]]
                       /\ Base(queue[k]) + (created[queue[i]] - created[queue[k]]) >= TopPriority

(* A job for which a matching node stays healthy is scheduled: no job in   *)
(* front of it that cannot be placed, and no flapping of other nodes,      *)
(* holds it up for ever (dispatch.go: continue on no match, return only    *)
(* when no node is healthy).                                               *)
PlacedOn(j, n) ==
    n \in filterByGPU(filterBySelector({n}, j), j) =>
        (<>[](n \in healthy) => (j \in Pending ~> placed[j] # {}))

PlaceableIsPlaced == \A j \in Jobs, n \in Nodes : PlacedOn(j, n)

(* In one rotation over a candidate set no node is picked twice: policy.go *)
(* says the policy cycles through the list in order. The list's order is   *)
(* that of a map iteration, drawn anew at every pick.                      *)
TakesTurns ==
    \A S \in SUBSET Nodes :
        Cardinality(served[S]) = counters[S] \/ (counters[S] = 0 /\ served[S] = S)

=============================================================================
