----------------------------- MODULE RunProofs ------------------------------
(***************************************************************************)
(* Proofs about a run on its node and about what becomes of its output.    *)
(*                                                                         *)
(* NodeAgent, for every number of devices, jobs, requests and devices asked*)
(* for.  The allocator knows jobs, DevicesExclusive speaks of processes.   *)
(* DeviceInv ties the two: a job has at most one call in progress          *)
(* (AloneForJob), so the devices busy for a job are the ones its one call  *)
(* sees.  CompleteInv follows the outputs of a run to its report.          *)
(*                                                                         *)
(* Artifacts, for any jobs, keys, attempts, chunks and faults, over either *)
(* store.  WholeInv says that what has a name is whole; MadeInv follows    *)
(* the digest of an output from its run to the job that reads it.          *)
(***************************************************************************)
EXTENDS NodeAgent, Artifacts, FiniteSetTheorems, TLAPS

\* The loop of GPUAllocator.Allocate takes the free indices in order and stops
\* at n of them: when n are free, it takes exactly n.
LEMMA LowestAreN ==
    ASSUME NEW F \in SUBSET Nat, IsFiniteSet(F), NEW n \in Nat, n <= Cardinality(F)
    PROVE  LET L == {d \in F : Cardinality({e \in F : e < d}) < n}
           IN  IsFiniteSet(L) /\ Cardinality(L) = n
<1> DEFINE below(d) == {e \in F : e < d}
           rank == [d \in F |-> Cardinality(below(d))]
           N == 0..(Cardinality(F) - 1)
           L == {d \in F : Cardinality(below(d)) < n}
           M == 0..(n - 1)
           r == [d \in L |-> rank[d]]
<1>0. Cardinality(F) \in Nat
  BY FS_CardinalityType
<1>1. ASSUME NEW d \in F
      PROVE  /\ IsFiniteSet(below(d))
             /\ Cardinality(below(d)) \in Nat
             /\ Cardinality(below(d)) < Cardinality(F)
  <2>1. below(d) \in SUBSET F /\ below(d) # F
    <3>1. d \notin below(d) BY d \in Nat
    <3>2. QED BY <3>1
  <2>2. IsFiniteSet(below(d)) /\ Cardinality(below(d)) <= Cardinality(F)
        /\ Cardinality(F) # Cardinality(below(d))
    BY <2>1, FS_Subset
  <2>3. Cardinality(below(d)) \in Nat
    BY <2>2, FS_CardinalityType
  <2>4. QED BY <2>2, <2>3, <1>0
<1>2. ASSUME NEW d \in F, NEW e \in F, d < e
      PROVE  Cardinality(below(d)) < Cardinality(below(e))
  <2>1. below(d) \in SUBSET below(e) /\ below(d) # below(e)
    <3>1. \A x \in below(d) : x \in Nat /\ x < d /\ x \in F OBVIOUS
    <3>2. d \in below(e) BY <1>2
    <3>3. d \notin below(d) BY d \in Nat
    <3>4. \A x \in Nat : x < d => x < e BY <1>2, d \in Nat, e \in Nat
    <3>5. QED BY <3>1, <3>2, <3>3, <3>4, Zenon
  <2>2. IsFiniteSet(below(e)) BY <1>1
  <2>3. /\ Cardinality(below(d)) <= Cardinality(below(e))
        /\ Cardinality(below(e)) # Cardinality(below(d))
    BY <2>1, <2>2, FS_Subset
  <2>4. QED BY <2>3, <1>1
<1>3. rank \in Injection(F, N)
  <2>1. rank \in [F -> N]
    <3>1. \A d \in F : rank[d] \in N BY <1>0, <1>1
    <3>2. QED BY <3>1
  <2>2. \A d, e \in F : rank[d] = rank[e] => d = e
    <3>1. SUFFICES ASSUME NEW d \in F, NEW e \in F, d # e PROVE rank[d] # rank[e]
      OBVIOUS
    <3>2. d < e \/ e < d BY <3>1, d \in Nat, e \in Nat
    <3>3. rank[d] \in Nat /\ rank[e] \in Nat BY <1>1
    <3>4. rank[d] < rank[e] \/ rank[e] < rank[d] BY <3>2, <1>2
    <3>5. QED BY <3>3, <3>4
  <2>3. QED BY <2>1, <2>2, Zenon DEF Injection, IsInjective
<1>4. IsFiniteSet(N) /\ Cardinality(N) = Cardinality(F)
  <2> DEFINE k == Cardinality(F)
  <2> HIDE DEF k
  <2>1. k \in Nat /\ k - 1 \in Int BY <1>0 DEF k
  <2>2. IsFiniteSet(0..(k - 1)) /\ Cardinality(0..(k - 1)) = IF 0 > k - 1 THEN 0 ELSE (k - 1) - 0 + 1
    BY <2>1, FS_Interval
  <2>3. (IF 0 > k - 1 THEN 0 ELSE (k - 1) - 0 + 1) = k BY <2>1
  <2>4. QED BY <2>2, <2>3 DEF k
<1>5. rank \in Surjection(F, N)
  BY <1>3, <1>4, FS_Injection
<1>6. IsFiniteSet(L)
  <2>1. L \in SUBSET F OBVIOUS
  <2>2. QED BY <2>1, FS_Subset, Zenon
<1>7. r \in Bijection(L, M)
  <2>1. r \in [L -> M]
    <3>1. \A d \in L : r[d] \in M
      <4>1. SUFFICES ASSUME NEW d \in L PROVE rank[d] \in M OBVIOUS
      <4>2. rank[d] = Cardinality(below(d)) /\ Cardinality(below(d)) \in Nat
            /\ Cardinality(below(d)) < n
        BY <1>1
      <4>3. QED BY <4>2
    <3>2. QED BY <3>1, Zenon
  <2>2. \A d, e \in L : r[d] = r[e] => d = e
    BY <1>3, Zenon DEF Injection, IsInjective
  <2>3. \A m \in M : \E d \in L : r[d] = m
    <3>1. SUFFICES ASSUME NEW m \in M PROVE \E d \in L : r[d] = m OBVIOUS
    <3>2. m \in N BY <1>0
    <3>3. PICK d \in F : rank[d] = m BY <1>5, <3>2, Zenon DEF Surjection
    <3>4. Cardinality(below(d)) = m BY <3>3
    <3>5. d \in L BY <3>4
    <3>6. QED BY <3>3, <3>5
  <2>4. QED BY <2>1, <2>2, <2>3 DEF Bijection, Injection, Surjection, IsInjective
<1>8. ExistsBijection(L, M)
  BY <1>7 DEF ExistsBijection
<1>9. Cardinality(M) = Cardinality(L)
  BY <1>6, <1>8, FS_Bijection
<1>10. Cardinality(M) = n
  BY FS_Interval
<1>11. QED BY <1>6, <1>9, <1>10

-----------------------------------------------------------------------------

\* The devices of a node are finitely many, and the free ones are what the
\* claimed ones leave.
LEMMA FreeCount ==
    /\ IsFiniteSet(Devices) /\ Devices \in SUBSET Nat
    /\ IsFiniteSet(Free) /\ Free \in SUBSET Nat
    /\ Cardinality(Claimed) \in Nat /\ Cardinality(Free) \in Nat
    /\ Cardinality(Free) + Cardinality(Claimed) = Total
<1>1. Total \in Nat /\ Total - 1 \in Int
  BY NodeAssumption
<1>2. IsFiniteSet(0..(Total - 1))
      /\ Cardinality(0..(Total - 1)) = IF 0 > Total - 1 THEN 0 ELSE (Total - 1) - 0 + 1
  BY <1>1, FS_Interval
<1>3. IsFiniteSet(Devices) /\ Cardinality(Devices) = Total
  BY <1>1, <1>2 DEF Devices
<1>4. Devices \in SUBSET Nat
  BY <1>1 DEF Devices
<1>5. Free \in SUBSET Devices /\ Claimed \in SUBSET Devices
  BY DEF Free, Claimed
<1>6. IsFiniteSet(Free) /\ IsFiniteSet(Claimed)
  BY <1>3, <1>5, FS_Subset
<1>7. Cardinality(Free) \in Nat /\ Cardinality(Claimed) \in Nat
  BY <1>6, FS_CardinalityType
<1>8. Free \cup Claimed = Devices /\ Free \cap Claimed = {}
  BY <1>5 DEF Free
<1>9. Cardinality(Free \cup Claimed)
        = Cardinality(Free) + Cardinality(Claimed) - Cardinality(Free \cap Claimed)
  BY <1>6, FS_Union
<1>10. Cardinality({}) = 0
  BY FS_EmptySet
<1>11. Cardinality(Free) + Cardinality(Claimed) = Total
  <2>1. Cardinality(Free \cup Claimed) = Total BY <1>3, <1>8
  <2>2. Cardinality(Free \cap Claimed) = 0 BY <1>8, <1>10
  <2>3. QED BY <1>1, <1>7, <1>9, <2>1, <2>2
<1>12. Free \in SUBSET Nat
  BY <1>4, <1>5
<1>13. QED
  BY <1>3, <1>4, <1>6, <1>7, <1>11, <1>12

\* Allocate's check, in uint32 arithmetic that cannot wrap for the requests
\* the API lets through: when it passes, exactly n devices are picked, all of
\* them free.
LEMMA PickedExactly ==
    ASSUME NEW j \in Jobs, Gpus[j] = 0 \/ ~Insufficient(Gpus[j])
    PROVE  /\ Picked(Gpus[j]) \in SUBSET Free
           /\ Cardinality(Picked(Gpus[j])) = Gpus[j]
<1> DEFINE n == Gpus[j]
<1>1. n \in Nat /\ Total \in Nat /\ Wrap \in Nat /\ Total + n < Wrap
  BY NodeAssumption
<1>2. n <= Cardinality(Free)
  <2>1. CASE n = 0
    BY <2>1, FreeCount
  <2>2. CASE ~Insufficient(n)
    <3> DEFINE k == Cardinality(Claimed)
    <3> HIDE DEF k
    <3>1. k \in Nat /\ k <= Total /\ Cardinality(Free) = Total - k
      BY FreeCount, <1>1 DEF k
    <3>2. (k + n) % Wrap = k + n
      BY <1>1, <3>1
    <3>3. ~((k + n) % Wrap > Total)
      BY <2>2 DEF Insufficient, k
    <3>4. k + n <= Total
      BY <1>1, <3>1, <3>2, <3>3
    <3>5. QED BY <1>1, <3>1, <3>4
  <2>3. QED BY <2>1, <2>2
<1>3. Cardinality({d \in Free : Cardinality({e \in Free : e < d}) < n}) = n
  BY <1>1, <1>2, FreeCount, LowestAreN, Zenon
<1>4. QED BY <1>3 DEF Picked

-----------------------------------------------------------------------------

\* A job has one call in progress at most (Receive).
AloneForJob ==
    \A b, c \in Calls : Live(b) /\ Live(c) /\ JobOf[b] = JobOf[c] => b = c

\* The call in Run sees the devices its job owns, no others, and as many as it
\* asked for; an owner is the job of such a call.
SeesOwned ==
    \A c \in Calls : Holding(c) =>
        /\ \A d \in Devices : d \in call[c].sees <=> busy[d] = JobOf[c]
        /\ Cardinality(call[c].sees) = Gpus[JobOf[c]]

OwnersHold ==
    \A d \in Devices : busy[d] # NoJobID =>
        \E c \in Calls : Holding(c) /\ JobOf[c] = busy[d]

DeviceInv ==
    /\ call \in [Calls -> Call]
    /\ busy \in [Devices -> Jobs \cup {NoJobID}]
    /\ AloneForJob
    /\ SeesOwned
    /\ OwnersHold

\* Before the first request no device is claimed.
LEMMA DeviceInvInit == Init => DeviceInv
<1>1. SUFFICES ASSUME Init PROVE DeviceInv
  OBVIOUS
<1>2. \A c \in Calls : call[c].pc = "idle"
  BY <1>1 DEF Init, NewCall
<1>3. call \in [Calls -> Call]
  BY <1>1 DEF Init, NewCall, Call, PC
<1>4. busy \in [Devices -> Jobs \cup {NoJobID}] /\ \A d \in Devices : busy[d] = NoJobID
  BY <1>1 DEF Init
<1>5. QED
  BY <1>2, <1>3, <1>4 DEF DeviceInv, AloneForJob, SeesOwned, OwnersHold, Holding, Live

\* Every step of Dispatch but Allocate and Release leaves the allocator alone
\* and neither enters nor leaves Run.
LEMMA QuietStep ==
    ASSUME DeviceInv, call' \in [Calls -> Call], busy' = busy,
           \A c \in Calls : /\ call'[c].sees = call[c].sees
                            /\ Holding(c)' <=> Holding(c)
                            /\ Live(c)' => Live(c)
    PROVE  DeviceInv'
<1>1. busy' \in [Devices -> Jobs \cup {NoJobID}]
  BY DEF DeviceInv
<1>2. AloneForJob'
  BY DEF DeviceInv, AloneForJob
<1>3. SeesOwned'
  BY DEF DeviceInv, SeesOwned
<1>4. OwnersHold'
  BY DEF DeviceInv, OwnersHold
<1>5. QED BY <1>1, <1>2, <1>3, <1>4 DEF DeviceInv

\* A request is received only when the last one of its job has reported.
LEMMA ReceiveInv ==
    ASSUME DeviceInv, NEW c \in Calls, Receive(c)
    PROVE  DeviceInv'
<1>1. call \in [Calls -> Call] /\ busy' = busy
  BY DEF DeviceInv, Receive
<1>2. PICK to \in {"mint", "ack"} :
        call' = [call EXCEPT ![c] = [[call[c] EXCEPT !.pc = to] EXCEPT !.counted = TRUE]]
  BY <1>1, Zenon DEF Receive
<1>3. call' \in [Calls -> Call]
  <2>1. call[c] \in Call BY <1>1
  <2>2. [call[c] EXCEPT !.pc = to] \in Call BY <2>1 DEF Call, PC
  <2>3. [[call[c] EXCEPT !.pc = to] EXCEPT !.counted = TRUE] \in Call BY <2>2, Zenon DEF Call
  <2>4. QED BY <1>1, <1>2, <2>3
<1>4. \A b \in Calls \ {c} : call'[b] = call[b]
  BY <1>1, <1>2
<1>5. call'[c].sees = call[c].sees /\ call'[c].pc \in {"mint", "ack"} /\ call[c].pc = "idle"
  BY <1>1, <1>2 DEF Receive, At, Call
<1>6. \A b \in Calls : (Holding(b)' <=> Holding(b)) /\ call'[b].sees = call[b].sees
  BY <1>4, <1>5 DEF Holding
<1>7. \A b \in Calls : JobOf[b] = JobOf[c] => ~Live(b)
  BY DEF Receive
<1>8. AloneForJob'
  BY <1>4, <1>7 DEF DeviceInv, AloneForJob, Live
<1>9. SeesOwned' /\ OwnersHold'
  BY <1>1, <1>6 DEF DeviceInv, SeesOwned, OwnersHold
<1>10. QED BY <1>1, <1>3, <1>8, <1>9 DEF DeviceInv

HoldPC == {"start", "run", "leave", "release"}

DeadPC == {"idle", "reply", "done"}

\* The same for a step that changes the record of one call, which stays on its
\* side of Run and is not a new one.
LEMMA QuietCall ==
    ASSUME DeviceInv, NEW c \in Calls, NEW r \in Call,
           call' = [call EXCEPT ![c] = r], busy' = busy,
           r.sees = call[c].sees,
           r.pc \in HoldPC <=> call[c].pc \in HoldPC,
           call[c].pc \in DeadPC => r.pc \in DeadPC
    PROVE  DeviceInv'
<1>1. call \in [Calls -> Call]
  BY DEF DeviceInv
<1>2. call' \in [Calls -> Call] /\ call'[c] = r /\ \A b \in Calls \ {c} : call'[b] = call[b]
  BY <1>1
<1>3. \A b \in Calls : /\ call'[b].sees = call[b].sees
                       /\ Holding(b)' <=> Holding(b)
                       /\ Live(b)' => Live(b)
  BY <1>2 DEF Holding, Live, HoldPC, DeadPC
<1>4. QED BY <1>2, <1>3, QuietStep

\* Steps that only move the program counter of the call (Go) ...
LEMMA GoInv ==
    ASSUME DeviceInv, NEW c \in Calls, NEW to \in PC, Go(c, to), busy' = busy,
           to \in HoldPC <=> call[c].pc \in HoldPC,
           call[c].pc \in DeadPC => to \in DeadPC
    PROVE  DeviceInv'
<1> DEFINE r == [call[c] EXCEPT !.pc = to]
<1>1. call[c] \in Call
  BY DEF DeviceInv
<1>2. r \in Call /\ r.pc = to /\ r.sees = call[c].sees
  BY <1>1 DEF Call
<1>3. call' = [call EXCEPT ![c] = r]
  BY DEF Go
<1> HIDE DEF r
<1>4. QED BY <1>2, <1>3, QuietCall, Zenon

\* ... and those that mark it as failed too (Fail).
LEMMA FailInv ==
    ASSUME DeviceInv, NEW c \in Calls, NEW to \in PC, Fail(c, to), busy' = busy,
           to \in HoldPC <=> call[c].pc \in HoldPC,
           call[c].pc \in DeadPC => to \in DeadPC
    PROVE  DeviceInv'
<1> DEFINE r == [[call[c] EXCEPT !.pc = to] EXCEPT !.ok = FALSE]
<1>1. call[c] \in Call
  BY DEF DeviceInv
<1>2. [call[c] EXCEPT !.pc = to] \in Call
  BY <1>1 DEF Call
<1>3. r \in Call /\ r.pc = to /\ r.sees = call[c].sees
  BY <1>1, <1>2, Zenon DEF Call
<1>4. call' = [call EXCEPT ![c] = r]
  BY Zenon DEF Fail, DeviceInv
<1> HIDE DEF r
<1>5. QED BY <1>3, <1>4, QuietCall, Zenon

\* Dispatch up to Run, and Finalize, the report and the reply.
LEMMA OutsideRunInv ==
    ASSUME DeviceInv, NEW c \in Calls,
           \/ Mint(c) \/ StageFails(c) \/ StageDone(c) \/ Ack(c) \/ RunRefused(c)
           \/ \E sent \in SUBSET Outputs[JobOf[c]] : Upload(c, sent)
           \/ Clean(c) \/ Report(c) \/ Reply(c)
    PROVE  DeviceInv'
<1>0. call[c] \in Call
  BY DEF DeviceInv
<1>1. CASE Mint(c)
  BY <1>1, GoInv, FailInv DEF Mint, At, PC, HoldPC, DeadPC
<1>2. CASE StageFails(c)
  BY <1>2, FailInv DEF StageFails, At, PC, HoldPC, DeadPC
<1>3. CASE StageDone(c)
  BY <1>3, GoInv DEF StageDone, At, PC, HoldPC, DeadPC
<1>4. CASE Ack(c)
  <2>1. CASE JobOf[c] \notin Services
    BY <1>4, <2>1, GoInv DEF Ack, At, PC, HoldPC, DeadPC
  <2>2. CASE JobOf[c] \in Services
    <3> DEFINE r == [[call[c] EXCEPT !.pc = "alloc"] EXCEPT !.counted = FALSE]
    <3>1. [call[c] EXCEPT !.pc = "alloc"] \in Call BY <1>0 DEF Call, PC
    <3>2. r \in Call /\ r.pc = "alloc" /\ r.sees = call[c].sees BY <1>0, <3>1, Zenon DEF Call
    <3>3. call' = [call EXCEPT ![c] = r] BY <1>4, <2>2, Zenon DEF Ack, DeviceInv
    <3>4. busy' = busy /\ call[c].pc = "ack" BY <1>4 DEF Ack, At
    <3> HIDE DEF r
    <3>5. QED BY <3>2, <3>3, <3>4, QuietCall, Zenon DEF HoldPC, DeadPC
  <2>3. QED BY <2>1, <2>2
<1>5. CASE RunRefused(c)
  BY <1>5, FailInv DEF RunRefused, At, PC, HoldPC, DeadPC
<1>6. CASE \E sent \in SUBSET Outputs[JobOf[c]] : Upload(c, sent)
  <2>1. (Fail(c, "clean") \/ Go(c, "clean")) /\ busy' = busy /\ call[c].pc = "upload"
    BY <1>6 DEF Upload, At
  <2>2. QED BY <2>1, GoInv, FailInv DEF PC, HoldPC, DeadPC
<1>7. CASE Clean(c)
  BY <1>7, GoInv DEF Clean, At, PC, HoldPC, DeadPC
<1>8. CASE Report(c)
  BY <1>8, GoInv DEF Report, At, PC, HoldPC, DeadPC
<1>9. CASE Reply(c)
  <2> DEFINE r == [[call[c] EXCEPT !.pc = "done"] EXCEPT !.counted = FALSE]
  <2>1. [call[c] EXCEPT !.pc = "done"] \in Call BY <1>0 DEF Call, PC
  <2>2. r \in Call /\ r.pc = "done" /\ r.sees = call[c].sees BY <1>0, <2>1, Zenon DEF Call
  <2>3. call' = [call EXCEPT ![c] = r] BY <1>9, Zenon DEF Reply, DeviceInv
  <2>4. busy' = busy /\ call[c].pc = "reply" BY <1>9 DEF Reply, At
  <2> HIDE DEF r
  <2>5. QED BY <2>2, <2>3, <2>4, QuietCall, Zenon DEF HoldPC, DeadPC
<1>10. QED
  BY <1>1, <1>2, <1>3, <1>4, <1>5, <1>6, <1>7, <1>8, <1>9

\* Run between the two calls to the allocator.
LEMMA InsideRunInv ==
    ASSUME DeviceInv, NEW c \in Calls,
           Start(c) \/ Leave(c) \/ \E ok \in BOOLEAN : Exit(c, ok)
    PROVE  DeviceInv'
<1>1. CASE Start(c)
  BY <1>1, GoInv DEF Start, At, PC, HoldPC, DeadPC
<1>2. CASE Leave(c)
  BY <1>2, GoInv DEF Leave, At, PC, HoldPC, DeadPC
<1>3. ASSUME NEW ok \in BOOLEAN, Exit(c, ok) PROVE DeviceInv'
  <2> DEFINE r == [[call[c] EXCEPT !.pc = "leave"] EXCEPT !.ok = ok]
  <2>1. call[c] \in Call BY DEF DeviceInv
  <2>2. [call[c] EXCEPT !.pc = "leave"] \in Call BY <2>1 DEF Call, PC
  <2>3. r \in Call /\ r.pc = "leave" /\ r.sees = call[c].sees BY <2>1, <2>2, Zenon DEF Call
  <2>4. call' = [call EXCEPT ![c] = r] BY <1>3, Zenon DEF Exit, DeviceInv
  <2>5. busy' = busy /\ call[c].pc = "run" BY <1>3 DEF Exit, At
  <2> HIDE DEF r
  <2>6. QED BY <2>3, <2>4, <2>5, QuietCall, Zenon DEF HoldPC, DeadPC
<1>4. QED BY <1>1, <1>2, <1>3

\* The coordinator gives the RPC up, or calls Cancel: contexts end, devices
\* stay with the call until it returns from Run.
LEMMA ContextInv ==
    ASSUME DeviceInv, (\E c \in Calls : RpcGivenUp(c)) \/ (\E j \in Jobs : Cancel(j))
    PROVE  DeviceInv'
<1>0. call \in [Calls -> Call]
  BY DEF DeviceInv
<1>1. ASSUME NEW c \in Calls, RpcGivenUp(c) PROVE DeviceInv'
  <2> DEFINE r == [call[c] EXCEPT !.ctx = FALSE]
  <2>1. r \in Call /\ r.pc = call[c].pc /\ r.sees = call[c].sees BY <1>0, Zenon DEF Call
  <2>2. call' = [call EXCEPT ![c] = r] /\ busy' = busy BY <1>1 DEF RpcGivenUp
  <2> HIDE DEF r
  <2>3. QED BY <2>1, <2>2, QuietCall, Zenon
<1>2. ASSUME NEW j \in Jobs, Cancel(j), running[j] \in Calls PROVE DeviceInv'
  <2> DEFINE r == [call[running[j]] EXCEPT !.killed = TRUE]
  <2>1. r \in Call /\ r.pc = call[running[j]].pc /\ r.sees = call[running[j]].sees
    BY <1>0, <1>2, Zenon DEF Call
  <2>2. call' = [call EXCEPT ![running[j]] = r] /\ busy' = busy BY <1>2 DEF Cancel
  <2> HIDE DEF r
  <2>3. QED BY <1>2, <2>1, <2>2, QuietCall, Zenon
<1>3. ASSUME NEW j \in Jobs, Cancel(j), running[j] \notin Calls PROVE DeviceInv'
  <2>1. call' = call /\ busy' = busy BY <1>0, <1>3 DEF Cancel
  <2>2. QED BY <1>0, <2>1, QuietStep DEF Holding, Live
<1>4. QED BY <1>1, <1>2, <1>3

\* Allocate gives the job of the call, which owns nothing yet, exactly the
\* devices it asked for, and takes none from another job.
LEMMA AllocateInv ==
    ASSUME DeviceInv, NEW c \in Calls, Allocate(c)
    PROVE  DeviceInv'
<1> DEFINE j == JobOf[c]
           picked == Picked(Gpus[j])
           r == [[call[c] EXCEPT !.pc = "start"] EXCEPT !.sees = picked]
<1>0. call \in [Calls -> Call] /\ busy \in [Devices -> Jobs \cup {NoJobID}]
      /\ j \in Jobs /\ j # NoJobID
  BY NodeAssumption DEF DeviceInv
<1>1. picked \in SUBSET Free /\ Cardinality(picked) = Gpus[j]
  BY <1>0, PickedExactly DEF Allocate
<1>2. picked \in SUBSET Devices /\ \A d \in picked : busy[d] = NoJobID
  BY <1>1 DEF Free, Claimed
<1>3. busy' = [d \in Devices |-> IF d \in picked THEN j ELSE busy[d]]
  BY DEF Allocate
<1>4. r \in Call /\ r.pc = "start" /\ r.sees = picked
  <2>1. call[c] \in Call BY <1>0
  <2>2. [call[c] EXCEPT !.pc = "start"] \in Call BY <2>1 DEF Call, PC
  <2>3. QED BY <1>2, <2>1, <2>2, Zenon DEF Call
<1>5. call' = [call EXCEPT ![c] = r] /\ call[c].pc = "alloc"
  BY <1>0, Zenon DEF Allocate, At
<1> HIDE DEF r, picked, j
<1>6. call' \in [Calls -> Call] /\ call'[c] = r /\ \A b \in Calls \ {c} : call'[b] = call[b]
  BY <1>0, <1>4, <1>5
<1>7. busy' \in [Devices -> Jobs \cup {NoJobID}]
  BY <1>0, <1>3
<1>8. Live(c) /\ ~Holding(c) /\ Holding(c)' /\ Live(c)'
  BY <1>4, <1>5, <1>6 DEF Live, Holding
<1>9. \A b \in Calls \ {c} : (Holding(b)' <=> Holding(b)) /\ (Live(b)' <=> Live(b))
  BY <1>6 DEF Live, Holding
<1>10. \A b \in Calls \ {c} : Holding(b) => JobOf[b] # j
  BY <1>8 DEF DeviceInv, AloneForJob, Live, Holding, j
<1>11. \A d \in Devices : busy[d] # j
  BY <1>0, <1>8, <1>10 DEF DeviceInv, OwnersHold
<1>12. AloneForJob'
  BY <1>8, <1>9 DEF DeviceInv, AloneForJob
<1>13. SeesOwned'
  <2>1. SUFFICES ASSUME NEW b \in Calls, Holding(b)'
                 PROVE  /\ \A d \in Devices : d \in call'[b].sees <=> busy'[d] = JobOf[b]
                        /\ Cardinality(call'[b].sees) = Gpus[JobOf[b]]
    BY DEF SeesOwned
  <2>2. CASE b = c
    BY <1>1, <1>3, <1>4, <1>6, <1>11, <2>2 DEF j
  <2>3. CASE b # c
    <3>1. Holding(b) /\ call'[b] = call[b] /\ JobOf[b] # j /\ JobOf[b] # NoJobID
      BY <1>6, <1>9, <1>10, <2>1, <2>3, NodeAssumption
    <3>2. /\ \A d \in Devices : d \in call[b].sees <=> busy[d] = JobOf[b]
          /\ Cardinality(call[b].sees) = Gpus[JobOf[b]]
      BY <3>1 DEF DeviceInv, SeesOwned
    <3>3. \A d \in Devices : busy'[d] = JobOf[b] <=> busy[d] = JobOf[b]
      BY <1>2, <1>3, <3>1
    <3>4. QED BY <3>1, <3>2, <3>3
  <2>4. QED BY <2>2, <2>3
<1>14. OwnersHold'
  <2>1. SUFFICES ASSUME NEW d \in Devices, busy'[d] # NoJobID
                 PROVE  \E b \in Calls : Holding(b)' /\ JobOf[b] = busy'[d]
    BY DEF OwnersHold
  <2>2. CASE d \in picked
    BY <1>3, <1>8, <2>2 DEF j
  <2>3. CASE d \notin picked
    <3>1. busy'[d] = busy[d] BY <1>3, <2>3
    <3>2. PICK b \in Calls : Holding(b) /\ JobOf[b] = busy[d]
      BY <2>1, <3>1 DEF DeviceInv, OwnersHold
    <3>3. b # c BY <1>8, <3>2
    <3>4. QED BY <1>9, <3>1, <3>2, <3>3
  <2>4. QED BY <2>2, <2>3
<1>15. QED BY <1>6, <1>7, <1>12, <1>13, <1>14 DEF DeviceInv

\* Release goes by the job: the call that leaves is the only one of its job, so
\* the devices of every other call stay.
LEMMA ReleaseInv ==
    ASSUME DeviceInv, NEW c \in Calls, Release(c)
    PROVE  DeviceInv'
<1> DEFINE j == JobOf[c]
           r == [[call[c] EXCEPT !.pc = "upload"] EXCEPT !.sees = {}]
<1>0. call \in [Calls -> Call] /\ busy \in [Devices -> Jobs \cup {NoJobID}]
      /\ j \in Jobs /\ j # NoJobID
  BY NodeAssumption DEF DeviceInv
<1>1. busy' = [d \in Devices |-> IF busy[d] = j THEN NoJobID ELSE busy[d]]
  BY DEF Release
<1>2. r \in Call /\ r.pc = "upload"
  <2>1. call[c] \in Call BY <1>0
  <2>2. [call[c] EXCEPT !.pc = "upload"] \in Call BY <2>1 DEF Call, PC
  <2>3. QED BY <2>1, <2>2, Zenon DEF Call
<1>3. call' = [call EXCEPT ![c] = r] /\ call[c].pc = "release"
  BY <1>0, Zenon DEF Release, At
<1> HIDE DEF r, j
<1>4. call' \in [Calls -> Call] /\ call'[c] = r /\ \A b \in Calls \ {c} : call'[b] = call[b]
  BY <1>0, <1>2, <1>3
<1>5. busy' \in [Devices -> Jobs \cup {NoJobID}]
  BY <1>0, <1>1
<1>6. Live(c) /\ ~Holding(c)'
  BY <1>2, <1>3, <1>4 DEF Live, Holding
<1>7. \A b \in Calls \ {c} : (Holding(b)' <=> Holding(b)) /\ (Live(b)' <=> Live(b))
  BY <1>4 DEF Live, Holding
<1>8. \A b \in Calls \ {c} : Holding(b) => JobOf[b] # j
  BY <1>6 DEF DeviceInv, AloneForJob, Live, Holding, j
<1>9. AloneForJob'
  BY <1>6, <1>7 DEF DeviceInv, AloneForJob
<1>10. SeesOwned'
  <2>1. SUFFICES ASSUME NEW b \in Calls, Holding(b)'
                 PROVE  /\ \A d \in Devices : d \in call'[b].sees <=> busy'[d] = JobOf[b]
                        /\ Cardinality(call'[b].sees) = Gpus[JobOf[b]]
    BY DEF SeesOwned
  <2>2. b # c BY <1>6, <2>1
  <2>3. Holding(b) /\ call'[b] = call[b] /\ JobOf[b] # j /\ JobOf[b] # NoJobID
    BY <1>4, <1>7, <1>8, <2>1, <2>2, NodeAssumption
  <2>4. /\ \A d \in Devices : d \in call[b].sees <=> busy[d] = JobOf[b]
        /\ Cardinality(call[b].sees) = Gpus[JobOf[b]]
    BY <2>3 DEF DeviceInv, SeesOwned
  <2>5. \A d \in Devices : busy'[d] = JobOf[b] <=> busy[d] = JobOf[b]
    BY <1>1, <2>3
  <2>6. QED BY <2>3, <2>4, <2>5
<1>11. OwnersHold'
  <2>1. SUFFICES ASSUME NEW d \in Devices, busy'[d] # NoJobID
                 PROVE  \E b \in Calls : Holding(b)' /\ JobOf[b] = busy'[d]
    BY DEF OwnersHold
  <2>2. busy'[d] = busy[d] /\ busy[d] # j BY <1>1, <2>1
  <2>3. PICK b \in Calls : Holding(b) /\ JobOf[b] = busy[d]
    BY <2>1, <2>2 DEF DeviceInv, OwnersHold
  <2>4. b # c BY <2>2, <2>3 DEF j
  <2>5. QED BY <1>7, <2>2, <2>3, <2>4
<1>12. QED BY <1>4, <1>5, <1>9, <1>10, <1>11 DEF DeviceInv

-----------------------------------------------------------------------------

\* DeviceInv holds in every state of the node agent, whatever the requests and
\* however their goroutines interleave.
THEOREM DeviceInvariant == Spec => []DeviceInv
<1>1. ASSUME DeviceInv, [Next]_vars PROVE DeviceInv'
  <2>1. ASSUME NEW c \in Calls, Receive(c) PROVE DeviceInv'
    BY <1>1, <2>1, ReceiveInv
  <2>2. ASSUME NEW c \in Calls, Step(c) PROVE DeviceInv'
    BY <1>1, <2>2, OutsideRunInv, InsideRunInv, AllocateInv, ReleaseInv DEF Step
  <2>3. ASSUME NEW c \in Calls, NEW ok \in BOOLEAN, Exit(c, ok) PROVE DeviceInv'
    BY <1>1, <2>3, InsideRunInv
  <2>4. ASSUME (\E c \in Calls : RpcGivenUp(c)) \/ (\E j \in Jobs : Cancel(j)) PROVE DeviceInv'
    BY <1>1, <2>4, ContextInv
  <2>5. ASSUME UNCHANGED vars PROVE DeviceInv'
    <3>1. call' = call /\ busy' = busy BY <2>5 DEF vars
    <3>2. QED BY <1>1, <3>1, QuietStep DEF DeviceInv, Holding, Live
  <2>6. QED BY <1>1, <2>1, <2>2, <2>3, <2>4, <2>5 DEF Next
<1>2. QED BY <1>1, DeviceInvInit, PTL DEF Spec

\* No two processes of a node see the same GPU, and each sees exactly as many
\* as its job asked for (GPUAllocator behind GoRuntime.Run and RustClient.Run).
THEOREM DevicesAreExclusive == Spec => []DevicesExclusive
<1>1. DeviceInv => DevicesExclusive
  <2>1. SUFFICES ASSUME DeviceInv, NEW c \in Calls, Holding(c)
                 PROVE  /\ Cardinality(call[c].sees) = Gpus[JobOf[c]]
                        /\ \A b \in Calls \ {c} : Holding(b) => call[b].sees \cap call[c].sees = {}
    BY DEF DevicesExclusive
  <2>2. Cardinality(call[c].sees) = Gpus[JobOf[c]]
    BY <2>1 DEF DeviceInv, SeesOwned
  <2>3. ASSUME NEW b \in Calls \ {c}, Holding(b) PROVE call[b].sees \cap call[c].sees = {}
    <3>1. JobOf[b] # JobOf[c]
      BY <2>1, <2>3 DEF DeviceInv, AloneForJob, Live, Holding
    <3>2. call[b].sees \in SUBSET Devices /\ call[c].sees \in SUBSET Devices
      BY <2>1 DEF DeviceInv, Call
    <3>3. \A d \in Devices : /\ d \in call[b].sees <=> busy[d] = JobOf[b]
                             /\ d \in call[c].sees <=> busy[d] = JobOf[c]
      BY <2>1, <2>3 DEF DeviceInv, SeesOwned
    <3>4. QED BY <3>1, <3>2, <3>3
  <2>4. QED BY <2>2, <2>3
<1>2. QED BY <1>1, DeviceInvariant, PTL

\* A device is busy exactly while a call in Run sees it: whatever way a run
\* ends, its devices come back, and none comes back early.
THEOREM DevicesNeverLeak == Spec => []NoDeviceLeaks
<1>1. DeviceInv => NoDeviceLeaks
  <2>1. SUFFICES ASSUME DeviceInv, NEW d \in Devices
                 PROVE  busy[d] # NoJobID <=> \E c \in Calls : Holding(c) /\ d \in call[c].sees
    BY DEF NoDeviceLeaks
  <2>2. ASSUME busy[d] # NoJobID PROVE \E c \in Calls : Holding(c) /\ d \in call[c].sees
    BY <2>1, <2>2 DEF DeviceInv, OwnersHold, SeesOwned
  <2>3. ASSUME NEW c \in Calls, Holding(c), d \in call[c].sees PROVE busy[d] # NoJobID
    BY <2>1, <2>3, NodeAssumption DEF DeviceInv, SeesOwned
  <2>4. QED BY <2>2, <2>3
<1>2. QED BY <1>1, DeviceInvariant, PTL

-----------------------------------------------------------------------------
(* The outputs of a run that is reported as a success.                     *)

\* Where a call is once Finalize has uploaded what there is to upload.
PastUpload == {"clean", "report", "reply", "done"}

CompleteInv ==
    /\ DOMAIN uploads = Jobs /\ \A j \in Jobs : uploads[j] \subseteq Outputs[j]
    /\ \A c \in Calls : call[c].pc \in PastUpload /\ call[c].ok /\ JobOf[c] \in Staged =>
          Outputs[JobOf[c]] \subseteq uploads[JobOf[c]]

\* A step after which no other call is past its upload with success.
LEMMA NotYetUploaded ==
    ASSUME CompleteInv, uploads' = uploads,
           \A c \in Calls : call'[c].pc \in PastUpload /\ call'[c].ok =>
                              call[c].pc \in PastUpload /\ call[c].ok
    PROVE  CompleteInv'
BY DEF CompleteInv

\* Finalize: the run stays a success only if all its outputs are there.
LEMMA UploadComplete ==
    ASSUME CompleteInv, call \in [Calls -> Call], NEW c \in Calls, NEW sent, Upload(c, sent)
    PROVE  CompleteInv'
<1>1. PICK j \in Jobs : j = JobOf[c]
  BY NodeAssumption
<1>2. sent \subseteq Outputs[j] /\ call[c] \in Call /\ call[c].ok \in BOOLEAN
  BY <1>1 DEF Upload, Call
<1>3. CASE j \in Staged /\ call[c].ok
  <2>1. uploads' = [uploads EXCEPT ![j] = @ \cup sent]
    BY <1>1, <1>3 DEF Upload
  <2>2. /\ DOMAIN uploads' = Jobs
        /\ \A i \in Jobs : uploads[i] \subseteq uploads'[i] /\ uploads'[i] \subseteq Outputs[i]
    BY <1>2, <2>1 DEF CompleteInv
  <2>3. CASE sent = Outputs[j]
    <3>1. call' = [call EXCEPT ![c].pc = "clean"]
      BY <1>1, <1>3, <2>3 DEF Upload, Go
    <3>2. Outputs[j] \subseteq uploads'[j]
      BY <2>1, <2>3 DEF CompleteInv
    <3>3. \A b \in Calls : b # c => call'[b] = call[b]
      BY <3>1
    <3>4. ASSUME NEW b \in Calls, call'[b].pc \in PastUpload, call'[b].ok, JobOf[b] \in Staged
          PROVE  Outputs[JobOf[b]] \subseteq uploads'[JobOf[b]]
      BY <1>1, <2>2, <3>2, <3>3, <3>4, NodeAssumption DEF CompleteInv
    <3> QED
      BY <2>2, <3>4 DEF CompleteInv
  <2>4. CASE sent # Outputs[j]
    <3>1. call' = [call EXCEPT ![c].pc = "clean", ![c].ok = FALSE]
      BY <1>1, <1>3, <2>4 DEF Upload, Fail
    <3>2. \A b \in Calls : (b # c => call'[b] = call[b]) /\ (b = c => ~call'[b].ok)
      BY <1>2, <3>1 DEF Call
    <3>3. ASSUME NEW b \in Calls, call'[b].pc \in PastUpload, call'[b].ok, JobOf[b] \in Staged
          PROVE  Outputs[JobOf[b]] \subseteq uploads'[JobOf[b]]
      BY <2>2, <3>2, <3>3, NodeAssumption DEF CompleteInv
    <3> QED
      BY <2>2, <3>3 DEF CompleteInv
  <2> QED
    BY <2>3, <2>4
<1>4. CASE ~(j \in Staged /\ call[c].ok)
  <2>1. uploads' = uploads /\ call' = [call EXCEPT ![c].pc = "clean"]
    BY <1>1, <1>4 DEF Upload, Go
  <2>2. \A b \in Calls : (b # c => call'[b] = call[b]) /\ (b = c => call'[b].ok = call[b].ok)
    BY <1>2, <2>1 DEF Call
  <2>3. ASSUME NEW b \in Calls, call'[b].pc \in PastUpload, call'[b].ok, JobOf[b] \in Staged
        PROVE  Outputs[JobOf[b]] \subseteq uploads'[JobOf[b]]
    BY <1>1, <1>4, <2>1, <2>2, <2>3 DEF CompleteInv
  <2> QED
    BY <2>1, <2>3 DEF CompleteInv
<1> QED
  BY <1>3, <1>4

\* The other steps of a call: before the upload it may come to anything but a
\* success, and after it nothing makes a failed run a success.
LEMMA OtherComplete ==
    ASSUME CompleteInv, call \in [Calls -> Call], NEW c \in Calls,
           \/ Receive(c) \/ Mint(c) \/ StageFails(c) \/ StageDone(c) \/ Ack(c)
           \/ RunRefused(c) \/ Allocate(c) \/ Start(c) \/ Leave(c) \/ Release(c)
           \/ Clean(c) \/ Report(c) \/ Reply(c) \/ RpcGivenUp(c)
           \/ \E ok \in BOOLEAN : Exit(c, ok)
    PROVE  CompleteInv'
<1>1. call[c] \in Call /\ uploads' = uploads
  BY DEF Receive, Mint, StageFails, StageDone, Ack, RunRefused, Allocate, Start, Leave, Release,
         Clean, Report, Reply, RpcGivenUp, Exit
<1>2. CASE Receive(c) \/ StageDone(c) \/ Ack(c) \/ Start(c) \/ Leave(c)
  <2>1. \A b \in Calls : \/ call'[b] = call[b]
                          \/ call'[b].pc \in {"mint", "ack", "alloc", "run", "release"}
    BY <1>1, <1>2 DEF Receive, StageDone, Ack, Start, Leave, Go, Call
  <2> QED
    BY <1>1, <2>1, NotYetUploaded DEF PastUpload
<1>3. CASE Allocate(c) \/ Release(c) \/ \E ok \in BOOLEAN : Exit(c, ok)
  <2>1. \A b \in Calls : \/ call'[b] = call[b]
                          \/ call'[b].pc \in {"start", "upload", "leave"}
    BY <1>1, <1>3 DEF Allocate, Release, Exit, Call
  <2> QED
    BY <1>1, <2>1, NotYetUploaded DEF PastUpload
<1>4. CASE Mint(c) \/ StageFails(c) \/ RunRefused(c)
  <2>1. \A b \in Calls : call'[b] = call[b] \/ call'[b].pc = "stage" \/ ~call'[b].ok
    BY <1>1, <1>4 DEF Mint, StageFails, RunRefused, Go, Fail, Call
  <2> QED
    BY <1>1, <2>1, NotYetUploaded DEF PastUpload
<1>5. CASE Clean(c) \/ Report(c) \/ Reply(c) \/ RpcGivenUp(c)
  <2>1. \A b \in Calls :
          /\ call'[b].ok = call[b].ok
          /\ call'[b].pc = call[b].pc \/ call[b].pc \in PastUpload
    BY <1>1, <1>5 DEF Clean, Report, Reply, RpcGivenUp, At, Go, Call, PastUpload
  <2> QED
    BY <1>1, <2>1, NotYetUploaded
<1> QED
  BY <1>2, <1>3, <1>4, <1>5

\* What ReportResult is told is a success has all its declared outputs in the
\* artifact store, for any jobs, outputs and calls.
THEOREM SuccessesAreComplete == Spec => []SuccessIsComplete
<1>1. Init => CompleteInv
  BY DEF Init, CompleteInv, NewCall, PastUpload
<1>2. DeviceInv /\ CompleteInv /\ [Next]_vars => CompleteInv'
  <2> SUFFICES ASSUME DeviceInv, CompleteInv, [Next]_vars PROVE CompleteInv'
    OBVIOUS
  <2>0. call \in [Calls -> Call]
    BY DEF DeviceInv
  <2>1. ASSUME NEW c \in Calls, Step(c) PROVE CompleteInv'
    BY <2>0, <2>1, OtherComplete, UploadComplete DEF Step
  <2>2. ASSUME NEW c \in Calls, Receive(c) \/ RpcGivenUp(c) \/ \E ok \in BOOLEAN : Exit(c, ok)
        PROVE  CompleteInv'
    BY <2>0, <2>2, OtherComplete
  <2>3. ASSUME NEW j \in Jobs, Cancel(j) PROVE CompleteInv'
    <3>1. /\ uploads' = uploads
          /\ \A b \in Calls : call'[b].pc = call[b].pc /\ call'[b].ok = call[b].ok
      BY <2>0, <2>3 DEF Cancel, Call
    <3> QED
      BY <3>1, NotYetUploaded
  <2>4. CASE UNCHANGED vars
    BY <2>4, NotYetUploaded DEF vars
  <2> QED
    BY <2>1, <2>2, <2>3, <2>4 DEF Next
<1>3. CompleteInv => SuccessIsComplete
  BY NodeAssumption, Zenon DEF CompleteInv, SuccessIsComplete, PastUpload
<1> QED
  BY <1>1, <1>2, <1>3, DeviceInvariant, PTL DEF Spec

-----------------------------------------------------------------------------
(* Artifacts: what a reader is given.                                      *)

Digests == Runs \X (0 .. Chunks) \X BOOLEAN

Outs == [uri : [key : Keys, text : {"plain", "escaped"}], sha : Digests]

ProducersInv ==
    /\ job \in [Producers -> [status : {"running", "completed", "failed"},
                              attempt : 1 .. MaxAttempts, outputs : SUBSET Outs]]
    /\ run \in [Producers -> {"exec", "copy", "stat", "done"}]
    /\ \A j \in Producers : \A o \in job[j].outputs : o.uri.key = KeyOf[j]

\* What has a name is whole, and was written for that name.
StoreWhole ==
    /\ inode \in [Runs -> 0 .. Chunks]
    /\ rotten \subseteq Runs
    /\ link \in [Keys -> Runs \cup {NoInode}]
    /\ \A k \in Keys : link[k] # NoInode => KeyOf[link[k][1]] = k /\ inode[link[k]] = Chunks
    /\ \A j \in Producers :
          run[j] = "stat" \/ job[j].status = "completed" => link[KeyOf[j]] # NoInode

\* A reader opens a name of its producer, and what it has open is whole.
ReaderOK(rd, c) ==
    /\ rd.at \in {"wait", "open", "read", "staged", "failed"}
    /\ rd.at = "open" => /\ rd.uri.key = KeyOf[From[c]]
    /\ rd.at = "read" =>
          /\ rd = [at |-> "read", of |-> rd.of, n |-> rd.n, sha |-> rd.sha]
          /\ rd.of \in Runs /\ KeyOf[rd.of[1]] = KeyOf[From[c]] /\ inode[rd.of] = Chunks
    /\ rd.at = "staged" =>
          rd.got[2] = Chunks /\ KeyOf[rd.got[1][1]] = KeyOf[From[c]]

ReadersInv ==
    /\ reader = [c \in Consumers |-> reader[c]]
    /\ \A c \in Consumers : ReaderOK(reader[c], c)

WholeInv == ProducersInv /\ StoreWhole /\ ReadersInv

\* The run of the current attempt is a run, and no run is the missing inode.
LEMMA CurrentIsRun ==
  ASSUME ProducersInv, NEW j \in Producers
  PROVE  /\ Current(j) \in Runs /\ Current(j)[1] = j /\ Current(j)[2] = job[j].attempt
         /\ KeyOf[j] \in Keys
  BY ArtifactsAssumption DEF ProducersInv, Current, Runs

LEMMA NoInodeIsNoRun == NoInode \notin Runs
  BY DEF NoInode, Runs

\* The readers keep what they have when files only grow.
LEMMA ReadersKept ==
  ASSUME ReadersInv, reader' = reader,
         \A r \in Runs : inode[r] = Chunks => inode'[r] = Chunks
  PROVE  ReadersInv'
  <1>1. ASSUME NEW c \in Consumers
        PROVE  ReaderOK(reader[c], c)'
    BY <1>1 DEF ReadersInv, ReaderOK
  <1> QED
    BY <1>1 DEF ReadersInv

\* A step of one reader.
LEMMA ReaderMoved ==
  ASSUME WholeInv, NEW c \in Consumers, NEW rd,
         UNCHANGED <<job, run, inode, rotten, link>>,
         reader' = [reader EXCEPT ![c] = rd], ReaderOK(rd, c)
  PROVE  WholeInv'
  <1>1. ProducersInv' /\ StoreWhole'
    BY DEF WholeInv, ProducersInv, StoreWhole
  <1>2. reader' = [d \in Consumers |-> IF d = c THEN rd ELSE reader[d]]
    BY DEF WholeInv, ReadersInv
  <1>3. ASSUME NEW d \in Consumers
        PROVE  ReaderOK(reader'[d], d)
    BY <1>2, <1>3 DEF WholeInv, ReadersInv
  <1>4. ASSUME NEW d \in Consumers
        PROVE  ReaderOK(reader[d], d)'
    BY <1>3, <1>4 DEF ReaderOK
  <1>5. ReadersInv'
    BY <1>2, <1>4 DEF ReadersInv
  <1> QED
    BY <1>1, <1>5 DEF WholeInv

LEMMA ArtifactsStart == ArtifactsInit => WholeInv
  <1> SUFFICES ASSUME ArtifactsInit PROVE WholeInv
    OBVIOUS
  <1>1. ProducersInv
    BY ArtifactsAssumption DEF ArtifactsInit, ProducersInv, NewJob
  <1>2. StoreWhole
    BY ArtifactsAssumption DEF ArtifactsInit, StoreWhole, NewJob
  <1>3. ReadersInv
    BY DEF ArtifactsInit, ReadersInv, ReaderOK, Idle
  <1> QED
    BY <1>1, <1>2, <1>3 DEF WholeInv

LEMMA UploadSteps ==
  ASSUME WholeInv, NEW j \in Producers,
         CreateTemp(j) \/ copyWithCtx(j) \/ PutDone(j) \/ NodeStops(j)
  PROVE  WholeInv'
  <1>1. /\ Current(j) \in Runs /\ Current(j)[1] = j /\ KeyOf[j] \in Keys
        /\ Current(j) # NoInode
    BY CurrentIsRun, NoInodeIsNoRun DEF WholeInv
  <1>2. /\ job' = job /\ reader' = reader /\ rotten' = rotten
        /\ \A r \in Runs : inode[r] = Chunks => inode'[r] = Chunks
    BY <1>1 DEF CreateTemp, copyWithCtx, PutDone, NodeStops, WholeInv, StoreWhole
  <1>3. ReadersInv'
    BY <1>2, ReadersKept DEF WholeInv
  <1>4. ProducersInv'
    BY <1>2 DEF CreateTemp, copyWithCtx, PutDone, NodeStops, WholeInv, ProducersInv
  <1>5. CASE CreateTemp(j) \/ NodeStops(j)
    <2>1. StoreWhole'
      BY <1>2, <1>5 DEF CreateTemp, NodeStops, WholeInv, ProducersInv, StoreWhole
    <2> QED
      BY <1>3, <1>4, <2>1 DEF WholeInv
  <1>6. CASE copyWithCtx(j)
    <2>1. inode' \in [Runs -> 0 .. Chunks]
      <3>1. PICK r : r = Current(j)
        OBVIOUS
      <3>2. /\ inode \in [Runs -> 0 .. Chunks] /\ inode' = [inode EXCEPT ![r] = @ + 1]
            /\ r \in Runs /\ inode[r] < Chunks
        BY <1>1, <1>6, <3>1 DEF copyWithCtx, WholeInv, StoreWhole
      <3>3. inode[r] + 1 \in 0 .. Chunks
        BY <3>2, ArtifactsAssumption
      <3> QED
        BY <3>2, <3>3
    <2>2. link' = link /\ run' = run
      BY <1>6 DEF copyWithCtx
    <2>3. \A k \in Keys : link[k] # NoInode => inode'[link[k]] = Chunks
      BY <1>2 DEF WholeInv, StoreWhole
    <2>4. StoreWhole'
      BY <1>2, <2>1, <2>2, <2>3 DEF WholeInv, StoreWhole
    <2> QED
      BY <1>3, <1>4, <2>4 DEF WholeInv
  <1>7. CASE PutDone(j)
    <2>1. /\ link' = [link EXCEPT ![KeyOf[j]] = Current(j)] /\ inode' = inode
          /\ run' = [run EXCEPT ![j] = "stat"] /\ inode[Current(j)] = Chunks
      BY <1>7 DEF PutDone
    <2>2. link' \in [Keys -> Runs \cup {NoInode}]
      BY <1>1, <2>1 DEF WholeInv, StoreWhole
    <2>3. \A k \in Keys : link'[k] # NoInode => KeyOf[link'[k][1]] = k /\ inode'[link'[k]] = Chunks
      BY <1>1, <2>1 DEF WholeInv, StoreWhole
    <2>4. \A i \in Producers :
             run'[i] = "stat" \/ job'[i].status = "completed" => link'[KeyOf[i]] # NoInode
      BY <1>1, <1>2, <2>1, CurrentIsRun DEF WholeInv, StoreWhole, ProducersInv
    <2>5. StoreWhole'
      BY <1>2, <2>1, <2>2, <2>3, <2>4 DEF WholeInv, StoreWhole
    <2> QED
      BY <1>3, <1>4, <2>5 DEF WholeInv
  <1> QED
    BY <1>5, <1>6, <1>7

\* What an upload reports is an entry for the key of its job.
LEMMA UploadIsOut ==
  ASSUME WholeInv, NEW j \in Producers, run[j] = "stat"
  PROVE  upload(j) \in Outs /\ upload(j).uri.key = KeyOf[j]
  <1>1. link[KeyOf[j]] \in Runs /\ KeyOf[j] \in Keys
    BY CurrentIsRun DEF WholeInv, StoreWhole
  <1>2. Stat(KeyOf[j]) \in Digests
    <2>1. PICK v : v = (link[KeyOf[j]] \in rotten)
      OBVIOUS
    <2>2. v \in BOOLEAN
      BY <2>1
    <2>3. Stat(KeyOf[j]) = <<link[KeyOf[j]], inode[link[KeyOf[j]]], v>>
      BY <2>1, Zenon DEF Stat, Digest
    <2> QED
      BY <1>1, <2>2, <2>3 DEF Digests, WholeInv, StoreWhole
  <1> QED
    BY <1>1, <1>2 DEF upload, Outs, URI, fileURI, s3URI

LEMMA ReportSteps ==
  ASSUME WholeInv, NEW j \in Producers, ReportSuccess(j) \/ ReportFailure(j)
  PROVE  WholeInv'
  <1>1. /\ inode' = inode /\ link' = link /\ reader' = reader /\ rotten' = rotten
        /\ run' \in [Producers -> {"exec", "copy", "stat", "done"}]
        /\ \A i \in Producers : run'[i] = "stat" => run[i] = "stat"
    BY DEF ReportSuccess, ReportFailure, WholeInv, ProducersInv
  <1>2. PICK outs : outs = attestOutputs(j, {upload(j)})
    OBVIOUS
  <1>3. run[j] = "stat" => outs \in SUBSET Outs /\ \A o \in outs : o.uri.key = KeyOf[j]
    BY <1>2, UploadIsOut DEF attestOutputs
  <1>4. /\ job' \in [Producers -> [status : {"running", "completed", "failed"},
                                   attempt : 1 .. MaxAttempts, outputs : SUBSET Outs]]
        /\ \A i \in Producers : \A o \in job'[i].outputs : o.uri.key = KeyOf[i]
        /\ \A i \in Producers : job'[i].status = "completed" =>
              job[i].status = "completed" \/ run[i] = "stat"
    <2>1. CASE ReportSuccess(j)
      <3>1. job' = [job EXCEPT ![j].status = "completed", ![j].outputs = outs] /\ run[j] = "stat"
        BY <1>2, <2>1 DEF ReportSuccess
      <3>2. /\ job \in [Producers -> [status : {"running", "completed", "failed"},
                                       attempt : 1 .. MaxAttempts, outputs : SUBSET Outs]]
            /\ outs \in SUBSET Outs
        BY <1>3, <3>1 DEF WholeInv, ProducersInv
      <3>3. job' \in [Producers -> [status : {"running", "completed", "failed"},
                                    attempt : 1 .. MaxAttempts, outputs : SUBSET Outs]]
        BY <3>1, <3>2
      <3>4. /\ \A i \in Producers : i # j => job'[i] = job[i]
            /\ job'[j].outputs = outs
        BY <3>1, <3>2
      <3>5. \A i \in Producers : \A o \in job'[i].outputs : o.uri.key = KeyOf[i]
        BY <1>3, <3>1, <3>4 DEF WholeInv, ProducersInv
      <3> QED
        BY <3>1, <3>3, <3>4, <3>5
    <2>2. CASE ReportFailure(j)
      <3>1. \/ /\ job' = [job EXCEPT ![j].attempt = @ + 1]
               /\ job[j].attempt < MaxAttempts
            \/ job' = [job EXCEPT ![j].status = "failed"]
        BY <2>2 DEF ReportFailure
      <3> QED
        <4>1. CASE job' = [job EXCEPT ![j].status = "failed"]
          BY <4>1 DEF WholeInv, ProducersInv
        <4>2. CASE job' = [job EXCEPT ![j].attempt = @ + 1] /\ job[j].attempt < MaxAttempts
          <5>1. job[j].attempt + 1 \in 1 .. MaxAttempts
            BY <4>2, ArtifactsAssumption DEF WholeInv, ProducersInv
          <5> QED
            BY <4>2, <5>1 DEF WholeInv, ProducersInv
        <4> QED
          BY <3>1, <4>1, <4>2
    <2> QED
      BY <2>1, <2>2
  <1>5. ProducersInv'
    BY <1>1, <1>4 DEF ProducersInv
  <1>6. StoreWhole'
    BY <1>1, <1>4 DEF WholeInv, StoreWhole
  <1>7. ReadersInv'
    BY <1>1, ReadersKept DEF WholeInv
  <1> QED
    BY <1>5, <1>6, <1>7 DEF WholeInv

LEMMA RotStep ==
  ASSUME WholeInv, NEW k \in Keys, Rot(k)
  PROVE  WholeInv'
  <1>1. link[k] \in Runs
    BY DEF Rot, WholeInv, StoreWhole
  <1>2. ReadersInv'
    BY ReadersKept DEF Rot, WholeInv
  <1> QED
    BY <1>1, <1>2 DEF Rot, WholeInv, ProducersInv, StoreWhole

LEMMA OpenSteps ==
  ASSUME WholeInv, NEW c \in Consumers, ResolveJobInputs(c) \/ DispatchPlain(c)
  PROVE  WholeInv'
  <1>1. UNCHANGED <<job, run, inode, rotten, link>> /\ From[c] \in Producers
    BY ArtifactsAssumption DEF ResolveJobInputs, DispatchPlain
  <1>2. PICK rd : reader' = [reader EXCEPT ![c] = rd] /\ ReaderOK(rd, c)
    <2>1. CASE DispatchPlain(c)
      <3>1. ReaderOK([at |-> "open", uri |-> URI(KeyOf[From[c]]), sha |-> NoDigest], c)
        BY DEF ReaderOK, URI, fileURI, s3URI
      <3> QED
        BY <2>1, <3>1 DEF DispatchPlain
    <2>2. CASE ResolveJobInputs(c)
      <3>1. PICK o : o = CHOOSE x \in job[From[c]].outputs : TRUE
        OBVIOUS
      <3>2. \/ reader' = [reader EXCEPT ![c] = [at |-> "failed"]]
            \/ /\ job[From[c]].outputs # {}
               /\ reader' = [reader EXCEPT ![c] = [at |-> "open", uri |-> o.uri, sha |-> o.sha]]
        BY <2>2, <3>1 DEF ResolveJobInputs
      <3>3. job[From[c]].outputs # {} => o.uri.key = KeyOf[From[c]]
        BY <1>1, <3>1 DEF WholeInv, ProducersInv
      <3>4. ReaderOK([at |-> "failed"], c)
        BY DEF ReaderOK
      <3>5. job[From[c]].outputs # {} =>
               ReaderOK([at |-> "open", uri |-> o.uri, sha |-> o.sha], c)
        BY <3>3 DEF ReaderOK
      <3> QED
        BY <3>2, <3>4, <3>5
    <2> QED
      BY <2>1, <2>2
  <1> QED
    BY <1>1, <1>2, ReaderMoved

LEMMA ReadSteps ==
  ASSUME WholeInv, NEW c \in Consumers,
         Get(c) \/ ReadChunk(c) \/ GetAndVerifyTo(c) \/ DownloadFails(c)
  PROVE  WholeInv'
  <1>1. /\ UNCHANGED <<job, run, inode, rotten, link>>
        /\ From[c] \in Producers /\ KeyOf[From[c]] \in Keys
        /\ ReaderOK(reader[c], c)
        /\ ReaderOK([at |-> "failed"], c)
    BY ArtifactsAssumption
    DEF Get, ReadChunk, GetAndVerifyTo, DownloadFails, WholeInv, ReadersInv, ReaderOK
  <1>2. PICK rd : reader' = [reader EXCEPT ![c] = rd] /\ ReaderOK(rd, c)
    <2>1. CASE Get(c)
      <3>1. PICK i : i = link[KeyOf[From[c]]]
        OBVIOUS
      <3>2. pathForURI(reader[c].uri) = KeyOf[From[c]]
        BY <1>1, <2>1 DEF Get, ReaderOK, pathForURI
      <3>3. \/ reader' = [reader EXCEPT ![c] = [at |-> "failed"]]
            \/ /\ i # NoInode
               /\ reader' = [reader EXCEPT ![c] = [at |-> "read", of |-> i, n |-> 0, sha |-> reader[c].sha]]
        BY <2>1, <3>1, <3>2 DEF Get
      <3>4. i # NoInode => i \in Runs /\ KeyOf[i[1]] = KeyOf[From[c]] /\ inode[i] = Chunks
        BY <1>1, <3>1 DEF WholeInv, StoreWhole
      <3>5. i # NoInode => ReaderOK([at |-> "read", of |-> i, n |-> 0, sha |-> reader[c].sha], c)
        BY <3>4 DEF ReaderOK
      <3> QED
        BY <1>1, <3>3, <3>5
    <2>2. CASE ReadChunk(c)
      <3>1. PICK rd : rd = [reader[c] EXCEPT !.n = @ + 1]
        OBVIOUS
      <3>2. reader' = [reader EXCEPT ![c] = rd]
        BY <2>2, <3>1 DEF ReadChunk
      <3>3. reader[c].at = "read"
        BY <2>2 DEF ReadChunk
      <3>4. rd = [at |-> "read", of |-> reader[c].of, n |-> reader[c].n + 1, sha |-> reader[c].sha]
        BY <1>1, <3>1, <3>3 DEF ReaderOK
      <3>5. ReaderOK(rd, c)
        BY <1>1, <3>3, <3>4 DEF ReaderOK
      <3> QED
        BY <3>2, <3>5
    <2>3. CASE GetAndVerifyTo(c)
      <3>1. PICK d : d = Digest(reader[c].of, reader[c].n)
        OBVIOUS
      <3>2. \/ reader' = [reader EXCEPT ![c] = [at |-> "failed"]]
            \/ reader' = [reader EXCEPT ![c] = [at |-> "staged", got |-> d]]
        BY <2>3, <3>1 DEF GetAndVerifyTo
      <3>3. d[2] = Chunks /\ KeyOf[d[1][1]] = KeyOf[From[c]]
        BY <1>1, <2>3, <3>1 DEF GetAndVerifyTo, ReaderOK, Digest
      <3>4. ReaderOK([at |-> "staged", got |-> d], c)
        BY <3>3 DEF ReaderOK
      <3> QED
        BY <1>1, <3>2, <3>4
    <2>4. CASE DownloadFails(c)
      BY <1>1, <2>4 DEF DownloadFails
    <2> QED
      BY <2>1, <2>2, <2>3, <2>4
  <1> QED
    BY <1>1, <1>2, ReaderMoved

LEMMA ArtifactsStep == WholeInv /\ [ArtifactsNext]_artifactVars => WholeInv'
  <1> SUFFICES ASSUME WholeInv, [ArtifactsNext]_artifactVars PROVE WholeInv'
    OBVIOUS
  <1>1. CASE UNCHANGED artifactVars
    BY <1>1 DEF artifactVars, WholeInv, ProducersInv, StoreWhole, ReadersInv, ReaderOK
  <1>2. CASE ArtifactsNext
    BY <1>2, UploadSteps, ReportSteps, RotStep, OpenSteps, ReadSteps DEF ArtifactsNext
  <1> QED
    BY <1>1, <1>2

\* For every set of jobs, keys shared between jobs included, any number of
\* attempts and either backend: whatever a consumer's process starts with is a
\* whole file that a run of its key wrote, although runs write, fail and stop
\* while it reads (LocalStore.Put, Stager.upload, download).
THEOREM InputsAreWhole == ArtifactsSpec => []NoTornInput
  <1>1. WholeInv => NoTornInput
    BY DEF WholeInv, ReadersInv, ReaderOK, NoTornInput, GotInput
  <1> QED
    BY <1>1, ArtifactsStart, ArtifactsStep, PTL DEF ArtifactsSpec
-----------------------------------------------------------------------------
(* Artifacts: the digest on its way from the producer to the reader, for   *)
(* jobs whose outputs have keys of their own.                              *)

DistinctKeys == \A i, j \in Producers : KeyOf[i] = KeyOf[j] => i = j

Made(j) == <<Current(j), Chunks, FALSE>>

\* A job has an output only when it has completed, by the run of its attempt.
JobMade(j) ==
    /\ run[j] = "stat" => link[KeyOf[j]] = Current(j)
    /\ job[j].status = "completed" => run[j] = "done"
    /\ \A o \in job[j].outputs : job[j].status = "completed" /\ o.sha = Made(j)

ReaderMade(rd, c) ==
    /\ rd.at \in {"open", "read"} => rd.sha = Made(From[c]) /\ Made(From[c]) \in LineageOutputs(From[c])
    /\ rd.at = "staged" => rd.got = Made(From[c]) /\ Made(From[c]) \in LineageOutputs(From[c])

MadeInv ==
    /\ \A j \in Producers : JobMade(j)
    /\ \A r \in rotten : job[r[1]].status = "completed"
    /\ \A c \in Consumers \ Plain : ReaderMade(reader[c], c)

\* A step of producers and store: the readers stay, and what was produced too.
LEMMA MadeKept ==
  ASSUME MadeInv, reader' = reader,
         \A i \in Producers : job[i].outputs # {} => job'[i] = job[i],
         \A i \in Producers : JobMade(i)',
         \A r \in rotten' : job'[r[1]].status = "completed"
  PROVE  MadeInv'
  <1>1. ASSUME NEW i \in Producers, Made(i) \in LineageOutputs(i)
        PROVE  Made(i)' = Made(i) /\ Made(i)' \in LineageOutputs(i)'
    BY <1>1 DEF Made, LineageOutputs, Current
  <1>2. ASSUME NEW c \in Consumers \ Plain
        PROVE  ReaderMade(reader[c], c)'
    BY <1>1, <1>2, ArtifactsAssumption DEF MadeInv, ReaderMade
  <1> QED
    BY <1>2 DEF MadeInv

\* A step of one reader.
LEMMA MadeMoved ==
  ASSUME WholeInv, MadeInv, NEW c \in Consumers, NEW rd,
         UNCHANGED <<job, run, inode, rotten, link>>,
         reader' = [reader EXCEPT ![c] = rd], c \notin Plain => ReaderMade(rd, c)
  PROVE  MadeInv'
  <1>1. /\ \A j \in Producers : JobMade(j)' = JobMade(j)
        /\ \A j \in Producers : Made(j)' = Made(j) /\ LineageOutputs(j)' = LineageOutputs(j)
    BY DEF JobMade, Made, Current, LineageOutputs
  <1>2. ASSUME NEW d \in Consumers \ Plain
        PROVE  ReaderMade(reader'[d], d)
    BY <1>2 DEF WholeInv, ReadersInv, MadeInv
  <1>3. ASSUME NEW d \in Consumers \ Plain
        PROVE  ReaderMade(reader[d], d)'
    BY <1>1, <1>2, <1>3, ArtifactsAssumption DEF ReaderMade
  <1> QED
    BY <1>1, <1>3 DEF MadeInv

LEMMA MadeStart == ArtifactsInit => MadeInv
  <1> SUFFICES ASSUME ArtifactsInit PROVE MadeInv
    OBVIOUS
  <1>1. ASSUME NEW j \in Producers
        PROVE  JobMade(j)
    <2>1. run[j] = "exec" /\ job[j].status = "running" /\ job[j].outputs = {}
      BY DEF ArtifactsInit, NewJob
    <2> QED
      BY <2>1 DEF JobMade
  <1>2. ASSUME NEW c \in Consumers \ Plain
        PROVE  ReaderMade(reader[c], c)
    <2>1. reader[c].at = "wait"
      BY DEF ArtifactsInit, Idle
    <2> QED
      BY <2>1 DEF ReaderMade
  <1>3. rotten = {}
    BY DEF ArtifactsInit
  <1> QED
    BY <1>1, <1>2, <1>3 DEF MadeInv

LEMMA UploadMade ==
  ASSUME DistinctKeys, WholeInv, MadeInv, NEW j \in Producers,
         CreateTemp(j) \/ copyWithCtx(j) \/ PutDone(j) \/ NodeStops(j)
  PROVE  MadeInv'
  <1>1. job' = job /\ reader' = reader /\ rotten' = rotten /\ KeyOf[j] \in Keys
    BY CurrentIsRun DEF CreateTemp, copyWithCtx, PutDone, NodeStops, WholeInv
  <1>2. \A i \in Producers : Current(i)' = Current(i) /\ Made(i)' = Made(i)
    BY <1>1 DEF Current, Made
  <1>3. \A i \in Producers : job[i].status = "completed" => run'[i] = "done"
    BY DEF CreateTemp, copyWithCtx, PutDone, NodeStops, WholeInv, ProducersInv, MadeInv, JobMade
  <1>4. \A i \in Producers : run'[i] = "stat" => link'[KeyOf[i]] = Current(i)
    <2>1. CASE PutDone(j)
      <3>1. PICK c : c = Current(j)
        OBVIOUS
      <3>2. /\ link' = [link EXCEPT ![KeyOf[j]] = c] /\ run' = [run EXCEPT ![j] = "stat"]
            /\ link = [k \in Keys |-> link[k]] /\ run = [i \in Producers |-> run[i]]
        BY <2>1, <3>1 DEF PutDone, WholeInv, ProducersInv, StoreWhole
      <3>3. ASSUME NEW i \in Producers, run'[i] = "stat", i # j
            PROVE  link'[KeyOf[i]] = Current(i)
        <4>1. KeyOf[i] # KeyOf[j] /\ KeyOf[i] \in Keys /\ run[i] = "stat"
          BY <3>2, <3>3, CurrentIsRun DEF DistinctKeys, WholeInv
        <4>2. link[KeyOf[i]] = Current(i)
          BY <3>3, <4>1 DEF MadeInv, JobMade
        <4> QED
          BY <3>2, <4>1, <4>2
      <3>4. link'[KeyOf[j]] = Current(j)
        BY <1>1, <3>1, <3>2
      <3> QED
        BY <3>3, <3>4
    <2>2. CASE CreateTemp(j) \/ copyWithCtx(j) \/ NodeStops(j)
      BY <2>2 DEF CreateTemp, copyWithCtx, NodeStops, WholeInv, ProducersInv, MadeInv, JobMade
    <2> QED
      BY <2>1, <2>2
  <1>5. \A i \in Producers : JobMade(i)'
    BY <1>1, <1>2, <1>3, <1>4 DEF MadeInv, JobMade
  <1> QED
    BY <1>1, <1>5, MadeKept DEF MadeInv

LEMMA ReportMade ==
  ASSUME WholeInv, MadeInv, NEW j \in Producers, ReportSuccess(j) \/ ReportFailure(j)
  PROVE  MadeInv'
  <1>1. /\ inode' = inode /\ link' = link /\ reader' = reader /\ rotten' = rotten
        /\ run[j] # "done" /\ job[j].status # "completed" /\ job[j].outputs = {}
        /\ JobMade(j)
    BY DEF ReportSuccess, ReportFailure, MadeInv, JobMade
  <1>2. \A i \in Producers : i # j => job'[i] = job[i] /\ run'[i] = run[i]
    BY DEF ReportSuccess, ReportFailure, WholeInv, ProducersInv
  <1>3. \A i \in Producers : i # j => Current(i)' = Current(i) /\ JobMade(i)'
    <2>1. \A i \in Producers : i # j => Current(i)' = Current(i) /\ Made(i)' = Made(i)
      BY <1>2 DEF Made, Current
    <2> QED
      BY <1>1, <1>2, <2>1 DEF MadeInv, JobMade
  <1>4. JobMade(j)'
    <2>1. CASE ReportFailure(j)
      BY <1>1, <2>1 DEF ReportFailure, JobMade, WholeInv, ProducersInv
    <2>2. CASE ReportSuccess(j)
      <3>1. run[j] = "stat" /\ link[KeyOf[j]] = Current(j) /\ inode[Current(j)] = Chunks
        BY <1>1, <2>2, CurrentIsRun DEF ReportSuccess, JobMade, WholeInv, StoreWhole
      <3>2. Current(j) \notin rotten
        BY <1>1, CurrentIsRun DEF WholeInv, MadeInv
      <3>3. upload(j).sha = Made(j)
        <4>1. (Current(j) \in rotten) = FALSE
          BY <3>2
        <4>2. Stat(KeyOf[j]) = <<Current(j), Chunks, Current(j) \in rotten>>
          BY <3>1, Zenon DEF Stat, Digest
        <4>3. Stat(KeyOf[j]) = Made(j)
          BY <4>1, <4>2, Zenon DEF Made
        <4> QED
          BY <4>3 DEF upload
      <3>4. PICK outs : outs = attestOutputs(j, {upload(j)})
        OBVIOUS
      <3>5. \A o \in outs : o.sha = Made(j)
        BY <3>3, <3>4 DEF attestOutputs
      <3>6. /\ job'[j].status = "completed" /\ job'[j].outputs = outs
            /\ job'[j].attempt = job[j].attempt /\ run'[j] = "done"
        BY <2>2, <3>4 DEF ReportSuccess, WholeInv, ProducersInv
      <3> QED
        BY <3>5, <3>6 DEF JobMade, Made, Current
    <2> QED
      BY <2>1, <2>2
  <1>5. \A r \in rotten : job'[r[1]].status = "completed"
    BY <1>1, <1>2 DEF WholeInv, StoreWhole, MadeInv, Runs
  <1> QED
    BY <1>1, <1>2, <1>3, <1>4, <1>5, MadeKept

LEMMA RotMade ==
  ASSUME DistinctKeys, WholeInv, MadeInv, NEW k \in Keys, Rot(k)
  PROVE  MadeInv'
  <1>1. PICK j \in Producers : KeyOf[j] = k /\ job[j].status = "completed"
    BY DEF Rot
  <1>2. link[k] \in Runs /\ KeyOf[link[k][1]] = k /\ link[k][1] \in Producers
    <2>1. link[k] # NoInode /\ link[k] \in Runs \cup {NoInode}
      BY <1>1 DEF WholeInv, StoreWhole
    <2>2. KeyOf[link[k][1]] = k
      BY <2>1 DEF WholeInv, StoreWhole
    <2>3. link[k] \in Runs
      BY <2>1
    <2> QED
      BY <2>2, <2>3 DEF Runs
  <1>3. link[k][1] = j
    BY <1>1, <1>2 DEF DistinctKeys
  <1>4. UNCHANGED <<job, run, inode, link, reader>> /\ rotten' = {link[k]}
    BY DEF Rot
  <1>5. \A i \in Producers : JobMade(i)'
    BY <1>4 DEF MadeInv, JobMade, Made, Current
  <1> QED
    BY <1>1, <1>3, <1>4, <1>5, MadeKept

LEMMA OpenMade ==
  ASSUME WholeInv, MadeInv, NEW c \in Consumers, ResolveJobInputs(c) \/ DispatchPlain(c)
  PROVE  MadeInv'
  <1>1. CASE DispatchPlain(c)
    BY <1>1, MadeMoved DEF DispatchPlain
  <1>2. CASE ResolveJobInputs(c)
    <2>1. PICK o : o = CHOOSE x \in job[From[c]].outputs : TRUE
      OBVIOUS
    <2>2. \/ reader' = [reader EXCEPT ![c] = [at |-> "failed"]]
          \/ /\ job[From[c]].outputs # {}
             /\ reader' = [reader EXCEPT ![c] = [at |-> "open", uri |-> o.uri, sha |-> o.sha]]
      BY <1>2, <2>1 DEF ResolveJobInputs
    <2>3. job[From[c]].outputs # {} => o \in job[From[c]].outputs /\ o.sha = Made(From[c])
      BY <2>1, ArtifactsAssumption DEF MadeInv, JobMade
    <2>4. job[From[c]].outputs # {} => Made(From[c]) \in LineageOutputs(From[c])
      BY <2>3 DEF LineageOutputs
    <2>5. /\ ReaderMade([at |-> "failed"], c)
          /\ job[From[c]].outputs # {} =>
                ReaderMade([at |-> "open", uri |-> o.uri, sha |-> o.sha], c)
      BY <2>3, <2>4 DEF ReaderMade
    <2>6. UNCHANGED <<job, run, inode, rotten, link>>
      BY <1>2 DEF ResolveJobInputs
    <2> QED
      BY <2>2, <2>5, <2>6, MadeMoved
  <1> QED
    BY <1>1, <1>2

LEMMA ReadMade ==
  ASSUME WholeInv, MadeInv, NEW c \in Consumers,
         Get(c) \/ ReadChunk(c) \/ GetAndVerifyTo(c) \/ DownloadFails(c)
  PROVE  MadeInv'
  <1>1. /\ UNCHANGED <<job, run, inode, rotten, link>>
        /\ c \notin Plain => ReaderMade(reader[c], c)
        /\ ReaderMade([at |-> "failed"], c)
        /\ ReaderOK(reader[c], c)
    BY DEF Get, ReadChunk, GetAndVerifyTo, DownloadFails, MadeInv, ReaderMade, WholeInv, ReadersInv
  <1>2. PICK rd : reader' = [reader EXCEPT ![c] = rd] /\ (c \notin Plain => ReaderMade(rd, c))
    <2>1. CASE Get(c)
      <3>1. PICK i : i = link[pathForURI(reader[c].uri)]
        OBVIOUS
      <3>2. \/ reader' = [reader EXCEPT ![c] = [at |-> "failed"]]
            \/ reader' = [reader EXCEPT ![c] = [at |-> "read", of |-> i, n |-> 0, sha |-> reader[c].sha]]
        BY <2>1, <3>1 DEF Get
      <3>3. c \notin Plain =>
               ReaderMade([at |-> "read", of |-> i, n |-> 0, sha |-> reader[c].sha], c)
        BY <1>1, <2>1 DEF ReaderMade, Get
      <3> QED
        BY <1>1, <3>2, <3>3
    <2>2. CASE ReadChunk(c)
      <3>1. PICK rd : rd = [reader[c] EXCEPT !.n = @ + 1]
        OBVIOUS
      <3>2. reader' = [reader EXCEPT ![c] = rd] /\ reader[c].at = "read"
        BY <2>2, <3>1 DEF ReadChunk
      <3>3. rd.at = "read" /\ rd.sha = reader[c].sha
        BY <1>1, <3>1, <3>2 DEF ReaderOK
      <3> QED
        BY <1>1, <3>2, <3>3 DEF ReaderMade
    <2>3. CASE GetAndVerifyTo(c)
      <3>1. PICK d : d = Digest(reader[c].of, reader[c].n)
        OBVIOUS
      <3>2. \/ reader' = [reader EXCEPT ![c] = [at |-> "failed"]]
            \/ /\ reader[c].sha \in {NoDigest, d}
               /\ reader' = [reader EXCEPT ![c] = [at |-> "staged", got |-> d]]
        BY <2>3, <3>1 DEF GetAndVerifyTo, verified
      <3>3. Made(From[c]) # NoDigest
        BY DEF Made, NoDigest
      <3>4. c \notin Plain /\ reader[c].sha \in {NoDigest, d} =>
               ReaderMade([at |-> "staged", got |-> d], c)
        BY <1>1, <2>3, <3>3 DEF ReaderMade, GetAndVerifyTo
      <3> QED
        BY <1>1, <3>2, <3>4
    <2>4. CASE DownloadFails(c)
      BY <1>1, <2>4 DEF DownloadFails
    <2> QED
      BY <2>1, <2>2, <2>3, <2>4
  <1> QED
    BY <1>1, <1>2, MadeMoved

LEMMA MadeStep ==
  ASSUME DistinctKeys, WholeInv, MadeInv, [ArtifactsNext]_artifactVars
  PROVE  MadeInv'
  <1>1. CASE UNCHANGED artifactVars
    BY <1>1 DEF artifactVars, MadeInv, JobMade, ReaderMade, Made, Current, LineageOutputs
  <1>2. CASE ArtifactsNext
    BY <1>2, UploadMade, ReportMade, RotMade, OpenMade, ReadMade DEF ArtifactsNext
  <1> QED
    BY <1>1, <1>2

\* When no two jobs share a key, a consumer with a From starts with the bytes
\* of the run that completed its producer, and the lineage view shows their
\* digest, through any retries of the producer and damage of the stored object
\* (attestOutputs, ResolveJobInputs, GetAndVerifyTo).
THEOREM InputsAreProduced ==
  ASSUME DistinctKeys
  PROVE  ArtifactsSpec => []InputIsProduced
  <1>1. MadeInv => InputIsProduced
    BY DEF MadeInv, ReaderMade, Made, InputIsProduced, GotInput
  <1>2. WholeInv /\ MadeInv /\ [ArtifactsNext]_artifactVars => WholeInv' /\ MadeInv'
    BY MadeStep, ArtifactsStep
  <1> QED
    BY <1>1, <1>2, ArtifactsStart, MadeStart, PTL DEF ArtifactsSpec

=============================================================================
