--------------------------- MODULE JobStoreProofs ---------------------------
(***************************************************************************)
(* Proofs about JobStore for any sets of jobs, nodes, retry limits and     *)
(* share lists, any outcome of every SaveJob and any number of restarts.   *)
(*                                                                         *)
(* The inductive invariant relates, job by job, the record in memory and   *)
(* the record on disk (PairOK).  SaveJob touches one job, so a critical    *)
(* section preserves it as soon as the pair it leaves is in order.         *)
(***************************************************************************)
EXTENDS JobStore, TLAPS

\* The most attempts a retry limit allows.
AttemptLimit(max) == IF max = 0 THEN 1 ELSE max

\* What every critical section leaves behind for a job: m in memory, d on disk.
PairOK(m, d) ==
    /\ m \in Job
    /\ d \in Job
    /\ m.status = d.status
    /\ m.max = d.max
    /\ m.attempt <= AttemptLimit(m.max)
    /\ \/ m.attempt = d.attempt
       \/ m.attempt = d.attempt + 1 /\ m.status = "retrying"
    /\ IsTerminal(m.status) => m.node = d.node
    /\ m.status = "absent" => m = NoJob /\ d = NoJob
    /\ m.status # "absent" => m.attempt >= 1 /\ d.attempt >= 1

StoreInv ==
    /\ jobs \in [Jobs -> Job]
    /\ disk \in [Jobs -> Job]
    /\ \A j \in Jobs : PairOK(jobs[j], disk[j])
    /\ cancels \subseteq CancelCalls

-----------------------------------------------------------------------------

\* An absent job is a well-formed record.
LEMMA NoJobType == NoJob \in Job
  BY StoreAssumption DEF NoJob, Job

\* The numbers of a record are natural numbers, and so is the next attempt.
LEMMA JobNumbers ==
  ASSUME NEW m \in Job
  PROVE  m.max \in Nat /\ m.attempt \in Nat /\ m.attempt + 1 \in Nat
  <1>1. m.max \in RetryLimits
    BY DEF Job
  <1>2. m.max \in Nat
    BY <1>1, StoreAssumption
  <1>3. m.attempt \in Nat /\ m.attempt + 1 \in Nat
    BY DEF Job
  <1> QED
    BY <1>2, <1>3

\* Whichever way its transaction ends, SaveJob keeps the invariant when the
\* record it saves is in order on both sides, and the record its caller puts
\* back is in order beside what the disk held before.
LEMMA SaveJobInv ==
  ASSUME StoreInv, NEW j \in Jobs, NEW saved \in BOOLEAN, NEW rec, NEW undo,
         SaveJob(j, rec, undo, saved),
         PairOK(rec, rec), PairOK(undo, disk[j])
  PROVE  /\ jobs' \in [Jobs -> Job]
         /\ disk' \in [Jobs -> Job]
         /\ \A i \in Jobs : PairOK(jobs'[i], disk'[i])
  <1>1. rec \in Job /\ undo \in Job
    BY DEF PairOK
  <1>2. CASE saved
    <2>1. jobs' = [jobs EXCEPT ![j] = rec] /\ disk' = [disk EXCEPT ![j] = rec]
      BY <1>2 DEF SaveJob
    <2> QED
      BY <1>1, <2>1 DEF StoreInv
  <1>3. CASE ~saved
    <2>1. jobs' = [jobs EXCEPT ![j] = undo] /\ disk' = disk
      BY <1>3 DEF SaveJob
    <2> QED
      BY <1>1, <2>1 DEF StoreInv
  <1> QED
    BY <1>2, <1>3

-----------------------------------------------------------------------------
(* One lemma per critical section.                                         *)

\* Submit: a new job is pending, on its first attempt, and nowhere at all when
\* the save fails.
LEMMA SubmitInv ==
  ASSUME StoreInv, NEW j \in Jobs, NEW max \in RetryLimits, NEW saved \in BOOLEAN,
         Submit(j, max, saved)
  PROVE  /\ jobs' \in [Jobs -> Job]
         /\ disk' \in [Jobs -> Job]
         /\ \A i \in Jobs : PairOK(jobs'[i], disk'[i])
  <1>1. PairOK(NoJob, disk[j])
    BY NoJobType DEF Submit, StoreInv, PairOK, Exists, NoJob
  <1>2. PairOK(NewJob(max), NewJob(max))
    <2>1. NewJob(max) \in Job
      BY StoreAssumption DEF NewJob, Job, Status
    <2>2. 1 <= AttemptLimit(max)
      BY StoreAssumption DEF AttemptLimit
    <2> QED
      BY <2>1, <2>2 DEF NewJob, PairOK, IsTerminal
  <1> QED
    BY <1>1, <1>2, SaveJobInv DEF Submit

\* Where a transition may start is a live status other than retrying, so no
\* attempt is ahead of the disk.
LEMMA TransitionInv ==
  ASSUME StoreInv, NEW j \in Jobs, NEW saved \in BOOLEAN,
         NEW to \in TransitionTargets \cup {"cancelled"},
         NEW n \in Nodes \cup {NoNode},
         Transition(j, to, n, saved)
  PROVE  /\ jobs' \in [Jobs -> Job]
         /\ disk' \in [Jobs -> Job]
         /\ \A i \in Jobs : PairOK(jobs'[i], disk'[i])
  <1> DEFINE rec == [jobs[j] EXCEPT
                       !.status = to,
                       !.node = IF to \in {"scheduled", "dispatching"} /\ n # NoNode
                                THEN n ELSE @]
             undo == TransitionRollback(j, rec)
  <1>1. PairOK(jobs[j], disk[j]) /\ jobs[j] \in Job
    BY DEF StoreInv
  <1>2. /\ jobs[j].status \in {"pending", "scheduled", "dispatching", "running"}
        /\ to \in Status
    BY <1>1 DEF Transition, CanTransition, isAllowed, allowedTransitions,
                IsTerminal, Exists, TransitionTargets, Job, Status
  <1>3. PairOK(rec, rec)
    BY <1>1, <1>2 DEF PairOK, Job, Status, IsTerminal, AttemptLimit, TransitionTargets
  <1>4. PairOK(undo, disk[j])
    BY <1>1, <1>2 DEF PairOK, Job, Status, IsTerminal, AttemptLimit, TransitionRollback
  <1>5. SaveJob(j, rec, undo, saved)
    BY DEF Transition
  <1> HIDE DEF rec, undo
  <1> QED
    BY <1>3, <1>4, <1>5, SaveJobInv

\* MarkLost changes a live job, whose attempt is the one on disk.
LEMMA MarkLostInv ==
  ASSUME StoreInv, NEW j \in Jobs, NEW saved \in BOOLEAN, MarkLost(j, saved)
  PROVE  /\ jobs' \in [Jobs -> Job]
         /\ disk' \in [Jobs -> Job]
         /\ \A i \in Jobs : PairOK(jobs'[i], disk'[i])
  <1> DEFINE rec == [jobs[j] EXCEPT !.status = "lost"]
  <1>1. PairOK(jobs[j], disk[j])
    BY DEF StoreInv
  <1>2. PairOK(rec, rec)
    BY <1>1 DEF PairOK, MarkLost, Exists, Job, Status, AttemptLimit
  <1>3. SaveJob(j, rec, jobs[j], saved)
    BY DEF MarkLost
  <1> HIDE DEF rec
  <1> QED
    BY <1>1, <1>2, <1>3, SaveJobInv

\* RetryIfEligible: between its two saves memory is one attempt ahead, and the
\* guard of ShouldRetry keeps the new attempt within MaxAttempts.
LEMMA RetryInv ==
  ASSUME StoreInv, NEW j \in Jobs, NEW first \in BOOLEAN, NEW second \in BOOLEAN,
         RetryIfEligible(j, first, second)
  PROVE  /\ jobs' \in [Jobs -> Job]
         /\ disk' \in [Jobs -> Job]
         /\ \A i \in Jobs : PairOK(jobs'[i], disk'[i])
  <1> DEFINE marked == [jobs[j] EXCEPT !.status = "retrying"]
             next   == [jobs[j] EXCEPT !.status = "pending", !.attempt = @ + 1,
                                       !.node = NoNode]
             stuck  == [next EXCEPT !.status = "retrying"]
  <1>1. PairOK(jobs[j], disk[j]) /\ jobs[j] \in Job
    BY DEF StoreInv
  <1>2. /\ jobs[j].status \in {"failed", "timeout"}
        /\ jobs[j].max # 0
        /\ jobs[j].attempt < jobs[j].max
    BY DEF RetryIfEligible, CanRetry, isRetryable, ShouldRetry
  <1>3. /\ jobs[j].max \in Nat
        /\ jobs[j].attempt \in Nat
        /\ jobs[j].attempt + 1 \in Nat
    BY <1>1, JobNumbers
  <1>4. next \in Job /\ stuck \in Job /\ marked \in Job
    BY <1>1, <1>3, StoreAssumption DEF Job, Status
  <1>5. /\ next.status = "pending" /\ stuck.status = "retrying" /\ marked.status = "retrying"
        /\ next.attempt = jobs[j].attempt + 1
        /\ stuck.attempt = jobs[j].attempt + 1
        /\ marked.attempt = jobs[j].attempt
        /\ next.max = jobs[j].max /\ stuck.max = jobs[j].max /\ marked.max = jobs[j].max
    BY <1>1 DEF Job
  <1> HIDE DEF next, stuck, marked
  <1>a. jobs[j].attempt + 1 <= AttemptLimit(jobs[j].max) /\ jobs[j].attempt >= 1
    BY <1>1, <1>2, <1>3 DEF AttemptLimit, PairOK
  <1>b. PairOK(next, next)
    BY <1>3, <1>4, <1>5, <1>a DEF PairOK, IsTerminal
  <1>c. PairOK(stuck, marked)
    BY <1>3, <1>4, <1>5, <1>a DEF PairOK, IsTerminal
  <1>6. CASE ~first
    <2>1. jobs' = jobs /\ disk' = disk
      BY <1>6 DEF RetryIfEligible
    <2> QED
      BY <2>1 DEF StoreInv
  <1>7. CASE first /\ second
    <2>1. jobs' = [jobs EXCEPT ![j] = next] /\ disk' = [disk EXCEPT ![j] = next]
      BY <1>7 DEF RetryIfEligible, next
    <2> QED
      BY <1>4, <1>b, <2>1 DEF StoreInv
  <1>8. CASE first /\ ~second
    <2>1. jobs' = [jobs EXCEPT ![j] = stuck] /\ disk' = [disk EXCEPT ![j] = marked]
      BY <1>8 DEF RetryIfEligible, stuck, next, marked
    <2> QED
      BY <1>4, <1>c, <2>1 DEF StoreInv
  <1> QED
    BY <1>6, <1>7, <1>8

\* UpdateResolvedInputs saves a job whose status and attempt it leaves alone.
LEMMA UpdateResolvedInputsInv ==
  ASSUME StoreInv, NEW j \in Jobs, NEW saved \in BOOLEAN, UpdateResolvedInputs(j, saved)
  PROVE  /\ jobs' \in [Jobs -> Job]
         /\ disk' \in [Jobs -> Job]
         /\ \A i \in Jobs : PairOK(jobs'[i], disk'[i])
  <1> DEFINE rec == [jobs[j] EXCEPT !.inputs = "resolved"]
  <1>1. PairOK(jobs[j], disk[j])
    BY DEF StoreInv
  <1>2. PairOK(rec, rec)
    BY <1>1 DEF PairOK, UpdateResolvedInputs, Exists, Job, AttemptLimit
  <1>3. SaveJob(j, rec, jobs[j], saved)
    BY DEF UpdateResolvedInputs
  <1> HIDE DEF rec
  <1> QED
    BY <1>1, <1>2, <1>3, SaveJobInv

\* UpdateShares saves a job whose status and attempt it leaves alone.
LEMMA UpdateSharesInv ==
  ASSUME StoreInv, NEW j \in Jobs, NEW shares \in Shares, NEW saved \in BOOLEAN,
         UpdateShares(j, shares, saved)
  PROVE  /\ jobs' \in [Jobs -> Job]
         /\ disk' \in [Jobs -> Job]
         /\ \A i \in Jobs : PairOK(jobs'[i], disk'[i])
  <1> DEFINE rec == [jobs[j] EXCEPT !.shares = shares]
  <1>1. PairOK(jobs[j], disk[j])
    BY DEF StoreInv
  <1>2. PairOK(rec, rec)
    BY <1>1 DEF PairOK, UpdateShares, Exists, Job, AttemptLimit
  <1>3. PairOK(rec, disk[j])
    BY <1>1 DEF PairOK, UpdateShares, Exists, Job, AttemptLimit
  <1>4. SaveJob(j, rec, rec, saved)
    BY DEF UpdateShares
  <1> HIDE DEF rec
  <1> QED
    BY <1>2, <1>3, <1>4, SaveJobInv

-----------------------------------------------------------------------------
(* What Transition and RetryIfEligible write, for the users of the store.  *)

\* Transition writes one job.
LEMMA TransitionEffect ==
  ASSUME StoreInv, NEW j \in Jobs, NEW saved \in BOOLEAN, NEW n \in Nodes \cup {NoNode},
         NEW to \in TransitionTargets \cup {"cancelled"}, Transition(j, to, n, saved)
  PROVE  /\ \A k \in Jobs : k # j => jobs'[k] = jobs[k] /\ disk'[k] = disk[k]
         /\ saved => /\ jobs'[j] = disk'[j]
                     /\ jobs'[j].status = to
                     /\ to = "dispatching" /\ n # NoNode => jobs'[j].node = n
                     /\ to \notin {"scheduled", "dispatching"} => jobs'[j].node = jobs[j].node
         /\ ~saved => /\ disk'[j] = disk[j]
                      /\ jobs'[j].status = jobs[j].status
                      /\ to \notin {"scheduled", "dispatching"} => jobs'[j].node = jobs[j].node
         /\ jobs'[j].attempt = jobs[j].attempt
  <1>1. jobs \in [Jobs -> Job] /\ disk \in [Jobs -> Job]
    BY DEF StoreInv
  <1>n. PICK x : x = IF to \in {"scheduled", "dispatching"} /\ n # NoNode
                     THEN n ELSE jobs[j].node
    BY Zenon
  <1>2. PICK rec : rec = [jobs[j] EXCEPT !.status = to, !.node = x]
    BY Zenon
  <1>3. SaveJob(j, rec, TransitionRollback(j, rec), saved)
    BY <1>2, <1>n DEF Transition
  <1>t. jobs[j] \in Job /\ to \in Status
    BY <1>1 DEF TransitionTargets, Status
  <1>m. x \in Nodes \cup {NoNode}
    BY <1>n, <1>t DEF Job
  <1>4. /\ rec.status = to /\ rec.attempt = jobs[j].attempt /\ rec.node = x
        /\ rec \in Job
    BY <1>2, <1>t, <1>m, Zenon DEF Job
  <1>5. PICK undo : undo = TransitionRollback(j, rec)
    OBVIOUS
  <1>6. undo.status = jobs[j].status /\ undo.attempt = rec.attempt /\ undo.node = rec.node
    BY <1>4, <1>5 DEF Job, TransitionRollback
  <1>7. CASE saved
    BY <1>1, <1>3, <1>4, <1>7, <1>n DEF SaveJob
  <1>8. CASE ~saved
    BY <1>1, <1>3, <1>4, <1>5, <1>6, <1>8, <1>n DEF SaveJob
  <1> QED
    BY <1>7, <1>8

\* RetryIfEligible opens one job again, in memory and on disk.
LEMMA RetryEffect ==
  ASSUME StoreInv, NEW j \in Jobs, NEW first \in BOOLEAN, NEW second \in BOOLEAN,
         RetryIfEligible(j, first, second)
  PROVE  \/ UNCHANGED <<jobs, disk>>
         \/ /\ \A k \in Jobs : k # j => jobs'[k] = jobs[k] /\ disk'[k] = disk[k]
            /\ jobs'[j].status \in {"pending", "retrying"}
            /\ disk'[j].status \in {"pending", "retrying"}
  <1>1. jobs \in [Jobs -> Job] /\ disk \in [Jobs -> Job] /\ jobs[j] \in Job
    BY DEF StoreInv
  <1>2. PICK marked : marked = [jobs[j] EXCEPT !.status = "retrying"]
    BY Zenon
  <1>3. PICK next : next = [jobs[j] EXCEPT !.status = "pending", !.attempt = @ + 1,
                                           !.node = NoNode]
    OBVIOUS
  <1>4. PICK stuck : stuck = [next EXCEPT !.status = "retrying"]
    BY Zenon
  <1>5. marked.status = "retrying" /\ next.status = "pending" /\ "status" \in DOMAIN next
    BY <1>1, <1>2, <1>3 DEF Job
  <1>6. stuck.status = "retrying"
    BY <1>4, <1>5
  <1>7. \/ UNCHANGED <<jobs, disk>>
        \/ /\ jobs' = [jobs EXCEPT ![j] = next] \/ jobs' = [jobs EXCEPT ![j] = stuck]
           /\ disk' = [disk EXCEPT ![j] = next] \/ disk' = [disk EXCEPT ![j] = marked]
    BY <1>2, <1>3, <1>4 DEF RetryIfEligible
  <1> QED
    BY <1>1, <1>5, <1>6, <1>7

-----------------------------------------------------------------------------

\* The second half of CancelJob is a Transition, whatever happened since its
\* first half looked at the job.
LEMMA CancelActInv ==
  ASSUME StoreInv, NEW c \in cancels, NEW saved \in BOOLEAN, CancelAct(c, saved)
  PROVE  StoreInv'
  <1>1. c.job \in Jobs
    BY DEF StoreInv, CancelCalls
  <1>2. cancels' \subseteq CancelCalls
    BY DEF StoreInv, CancelAct
  <1>3. CASE Transition(c.job, "cancelled", NoNode, saved)
    BY <1>1, <1>2, <1>3, TransitionInv DEF StoreInv
  <1>4. CASE MarkLost(c.job, saved)
    BY <1>1, <1>2, <1>4, MarkLostInv DEF StoreInv
  <1>5. CASE UNCHANGED <<jobs, disk>>
    BY <1>2, <1>5 DEF StoreInv
  <1> QED
    BY <1>3, <1>4, <1>5 DEF CancelAct

\* Restore makes memory equal to the disk, which is in order by itself.
LEMMA CrashRestoreInv ==
  ASSUME StoreInv, CrashRestore
  PROVE  StoreInv'
  <1>1. ASSUME NEW j \in Jobs PROVE PairOK(disk[j], disk[j])
    <2>1. PairOK(jobs[j], disk[j])
      BY DEF StoreInv
    <2>2. /\ jobs[j].attempt \in Nat /\ disk[j].attempt \in Nat
          /\ jobs[j].max \in Nat
      BY <2>1, JobNumbers DEF PairOK
    <2>3. AttemptLimit(jobs[j].max) \in Nat
      BY <2>2 DEF AttemptLimit
    <2> QED
      BY <2>1, <2>2, <2>3 DEF PairOK
  <1>2. jobs' = disk /\ disk' = disk /\ cancels' = {}
    BY DEF CrashRestore
  <1> QED
    BY <1>1, <1>2 DEF StoreInv

\* The invariant is inductive.
LEMMA StoreInvInductive == StoreInv /\ [StoreNext]_storeVars => StoreInv'
  <1> SUFFICES ASSUME StoreInv, [StoreNext]_storeVars PROVE StoreInv'
    OBVIOUS
  <1>1. ASSUME NEW j \in Jobs, NEW saved \in SaveResults,
               StoreStep(j, saved), UNCHANGED cancels
        PROVE  StoreInv'
    <2> DEFINE Kept == /\ jobs' \in [Jobs -> Job]
                       /\ disk' \in [Jobs -> Job]
                       /\ \A i \in Jobs : PairOK(jobs'[i], disk'[i])
    <2>1. saved \in BOOLEAN
      BY StoreAssumption
    <2>2. ASSUME NEW max \in RetryLimits, Submit(j, max, saved) PROVE Kept
      BY <2>1, <2>2, SubmitInv
    <2>3. ASSUME NEW to \in TransitionTargets, NEW n \in Nodes,
                 Transition(j, to, n, saved)
          PROVE  Kept
      BY <2>1, <2>3, TransitionInv
    <2>4. ASSUME MarkLost(j, saved) PROVE Kept
      BY <2>1, <2>4, MarkLostInv
    <2>5. ASSUME NEW second \in SaveResults, RetryIfEligible(j, saved, second)
          PROVE  Kept
      <3>1. second \in BOOLEAN
        BY StoreAssumption
      <3> QED
        BY <2>1, <2>5, <3>1, RetryInv
    <2>6. ASSUME UpdateResolvedInputs(j, saved) PROVE Kept
      BY <2>1, <2>6, UpdateResolvedInputsInv
    <2>7. ASSUME NEW s \in Shares, UpdateShares(j, s, saved) PROVE Kept
      BY <2>1, <2>7, UpdateSharesInv
    <2>8. Kept
      <3> HIDE DEF Kept
      <3> QED
        BY <1>1, <2>2, <2>3, <2>4, <2>5, <2>6, <2>7 DEF StoreStep
    <2> QED
      BY <1>1, <2>8 DEF StoreInv
  <1>2. ASSUME NEW j \in Jobs, CancelJob(j) PROVE StoreInv'
    <2>1. cancels' \subseteq CancelCalls
      BY <1>2 DEF StoreInv, CancelJob, CancelCalls
    <2> QED
      BY <1>2, <2>1 DEF StoreInv, CancelJob
  <1>3. ASSUME NEW c \in cancels, NEW saved \in SaveResults, CancelAct(c, saved)
        PROVE  StoreInv'
    <2>1. saved \in BOOLEAN
      BY StoreAssumption
    <2> QED
      BY <1>3, <2>1, CancelActInv
  <1>4. CASE CrashRestore
    BY <1>4, CrashRestoreInv
  <1>5. CASE UNCHANGED storeVars
    BY <1>5 DEF StoreInv, storeVars
  <1> QED
    BY <1>1, <1>2, <1>3, <1>4, <1>5 DEF StoreNext

\* An empty store is in order (NewJobStore).
LEMMA StoreInvInit == StoreInit => StoreInv
  BY NoJobType DEF StoreInit, StoreInv, PairOK, NoJob, AttemptLimit, IsTerminal

\* The invariant holds throughout every execution, restarts included.
THEOREM StoreInvariant == StoreSpec => []StoreInv
  BY StoreInvInit, StoreInvInductive, PTL DEF StoreSpec

-----------------------------------------------------------------------------
(* The state properties follow from the invariant.                         *)

\* Both copies of every job stay well formed (Submit, SaveJob, Restore).
THEOREM StoreTypeCorrect == StoreSpec => []StoreTypeOK
  <1>1. StoreInv => StoreTypeOK
    BY DEF StoreInv, StoreTypeOK, PairOK, Exists
  <1> QED
    BY <1>1, StoreInvariant, PTL

\* However the saves of Transition, MarkLost, RetryIfEligible and the updates
\* end, the status in memory is the status on disk.
THEOREM StatusDurable == StoreSpec => []StatusOnDisk
  <1>1. StoreInv => StatusOnDisk
    BY DEF StoreInv, StatusOnDisk, PairOK
  <1> QED
    BY <1>1, StoreInvariant, PTL

\* RetryIfEligible never passes MaxAttempts, and memory is never more than the
\* one attempt of an unfinished retry ahead of the disk.
THEOREM AttemptsStayBounded == StoreSpec => []AttemptsBounded
  <1>1. StoreInv => AttemptsBounded
    BY DEF StoreInv, AttemptsBounded, PairOK, AttemptLimit
  <1> QED
    BY <1>1, StoreInvariant, PTL

-----------------------------------------------------------------------------
(* What one critical section does to the copies of one job.                *)

\* How the status of a job may change in one save.
SaveStep(s, t) ==
    \/ s = "absent" /\ t = "pending"
    \/ s # "absent" /\ ~IsTerminal(s) /\ t \in Status
    \/ isRetryable(s) /\ t \in {"pending", "retrying"}
    \/ s = t

\* A save by any critical section writes one job, as SaveStep allows.
LEMMA DiskStep ==
  ASSUME StoreInv, StoreNext
  PROVE  \/ disk' = disk
         \/ \E j \in Jobs, d \in Job :
               disk' = [disk EXCEPT ![j] = d] /\ SaveStep(disk[j].status, d.status)
  <1> DEFINE Goal == \/ disk' = disk
                     \/ \E j \in Jobs, d \in Job :
                           /\ disk' = [disk EXCEPT ![j] = d]
                           /\ SaveStep(disk[j].status, d.status)
  <1>1. \A j \in Jobs : jobs[j] \in Job /\ jobs[j].status = disk[j].status
    BY DEF StoreInv, PairOK
  <1>2. ASSUME NEW j \in Jobs, NEW saved, NEW max \in RetryLimits, Submit(j, max, saved)
        PROVE  Goal
    <2>1. NewJob(max) \in Job /\ NewJob(max).status = "pending"
      BY StoreAssumption DEF NewJob, Job, Status
    <2>2. disk[j].status = "absent"
      BY <1>1, <1>2 DEF Submit, Exists
    <2> QED
      BY <1>2, <2>1, <2>2 DEF Submit, SaveJob, SaveStep
  <1>3. ASSUME NEW j \in Jobs, NEW saved, NEW n \in Nodes \cup {NoNode},
               NEW to \in TransitionTargets \cup {"cancelled"},
               Transition(j, to, n, saved)
        PROVE  Goal
    <2> DEFINE rec == [jobs[j] EXCEPT
                         !.status = to,
                         !.node = IF to \in {"scheduled", "dispatching"} /\ n # NoNode
                                  THEN n ELSE @]
    <2>1. to \in Status
      BY DEF TransitionTargets, Status
    <2>2. rec \in Job /\ rec.status = to
      BY <1>1, <2>1 DEF Job
    <2>3. disk[j].status # "absent" /\ ~IsTerminal(disk[j].status)
      BY <1>1, <1>3 DEF Transition, CanTransition, Exists
    <2>4. disk' = disk \/ disk' = [disk EXCEPT ![j] = rec]
      BY <1>3 DEF Transition, SaveJob
    <2> HIDE DEF rec
    <2> QED
      BY <2>1, <2>2, <2>3, <2>4 DEF SaveStep
  <1>4. ASSUME NEW j \in Jobs, NEW saved, MarkLost(j, saved)
        PROVE  Goal
    <2> DEFINE rec == [jobs[j] EXCEPT !.status = "lost"]
    <2>1. rec \in Job /\ rec.status = "lost" /\ "lost" \in Status
      BY <1>1 DEF Job, Status
    <2>2. disk[j].status # "absent" /\ ~IsTerminal(disk[j].status)
      BY <1>1, <1>4 DEF MarkLost, Exists
    <2>3. disk' = disk \/ disk' = [disk EXCEPT ![j] = rec]
      BY <1>4 DEF MarkLost, SaveJob
    <2> HIDE DEF rec
    <2> QED
      BY <2>1, <2>2, <2>3 DEF SaveStep
  <1>5. ASSUME NEW j \in Jobs, NEW first, NEW second, RetryIfEligible(j, first, second)
        PROVE  Goal
    <2> DEFINE marked == [jobs[j] EXCEPT !.status = "retrying"]
               next   == [jobs[j] EXCEPT !.status = "pending", !.attempt = @ + 1,
                                         !.node = NoNode]
    <2>1. jobs[j].attempt + 1 \in Nat
      BY <1>1, JobNumbers
    <2>2. /\ marked \in Job /\ marked.status = "retrying"
          /\ next \in Job /\ next.status = "pending"
      BY <1>1, <2>1 DEF Job, Status
    <2>3. isRetryable(disk[j].status)
      BY <1>1, <1>5 DEF RetryIfEligible, CanRetry
    <2>4. \/ disk' = disk
          \/ disk' = [disk EXCEPT ![j] = marked]
          \/ disk' = [disk EXCEPT ![j] = next]
      BY <1>5 DEF RetryIfEligible
    <2> HIDE DEF marked, next
    <2> QED
      BY <2>2, <2>3, <2>4 DEF SaveStep
  <1>6. ASSUME NEW j \in Jobs, NEW saved, UpdateResolvedInputs(j, saved)
        PROVE  Goal
    <2> DEFINE rec == [jobs[j] EXCEPT !.inputs = "resolved"]
    <2>1. rec \in Job /\ rec.status = disk[j].status
      BY <1>1 DEF Job
    <2>2. disk' = disk \/ disk' = [disk EXCEPT ![j] = rec]
      BY <1>6 DEF UpdateResolvedInputs, SaveJob
    <2> HIDE DEF rec
    <2> QED
      BY <2>1, <2>2 DEF SaveStep
  <1>7. ASSUME NEW j \in Jobs, NEW saved, NEW s \in Shares, UpdateShares(j, s, saved)
        PROVE  Goal
    <2> DEFINE rec == [jobs[j] EXCEPT !.shares = s]
    <2>1. rec \in Job /\ rec.status = disk[j].status
      BY <1>1 DEF Job
    <2>2. disk' = disk \/ disk' = [disk EXCEPT ![j] = rec]
      BY <1>7 DEF UpdateShares, SaveJob
    <2> HIDE DEF rec
    <2> QED
      BY <2>1, <2>2 DEF SaveStep
  <1>8. ASSUME NEW c \in cancels, NEW saved, CancelAct(c, saved)
        PROVE  Goal
    <2>1. c.job \in Jobs
      BY DEF StoreInv, CancelCalls
    <2> HIDE DEF Goal
    <2>2. CASE Transition(c.job, "cancelled", NoNode, saved)
      BY <1>3, <2>1, <2>2
    <2>3. CASE MarkLost(c.job, saved)
      BY <1>4, <2>1, <2>3
    <2>4. CASE UNCHANGED <<jobs, disk>>
      BY <2>4 DEF Goal
    <2> QED
      BY <1>8, <2>2, <2>3, <2>4 DEF CancelAct
  <1>9. CASE CrashRestore \/ \E j \in Jobs : CancelJob(j)
    BY <1>9 DEF CrashRestore, CancelJob
  <1>10. ASSUME NEW j \in Jobs, NEW saved \in SaveResults, StoreStep(j, saved)
         PROVE  Goal
    <2> HIDE DEF Goal
    <2> QED
      BY <1>2, <1>3, <1>4, <1>5, <1>6, <1>7, <1>10 DEF StoreStep
  <1> HIDE DEF Goal
  <1> QED
    BY <1>8, <1>9, <1>10 DEF StoreNext, Goal

\* A save that SaveStep allows is a step of the contract or leaves it alone.
LEMMA SaveStepIsContractStep ==
  ASSUME disk \in [Jobs -> Job], NEW j \in Jobs, NEW d \in Job,
         disk' = [disk EXCEPT ![j] = d], SaveStep(disk[j].status, d.status)
  PROVE  Contract!Next \/ DurableOutcome' = DurableOutcome
  <1> DEFINE s == disk[j].status
             t == d.status
  <1>1. DurableOutcome' = [DurableOutcome EXCEPT ![j] = Phase(t)]
    BY DEF DurableOutcome
  <1>2. DurableOutcome[j] = Phase(s)
    BY DEF DurableOutcome
  <1>3. CASE s = "absent" /\ t = "pending"
    <2>1. Contract!Accept(j)
      BY <1>1, <1>2, <1>3 DEF Contract!Accept, Phase, IsTerminal
    <2> QED
      BY <2>1 DEF Contract!Next
  <1>4. CASE s # "absent" /\ ~IsTerminal(s) /\ t \in Status /\ IsTerminal(t)
    <2>1. Phase(s) = "open" /\ Phase(t) = t /\ t \in Contract!Outcomes
      BY <1>4 DEF Phase, IsTerminal, Contract!Outcomes
    <2>2. Contract!Close(j, t)
      BY <1>1, <1>2, <2>1 DEF Contract!Close
    <2> QED
      BY <2>1, <2>2 DEF Contract!Next
  <1>5. CASE isRetryable(s) /\ t \in {"pending", "retrying"}
    <2>1. Phase(s) \in Contract!Reopenable /\ Phase(t) = "open"
      BY <1>5 DEF Phase, IsTerminal, isRetryable, Contract!Reopenable
    <2>2. Contract!Reopen(j)
      BY <1>1, <1>2, <2>1 DEF Contract!Reopen
    <2> QED
      BY <2>2 DEF Contract!Next
  <1>6. CASE Phase(s) = Phase(t)
    BY <1>1, <1>2, <1>6 DEF DurableOutcome
  <1>7. CASE s # "absent" /\ ~IsTerminal(s) /\ t \in Status /\ ~IsTerminal(t)
    <2>1. Phase(s) = Phase(t)
      BY <1>7 DEF Phase, IsTerminal, Status
    <2> QED
      BY <1>6, <2>1
  <1> QED
    BY <1>3, <1>4, <1>5, <1>6, <1>7 DEF SaveStep

\* The store implements the contract: what is on disk about a job only ever
\* gets an outcome, keeps it, or is opened again by a retry, through failed
\* saves, the two-step CancelJob and restarts.
THEOREM StoreImplementsContract == StoreSpec => ContractSpec
  <1>1. StoreInit => Contract!Init
    BY DEF StoreInit, Contract!Init, DurableOutcome, Phase, NoJob
  <1>2. StoreInv /\ [StoreNext]_storeVars => [Contract!Next]_DurableOutcome
    <2> SUFFICES ASSUME StoreInv, [StoreNext]_storeVars
                 PROVE  Contract!Next \/ DurableOutcome' = DurableOutcome
      OBVIOUS
    <2>1. CASE disk' = disk
      BY <2>1 DEF DurableOutcome
    <2>2. CASE StoreNext
      BY <2>1, <2>2, DiskStep, SaveStepIsContractStep DEF StoreInv
    <2> QED
      BY <2>1, <2>2 DEF storeVars
  <1> QED
    BY <1>1, <1>2, StoreInvariant, PTL DEF StoreSpec, ContractSpec, Contract!Spec

-----------------------------------------------------------------------------
(* The action properties: what a critical section, or a restart, does to   *)
(* the record in memory of a job.                                          *)

\* How the record of a job may change in one step.
MemoryStep(m, n) ==
    \/ n.status = m.status /\ n.attempt = m.attempt /\ n.node = m.node
    \/ m.status # "absent" /\ ~IsTerminal(m.status) /\ n.attempt = m.attempt
    \/ m.status = "absent"
    \/ /\ isRetryable(m.status)
       /\ n.status \in {"pending", "retrying"}
       /\ n.attempt = m.attempt + 1

\* What one critical section of the store may do to a job in memory.
LEMMA MemoryStepOfStore ==
  ASSUME StoreInv, NEW j \in Jobs, NEW saved, StoreStep(j, saved), NEW i \in Jobs
  PROVE  MemoryStep(jobs[i], jobs'[i])
  <1>1. jobs[i] \in Job /\ jobs[j] \in Job
    BY DEF StoreInv
  <1>2. ASSUME NEW max \in RetryLimits, Submit(j, max, saved) PROVE MemoryStep(jobs[i], jobs'[i])
    BY <1>2 DEF StoreInv, Submit, SaveJob, Exists, MemoryStep
  <1>3. ASSUME NEW to \in TransitionTargets, NEW n \in Nodes, Transition(j, to, n, saved)
        PROVE  MemoryStep(jobs[i], jobs'[i])
    BY <1>1, <1>3 DEF StoreInv, Transition, CanTransition, TransitionRollback, SaveJob,
                      Exists, MemoryStep, Job
  <1>4. ASSUME MarkLost(j, saved) PROVE MemoryStep(jobs[i], jobs'[i])
    BY <1>1, <1>4 DEF StoreInv, MarkLost, SaveJob, Exists, MemoryStep, Job
  <1>5. ASSUME NEW second, RetryIfEligible(j, saved, second)
        PROVE  MemoryStep(jobs[i], jobs'[i])
    <2> DEFINE next  == [jobs[j] EXCEPT !.status = "pending", !.attempt = @ + 1,
                                        !.node = NoNode]
               stuck == [next EXCEPT !.status = "retrying"]
    <2>1. /\ next.status = "pending" /\ next.attempt = jobs[j].attempt + 1
          /\ stuck.status = "retrying" /\ stuck.attempt = jobs[j].attempt + 1
      BY <1>1 DEF Job
    <2>2. jobs' = jobs \/ jobs' = [jobs EXCEPT ![j] = next] \/ jobs' = [jobs EXCEPT ![j] = stuck]
      BY <1>5 DEF RetryIfEligible
    <2>3. isRetryable(jobs[j].status)
      BY <1>5 DEF RetryIfEligible, CanRetry
    <2> HIDE DEF next, stuck
    <2> QED
      BY <2>1, <2>2, <2>3 DEF StoreInv, MemoryStep
  <1>6. ASSUME UpdateResolvedInputs(j, saved) PROVE MemoryStep(jobs[i], jobs'[i])
    BY <1>1, <1>6 DEF StoreInv, UpdateResolvedInputs, SaveJob, MemoryStep, Job
  <1>7. ASSUME NEW s \in Shares, UpdateShares(j, s, saved)
        PROVE  MemoryStep(jobs[i], jobs'[i])
    BY <1>1, <1>7 DEF StoreInv, UpdateShares, SaveJob, MemoryStep, Job
  <1> QED
    BY <1>2, <1>3, <1>4, <1>5, <1>6, <1>7 DEF StoreStep

\* Every step but a restart changes a job as MemoryStep says.  A restart keeps
\* the status, and keeps a terminal job's attempt and node; it changes the
\* attempt only of a job stuck in retrying.
LEMMA MemoryStepOfNext ==
  ASSUME StoreInv, [StoreNext]_storeVars, NEW i \in Jobs
  PROVE  \/ MemoryStep(jobs[i], jobs'[i])
         \/ /\ jobs' = disk
            /\ jobs'[i].status = jobs[i].status
            /\ IsTerminal(jobs[i].status) => jobs'[i].node = jobs[i].node
            /\ jobs'[i].attempt = jobs[i].attempt \/ jobs[i].status = "retrying"
  <1>1. ASSUME NEW j \in Jobs, NEW saved \in SaveResults, StoreStep(j, saved)
        PROVE  MemoryStep(jobs[i], jobs'[i])
    BY <1>1, MemoryStepOfStore
  <1>2. CASE UNCHANGED jobs
    BY <1>2 DEF MemoryStep
  <1>3. ASSUME NEW j \in Jobs, CancelJob(j) PROVE UNCHANGED jobs
    BY <1>3 DEF CancelJob
  <1>4. ASSUME NEW c \in cancels, NEW saved \in SaveResults, CancelAct(c, saved)
        PROVE  MemoryStep(jobs[i], jobs'[i])
    <2>1. c.job \in Jobs /\ jobs[i] \in Job /\ jobs[c.job] \in Job
      BY DEF StoreInv, CancelCalls
    <2>2. CASE Transition(c.job, "cancelled", NoNode, saved)
      BY <2>1, <2>2 DEF StoreInv, Transition, CanTransition, TransitionRollback, SaveJob,
                        Exists, MemoryStep, Job
    <2>3. CASE MarkLost(c.job, saved)
      BY <2>1, <2>3 DEF StoreInv, MarkLost, SaveJob, Exists, MemoryStep, Job
    <2>4. CASE UNCHANGED <<jobs, disk>>
      BY <2>4 DEF MemoryStep
    <2> QED
      BY <1>4, <2>2, <2>3, <2>4 DEF CancelAct
  <1>5. CASE CrashRestore
    <2>1. PairOK(jobs[i], disk[i]) /\ jobs' = disk
      BY <1>5 DEF StoreInv, CrashRestore
    <2> QED
      BY <2>1 DEF PairOK
  <1> QED
    BY <1>1, <1>2, <1>3, <1>4, <1>5 DEF StoreNext, storeVars

\* Completed, lost, cancelled and skipped are for ever, with their attempt and
\* node: the guards of Transition, MarkLost and RetryIfEligible, the rollbacks
\* and Restore all respect them.
THEOREM OutcomesAreFinal == StoreSpec => FinalOutcome
  <1> DEFINE Body ==
        \A j \in Jobs :
          jobs[j].status \in {"completed", "lost", "cancelled", "skipped"} =>
             /\ jobs'[j].status = jobs[j].status
             /\ jobs'[j].attempt = jobs[j].attempt
             /\ jobs'[j].node = jobs[j].node
  <1>1. StoreInv /\ [StoreNext]_storeVars => Body
    BY MemoryStepOfNext DEF MemoryStep, IsTerminal, isRetryable
  <1> HIDE DEF Body
  <1>2. StoreSpec => [][Body]_storeVars
    BY <1>1, StoreInvariant, PTL DEF StoreSpec
  <1> QED
    BY <1>2 DEF FinalOutcome, Body

\* A failed job comes back only as a new attempt of RetryIfEligible, and the
\* attempt of a job changes in no other way while the coordinator is up.
THEOREM AttemptsChangeOnlyByRetry == StoreSpec => NewAttemptOnlyByRetry
  <1> DEFINE Body ==
        \A j \in Jobs :
          /\ jobs[j].status = "failed" /\ jobs'[j].status # "failed" =>
                /\ jobs'[j].status \in {"pending", "retrying"}
                /\ jobs'[j].attempt = jobs[j].attempt + 1
          /\ Exists(j) /\ jobs'[j].attempt # jobs[j].attempt =>
                \/ isRetryable(jobs[j].status)
                \/ jobs[j].status = "retrying" /\ jobs' = disk
  <1>1. StoreInv /\ [StoreNext]_storeVars => Body
    BY MemoryStepOfNext DEF MemoryStep, IsTerminal, isRetryable, Exists
  <1> HIDE DEF Body
  <1>2. StoreSpec => [][Body]_storeVars
    BY <1>1, StoreInvariant, PTL DEF StoreSpec
  <1> QED
    BY <1>2 DEF NewAttemptOnlyByRetry, Body

=============================================================================
