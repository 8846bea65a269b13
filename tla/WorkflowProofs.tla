--------------------------- MODULE WorkflowProofs ---------------------------
(***************************************************************************)
(* Proofs about Workflow for any set of jobs, any templates, whatever      *)
(* happens to the jobs, any outcome of every save and any number of        *)
(* restarts: no job is sent before its dependencies have ended as its      *)
(* condition wants, only jobs below a failed one are skipped, and the      *)
(* verdict on a workflow is the one its jobs call for.                     *)
(*                                                                         *)
(* The argument rests on one fact about the job store, Advance: a status   *)
(* that has ended stays, so what the loop, a report or the cascade read    *)
(* of a job that had ended is still true when they use it, however many    *)
(* critical sections lie between.                                          *)
(***************************************************************************)
EXTENDS Workflow, JobStoreProofs

\* The statuses of a job that no node has been asked to run.
Unsent == {"absent", "pending", "scheduled"}

\* How the status of a job of a workflow may change in one step.
Advance(s, t) ==
    /\ s # "absent" => t # "absent"
    /\ s \notin Unsent => t \notin Unsent
    /\ IsTerminal(s) => t = s
    /\ t \in {"timeout", "retrying"} => s \in {"timeout", "retrying"}
    /\ t = "skipped" => s \in {"skipped", "pending"}

WorkflowRecord ==
    [status : {"absent", "pending", "running", "completed", "failed", "cancelled"},
     spec   : Template,
     ids    : SUBSET Jobs]

\* The job exists, and its dependencies have ended as its condition wants.
Met(j) ==
    /\ jobs[j].status # "absent"
    /\ \A d \in wf.spec.dependsOn[j] :
          isDependencySatisfied(jobs[d].status, wf.spec.condition[j])

\* A job above k has failed.
Below(k) == \E j \in Ancestors(wf.spec, k) : jobs[j].status = "failed"

Bad(s) == s \in {"failed", "lost", "skipped"}

-----------------------------------------------------------------------------
(* The inductive invariant, in parts.                                      *)

RecordInv ==
    /\ wf \in WorkflowRecord /\ wfDisk \in WorkflowRecord
    /\ wf.spec = wfDisk.spec
    /\ (wf.status = "absent") = (wfDisk.status = "absent")
    /\ wf.status = "absent" => \A j \in Jobs : jobs[j].status = "absent"
    /\ reports \in [Jobs -> {"none", "sent", "toFinal", "callback", "done"}]
    /\ \A j \in Jobs : jobs[j].status \notin {"timeout", "retrying"}

\* Whoever holds the mutex found the workflow in a state that it leaves only
\* in the end; the cascade has only jobs below a failed one before it.
LockInv ==
    /\ lock.op \in {"free", "start", "completed", "cancel"}
    /\ lock.todo \subseteq Jobs
    /\ lock.op = "start" => wf.status = "pending"
    /\ lock.op = "completed" => wf.status = "running" /\ \A k \in lock.todo : Below(k)
    /\ lock.op = "cancel" => wf.status \in {"pending", "running"}

\* What the loop has in hand, and what it has sent.
SentInv ==
    /\ tick.queue \subseteq Jobs /\ \A j \in tick.queue : Met(j)
    /\ tick.pc \in {"schedule", "send"} => tick.job \in Jobs /\ Met(tick.job)
    /\ \A j \in Jobs : reports[j] # "none" => Met(j) /\ jobs[j].status \notin Unsent

SkipInv ==
    /\ \A j \in Jobs : reports[j] = "callback" => jobs[j].status \in {"completed", "failed"}
    /\ \A k \in Jobs : jobs[k].status = "skipped" => reports[k] = "none" /\ Below(k)

VerdictInv ==
    /\ wf.status = "completed" =>
          \A j \in wf.ids : IsTerminal(jobs[j].status) /\ ~Bad(jobs[j].status)
    /\ WorkflowTerminal(wfDisk.status) => wf = wfDisk
    /\ SaveResults = {TRUE} =>
          /\ wf.status = "failed" => \E j \in wf.ids : Bad(jobs[j].status)
          /\ WorkflowTerminal(wf.status) => wf = wfDisk

WorkflowInv == StoreInv /\ RecordInv /\ LockInv /\ SentInv /\ SkipInv /\ VerdictInv

-----------------------------------------------------------------------------
(* What a step does to the jobs.                                           *)

\* The job store is in order, and every job has advanced.
Moved == StoreInv' /\ \A j \in Jobs : Advance(jobs[j].status, jobs'[j].status)

\* No job has just been skipped.
NoSkip == \A j \in Jobs : jobs'[j].status = "skipped" => jobs[j].status = "skipped"

\* No job has just been created.
NoNew == \A j \in Jobs : jobs[j].status = "absent" => jobs'[j].status = "absent"

\* What is left in the loop's hands has its dependencies met.
TickOK ==
    /\ tick'.queue \subseteq Jobs /\ \A j \in tick'.queue : Met(j)
    /\ tick'.pc \in {"schedule", "send"} => tick'.job \in Jobs /\ Met(tick'.job)

\* A job is sent with its dependencies met, and only the report of its end is
\* followed by a callback.
ReportsOK ==
    /\ reports' \in [Jobs -> {"none", "sent", "toFinal", "callback", "done"}]
    /\ \A j \in Jobs : reports'[j] # "none" =>
          \/ reports[j] # "none"
          \/ Met(j) /\ jobs'[j].status \notin Unsent \cup {"skipped"}
    /\ \A j \in Jobs : reports'[j] = "callback" =>
          reports[j] = "callback" \/ jobs'[j].status \in {"completed", "failed"}

\* A job that stays as it is advances.
LEMMA SameAdvances == \A s : Advance(s, s)
  BY DEF Advance

\* The statuses a job may have.
LEMMA JobStatus ==
  ASSUME StoreInv, NEW j \in Jobs
  PROVE  jobs[j].status \in Status \cup {"absent"} /\ jobs[j].status = disk[j].status
  <1>1. jobs[j] \in Job /\ PairOK(jobs[j], disk[j])
    BY DEF StoreInv
  <1> QED
    BY <1>1 DEF Job, PairOK

\* Nothing happens in the store.
LEMMA StoreRests ==
  ASSUME StoreInv, UNCHANGED storeVars
  PROVE  Moved /\ NoNew /\ NoSkip
  <1>1. StoreInv'
    BY DEF StoreInv, storeVars
  <1> QED
    BY <1>1, SameAdvances DEF Moved, NoNew, NoSkip, storeVars

\* A transition of the loop, a report, the cascade or CancelJob, or its error.
LEMMA StepMoved ==
  ASSUME StoreInv, cancels' \subseteq cancels, NEW j \in Jobs, NEW saved \in BOOLEAN,
         NEW n \in Nodes \cup {NoNode}, NEW to \in TransitionTargets \cup {"cancelled"},
         IF CanTransition(j, to) THEN Transition(j, to, n, saved)
                                 ELSE UNCHANGED <<jobs, disk>>
  PROVE  /\ Moved /\ NoNew
         /\ to # "skipped" => NoSkip
         /\ to = "skipped" => \A k \in Jobs : k # j => jobs'[k].status = jobs[k].status
         /\ CanTransition(j, to) /\ saved => jobs'[j].status = to
  <1>1. CASE CanTransition(j, to)
    <2>1. Transition(j, to, n, saved)
      BY <1>1
    <2>2. /\ jobs' \in [Jobs -> Job]
          /\ disk' \in [Jobs -> Job]
          /\ \A i \in Jobs : PairOK(jobs'[i], disk'[i])
      BY <2>1, TransitionInv
    <2>3. StoreInv'
      BY <2>2 DEF StoreInv
    <2>4. /\ \A k \in Jobs : k # j => jobs'[k].status = jobs[k].status
          /\ saved => jobs'[j].status = to
          /\ ~saved => jobs'[j].status = jobs[j].status
      BY <2>1, TransitionEffect
    <2>5. Advance(jobs[j].status, to)
      <3>1. jobs[j].status \in Status \cup {"absent"}
        BY JobStatus
      <3> QED
        BY <1>1, <3>1 DEF CanTransition, Exists, isAllowed, allowedTransitions, Advance,
                          Status, Unsent, TransitionTargets, IsTerminal
    <2>7. jobs[j].status # "absent"
      BY <1>1 DEF CanTransition, Exists
    <2>6. \A k \in Jobs : Advance(jobs[k].status, jobs'[k].status)
      BY <2>4, <2>5, SameAdvances
    <2> QED
      BY <2>3, <2>4, <2>6, <2>7 DEF Moved, NoNew, NoSkip
  <1>2. CASE ~CanTransition(j, to)
    <2>1. jobs' = jobs /\ disk' = disk
      BY <1>2
    <2>2. StoreInv'
      BY <2>1 DEF StoreInv
    <2> QED
      BY <1>2, <2>1, <2>2, SameAdvances DEF Moved, NoNew, NoSkip
  <1> QED
    BY <1>1, <1>2

\* Cancel of a workflow, and of a job that cannot be cancelled otherwise.
LEMMA LostMoved ==
  ASSUME StoreInv, cancels' \subseteq cancels, NEW j \in Jobs, NEW saved \in BOOLEAN,
         MarkLost(j, saved)
  PROVE  Moved /\ NoNew /\ NoSkip
  <1>1. StoreInv'
    BY MarkLostInv DEF StoreInv
  <1>2. jobs \in [Jobs -> Job] /\ jobs[j] \in Job
    BY DEF StoreInv
  <1>3. \A k \in Jobs : \/ jobs'[k].status = jobs[k].status
                        \/ k = j /\ jobs'[k].status = "lost"
    BY <1>2 DEF MarkLost, SaveJob, Job
  <1>4. Advance(jobs[j].status, "lost") /\ jobs[j].status # "absent"
    BY DEF MarkLost, Exists, Advance, Unsent
  <1> QED
    BY <1>1, <1>3, <1>4, SameAdvances DEF Moved, NoNew, NoSkip

\* UpdateResolvedInputs leaves the status alone.
LEMMA ResolvedMoved ==
  ASSUME StoreInv, cancels' = cancels, NEW j \in Jobs, NEW saved \in BOOLEAN,
         UpdateResolvedInputs(j, saved)
  PROVE  Moved /\ NoNew /\ NoSkip
  <1>1. StoreInv'
    BY UpdateResolvedInputsInv DEF StoreInv
  <1>2. jobs \in [Jobs -> Job] /\ jobs[j] \in Job
    BY DEF StoreInv
  <1>3. \A k \in Jobs : jobs'[k].status = jobs[k].status
    BY <1>2 DEF UpdateResolvedInputs, SaveJob, Job
  <1> QED
    BY <1>1, <1>3, SameAdvances DEF Moved, NoNew, NoSkip

-----------------------------------------------------------------------------
(* What the parts of the invariant need of a step.                         *)

\* A dependency that is met stays met: its status has ended.
LEMMA MetStays ==
  ASSUME RecordInv, Moved, wf'.spec = wf.spec, NEW j \in Jobs, Met(j)
  PROVE  Met(j)'
  <1>1. jobs'[j].status # "absent"
    BY DEF Moved, Advance, Met
  <1>2. wf.spec \in Template
    BY DEF RecordInv, WorkflowRecord
  <1>3. wf.spec.condition[j] \in Conditions /\ wf.spec.dependsOn[j] \subseteq Jobs
    BY <1>2 DEF Template
  <1>4. ASSUME NEW d \in wf.spec.dependsOn[j]
        PROVE  isDependencySatisfied(jobs'[d].status, wf.spec.condition[j])
    <2>1. d \in Jobs /\ isDependencySatisfied(jobs[d].status, wf.spec.condition[j])
      BY <1>3, <1>4 DEF Met
    <2>2. IsTerminal(jobs[d].status)
      BY <1>3, <2>1, Zenon DEF isDependencySatisfied, IsTerminal, Conditions
    <2>3. jobs'[d].status = jobs[d].status
      BY <2>1, <2>2 DEF Moved, Advance
    <2> QED
      BY <2>1, <2>3
  <1> QED
    BY <1>1, <1>4 DEF Met

\* What is below a failed job stays below one.
LEMMA BelowStays ==
  ASSUME RecordInv, Moved, wf'.spec = wf.spec, NEW k \in Jobs, Below(k)
  PROVE  Below(k)'
  <1>1. PICK j \in Ancestors(wf.spec, k) : jobs[j].status = "failed"
    BY DEF Below
  <1>2. wf.spec \in Template
    BY DEF RecordInv, WorkflowRecord
  <1>3. DOMAIN wf.spec.dependsOn = Jobs
    BY <1>2 DEF Template
  <1>4. j \in Jobs
    BY <1>1, <1>3 DEF Ancestors, Reach
  <1>5. jobs'[j].status = "failed"
    BY <1>1, <1>4 DEF Moved, Advance, IsTerminal
  <1> QED
    BY <1>1, <1>5 DEF Below

\* The loop and the reports.
LEMMA SentKept ==
  ASSUME RecordInv, SentInv, Moved, wf'.spec = wf.spec, TickOK, ReportsOK
  PROVE  SentInv'
  <1>1. \A j \in Jobs : Met(j) => Met(j)'
    BY MetStays
  <1>2. \A j \in Jobs : jobs[j].status \notin Unsent => jobs'[j].status \notin Unsent
    BY DEF Moved, Advance
  <1>3. ASSUME NEW j \in Jobs, reports'[j] # "none"
        PROVE  Met(j)' /\ jobs'[j].status \notin Unsent
    BY <1>1, <1>2, <1>3 DEF ReportsOK, SentInv
  <1>4. tick'.queue \subseteq Jobs /\ \A j \in tick'.queue : Met(j)'
    BY <1>1 DEF TickOK
  <1>5. tick'.pc \in {"schedule", "send"} => tick'.job \in Jobs /\ Met(tick'.job)
    BY DEF TickOK
  <1>6. ASSUME tick'.pc \in {"schedule", "send"} PROVE tick'.job \in Jobs /\ Met(tick.job)'
    <2>1. PICK j \in Jobs : j = tick'.job
      BY <1>5, <1>6
    <2>2. Met(j)'
      BY <1>1, <1>5, <1>6, <2>1
    <2> QED
      BY <2>1, <2>2 DEF Met
  <1> QED
    BY <1>3, <1>4, <1>6 DEF SentInv

\* The callbacks and the skipped jobs.
LEMMA SkipKept ==
  ASSUME RecordInv, SkipInv, Moved, NoSkip, wf'.spec = wf.spec, ReportsOK
  PROVE  SkipInv'
  <1>1. ASSUME NEW j \in Jobs, reports'[j] = "callback"
        PROVE  jobs'[j].status \in {"completed", "failed"}
    <2>1. CASE reports[j] = "callback"
      BY <2>1 DEF SkipInv, Moved, Advance, IsTerminal
    <2> QED
      BY <1>1, <2>1 DEF ReportsOK
  <1>2. ASSUME NEW k \in Jobs, jobs'[k].status = "skipped"
        PROVE  reports'[k] = "none" /\ Below(k)'
    <2>1. jobs[k].status = "skipped"
      BY <1>2 DEF NoSkip
    <2>2. reports[k] = "none" /\ Below(k)
      BY <2>1 DEF SkipInv
    <2>3. Below(k)'
      BY <2>2, BelowStays
    <2>4. reports'[k] = "none"
      BY <1>2, <2>2 DEF ReportsOK
    <2> QED
      BY <2>3, <2>4
  <1> QED
    BY <1>1, <1>2 DEF SkipInv

\* The workflow is left alone.
LEMMA RecordKept ==
  ASSUME RecordInv, Moved, NoNew, UNCHANGED <<wf, wfDisk>>, ReportsOK
  PROVE  RecordInv'
  <1>1. \A j \in Jobs : jobs'[j].status \notin {"timeout", "retrying"}
    BY DEF RecordInv, Moved, Advance
  <1>2. wf.status = "absent" => \A j \in Jobs : jobs'[j].status = "absent"
    BY DEF RecordInv, NoNew
  <1> QED
    BY <1>1, <1>2 DEF RecordInv, ReportsOK

\* The jobs of a finished workflow have ended, and stay.
LEMMA VerdictKept ==
  ASSUME RecordInv, VerdictInv, Moved, UNCHANGED <<wf, wfDisk>>
  PROVE  VerdictInv'
  <1>1. wf.ids \subseteq Jobs
    BY DEF RecordInv, WorkflowRecord
  <1>2. \A j \in wf.ids : IsTerminal(jobs[j].status) => jobs'[j].status = jobs[j].status
    BY <1>1 DEF Moved, Advance
  <1>3. \A j \in wf.ids : Bad(jobs[j].status) => Bad(jobs'[j].status)
    BY <1>2 DEF Bad, IsTerminal
  <1>4. wf.status = "completed" =>
          \A j \in wf.ids : IsTerminal(jobs'[j].status) /\ ~Bad(jobs'[j].status)
    BY <1>2 DEF VerdictInv
  <1>5. SaveResults = {TRUE} /\ wf.status = "failed" => \E j \in wf.ids : Bad(jobs'[j].status)
    BY <1>3 DEF VerdictInv
  <1> QED
    BY <1>4, <1>5, Zenon DEF VerdictInv

\* The holder of the mutex goes on.
LEMMA LockKept ==
  ASSUME RecordInv, LockInv, Moved, wf' = wf, lock'.op = lock.op,
         lock'.todo \subseteq lock.todo
  PROVE  LockInv'
  <1>1. \A k \in Jobs : Below(k) => Below(k)'
    BY BelowStays
  <1>2. lock.op = "completed" => \A k \in lock'.todo : Below(k)'
    BY <1>1 DEF LockInv
  <1> QED
    BY <1>2 DEF LockInv

\* A step that leaves the workflow alone.
LEMMA Apart ==
  ASSUME WorkflowInv, Moved, NoNew, NoSkip, UNCHANGED <<wf, wfDisk>>,
         LockInv', TickOK, ReportsOK
  PROVE  WorkflowInv'
  <1>1. RecordInv /\ SentInv /\ SkipInv /\ VerdictInv
    BY DEF WorkflowInv
  <1>2. wf'.spec = wf.spec
    OBVIOUS
  <1>3. StoreInv'
    BY DEF Moved
  <1>4. RecordInv'
    BY <1>1, RecordKept
  <1>5. SentInv'
    BY <1>1, <1>2, SentKept
  <1>6. SkipInv'
    BY <1>1, <1>2, SkipKept
  <1>7. VerdictInv'
    BY <1>1, VerdictKept
  <1> QED
    BY <1>3, <1>4, <1>5, <1>6, <1>7 DEF WorkflowInv

\* A step that leaves the workflow and the mutex alone.
LEMMA Steady ==
  ASSUME WorkflowInv, Moved, NoNew, NoSkip, UNCHANGED <<wf, wfDisk>>,
         lock'.op = lock.op, lock'.todo \subseteq lock.todo, TickOK, ReportsOK
  PROVE  WorkflowInv'
  <1>1. LockInv'
    BY LockKept DEF WorkflowInv
  <1> QED
    BY <1>1, Apart

\* The loop, or the reports, are where they were.
LEMMA RunsRest ==
  ASSUME RecordInv, SentInv
  PROVE  /\ tick' = tick => TickOK
         /\ reports' = reports => ReportsOK
  BY DEF RecordInv, SentInv, TickOK, ReportsOK

\* A job downstream of j along depends_on has j among its ancestors: the walk
\* of the cascade and the walk of the from check follow the same edges.
LEMMA DownstreamIsBelow ==
  ASSUME NEW t \in Template, NEW j \in Jobs, NEW k \in Descendants(t, j)
  PROVE  j \in Ancestors(t, k)
  <1>1. PICK up : up = t.dependsOn
    BY Zenon
  <1>2. PICK down : down = [d \in Jobs |-> {i \in Jobs : d \in t.dependsOn[i]}]
    BY Zenon
  <1>3. /\ up \in [Jobs -> SUBSET Jobs] /\ DOMAIN up = Jobs
        /\ DOMAIN down = Jobs
        /\ \A d \in Jobs : down[d] = {i \in Jobs : d \in up[i]}
    BY <1>1, <1>2 DEF Template
  <1>4. PICK S : S = {i \in Jobs : j \in Reach(up, i)}
    BY Zenon
  <1>5. down[j] \subseteq S
    <2> SUFFICES ASSUME NEW i \in down[j] PROVE i \in S
      OBVIOUS
    <2>1. i \in Jobs /\ j \in up[i]
      BY <1>3
    <2> QED
      BY <1>3, <1>4, <2>1 DEF Reach
  <1>6. Closed(S, down)
    <2> SUFFICES ASSUME NEW x \in S, NEW i \in down[x] PROVE i \in S
      BY DEF Closed
    <2>1. x \in Jobs /\ j \in Reach(up, x) /\ i \in Jobs /\ x \in up[i]
      BY <1>3, <1>4
    <2>2. ASSUME NEW T \in SUBSET Jobs, up[i] \subseteq T, Closed(T, up)
          PROVE  j \in T
      <3>1. up[x] \subseteq T
        BY <2>1, <2>2 DEF Closed
      <3> QED
        BY <1>3, <2>1, <2>2, <3>1 DEF Reach
    <2>3. j \in Reach(up, i)
      BY <1>3, <2>2 DEF Reach
    <2> QED
      BY <1>4, <2>1, <2>3
  <1>7. k \in S
    <2>1. k \in Reach(down, j) /\ S \in SUBSET Jobs
      BY <1>2, <1>4 DEF Descendants
    <2> QED
      BY <1>3, <1>5, <1>6, <2>1 DEF Reach
  <1> QED
    BY <1>1, <1>4, <1>7 DEF Ancestors

-----------------------------------------------------------------------------
(* The operations of the WorkflowStore.                                    *)

\* SaveWorkflow of a record that has just got its status.
LEMMA SavedRecord ==
  ASSUME RecordInv, Moved, ReportsOK, NEW rec \in WorkflowRecord, NEW saved \in BOOLEAN,
         SaveWorkflow(rec, saved), rec.spec = wf.spec,
         wf.status # "absent", rec.status # "absent"
  PROVE  RecordInv'
  <1>1. \A j \in Jobs : jobs'[j].status \notin {"timeout", "retrying"}
    BY DEF RecordInv, Moved, Advance
  <1>2. wf' = rec /\ wfDisk' \in {rec, wfDisk}
    BY DEF SaveWorkflow
  <1> QED
    BY <1>1, <1>2 DEF RecordInv, ReportsOK

\* The verdict is right when the record that gets it is.
LEMMA SavedVerdict ==
  ASSUME RecordInv, VerdictInv, NEW rec, NEW saved \in SaveResults, SaveWorkflow(rec, saved),
         ~WorkflowTerminal(wf.status),
         rec.status = "completed" =>
            \A j \in rec.ids : IsTerminal(jobs'[j].status) /\ ~Bad(jobs'[j].status),
         SaveResults = {TRUE} /\ rec.status = "failed" =>
            \E j \in rec.ids : Bad(jobs'[j].status)
  PROVE  VerdictInv'
  <1>1. saved \in BOOLEAN
    BY StoreAssumption
  <1>2. wf' = rec
    BY DEF SaveWorkflow
  <1>3. ~WorkflowTerminal(wfDisk.status)
    BY DEF VerdictInv
  <1>4. WorkflowTerminal(wfDisk'.status) => wf' = wfDisk'
    BY <1>1, <1>3 DEF SaveWorkflow
  <1>5. SaveResults = {TRUE} => wf' = wfDisk'
    BY DEF SaveWorkflow
  <1> QED
    BY <1>2, <1>4, <1>5, Zenon DEF VerdictInv

\* Submit: while the workflow is absent no job exists, so nothing is about
\* the graph it replaces.
LEMMA SubmitKept ==
  ASSUME WorkflowInv, NEW t \in Templates, NEW saved \in SaveResults, WorkflowSubmit(t, saved)
  PROVE  WorkflowInv'
  <1>1. StoreInv /\ RecordInv /\ LockInv /\ SentInv /\ SkipInv /\ VerdictInv
    BY DEF WorkflowInv
  <1>2. UNCHANGED storeVars /\ jobs' = jobs /\ lock' = lock /\ tick' = tick /\ reports' = reports
    BY DEF WorkflowSubmit, runVars, storeVars
  <1>3. Moved /\ NoNew /\ NoSkip
    BY <1>1, <1>2, StoreRests
  <1>4. TickOK /\ ReportsOK
    BY <1>1, <1>2, RunsRest
  <1>5. saved \in BOOLEAN
    BY StoreAssumption
  <1>6. CASE ~saved
    <2>1. UNCHANGED <<wf, wfDisk>> /\ lock'.op = lock.op /\ lock'.todo \subseteq lock.todo
      BY <1>2, <1>6 DEF WorkflowSubmit
    <2> QED
      BY <1>3, <1>4, <2>1, Steady
  <1>7. CASE saved
    <2>1. PICK rec : rec = [status |-> "pending", spec |-> t, ids |-> {}]
      BY Zenon
    <2>2. rec \in WorkflowRecord /\ rec.status = "pending"
      BY <2>1, WorkflowAssumption DEF WorkflowRecord
    <2>3. wf' = rec /\ wfDisk' = rec
      BY <1>7, <2>1 DEF WorkflowSubmit, SaveWorkflow
    <2>4. \A j \in Jobs : jobs[j].status = "absent"
      BY <1>1 DEF WorkflowSubmit, RecordInv
    <2>5. RecordInv'
      BY <1>1, <1>2, <2>2, <2>3 DEF RecordInv
    <2>6. LockInv'
      BY <1>1, <1>2 DEF LockInv, WorkflowSubmit, Free
    <2>7. SentInv'
      <3>1. \A j \in Jobs : ~Met(j)
        BY <2>4 DEF Met
      <3>2. tick.queue = {} /\ tick.pc \notin {"schedule", "send"}
        BY <1>1, <3>1 DEF SentInv
      <3>3. \A j \in Jobs : reports[j] = "none"
        BY <1>1, <3>1 DEF SentInv
      <3> QED
        BY <1>2, <3>2, <3>3 DEF SentInv
    <2>8. SkipInv'
      BY <1>1, <1>2, <2>4 DEF SkipInv
    <2>9. VerdictInv'
      BY <2>2, <2>3, Zenon DEF VerdictInv, WorkflowTerminal
    <2> QED
      BY <1>3, <2>5, <2>6, <2>7, <2>8, <2>9 DEF WorkflowInv, Moved
  <1> QED
    BY <1>5, <1>6, <1>7

\* Start and Cancel take the mutex.
LEMMA BeginKept ==
  ASSUME WorkflowInv, StartBegin \/ CancelBegin
  PROVE  WorkflowInv'
  <1>1. StoreInv /\ RecordInv /\ LockInv /\ SentInv
    BY DEF WorkflowInv
  <1>2. /\ UNCHANGED storeVars /\ wf' = wf /\ wfDisk' = wfDisk
        /\ tick' = tick /\ reports' = reports
    BY DEF StartBegin, CancelBegin, runVars
  <1>3. Moved /\ NoNew /\ NoSkip
    BY <1>1, <1>2, StoreRests
  <1>4. TickOK /\ ReportsOK
    BY <1>1, <1>2, RunsRest
  <1>5. LockInv'
    <2>1. wf \in WorkflowRecord /\ wf.ids \subseteq Jobs
      BY <1>1 DEF RecordInv, WorkflowRecord
    <2>2. wf.status \in {"absent", "pending", "running", "completed", "failed", "cancelled"}
      BY <2>1 DEF WorkflowRecord
    <2>3. CASE StartBegin
      BY <1>1, <1>2, <2>3 DEF StartBegin, LockInv, Free
    <2>4. CASE CancelBegin
      BY <1>2, <2>1, <2>2, <2>4 DEF CancelBegin, LockInv, WorkflowTerminal
    <2> QED
      BY <2>3, <2>4
  <1> QED
    BY <1>2, <1>3, <1>4, <1>5, Apart

\* OnJobCompleted takes the mutex for a job whose end was recorded: it failed,
\* if anything is to be skipped.
LEMMA OnJobCompletedKept ==
  ASSUME WorkflowInv, NEW j \in Jobs, OnJobCompleted(j)
  PROVE  WorkflowInv'
  <1>1. StoreInv /\ RecordInv /\ LockInv /\ SentInv /\ SkipInv
    BY DEF WorkflowInv
  <1>2. /\ UNCHANGED storeVars /\ jobs' = jobs /\ wf' = wf /\ wfDisk' = wfDisk
        /\ tick' = tick /\ reports' = [reports EXCEPT ![j] = "done"]
        /\ reports[j] = "callback"
    BY DEF OnJobCompleted, storeVars
  <1>3. Moved /\ NoNew /\ NoSkip
    BY <1>1, <1>2, StoreRests
  <1>4. TickOK
    BY <1>1, <1>2, RunsRest
  <1>5. ReportsOK
    BY <1>1, <1>2 DEF ReportsOK, RecordInv
  <1>6. CASE lock' = lock
    <2>1. LockInv'
      BY <1>1, <1>2, <1>6 DEF LockInv, OnJobCompleted, Free
    <2> QED
      BY <1>2, <1>3, <1>4, <1>5, <2>1, Apart
  <1>7. CASE ~(lock' = lock)
    <2>1. PICK S : S = IF jobs[j].status \in {"failed", "timeout", "lost"}
                       THEN {k \in Descendants(wf.spec, j) \cap wf.ids :
                                wf.spec.condition[k] = "on_success"}
                       ELSE {}
      BY Zenon
    <2>2. wf.status = "running" /\ lock' = [op |-> "completed", job |-> j, todo |-> S]
      BY <1>7, <2>1 DEF OnJobCompleted
    <2>3. wf.spec \in Template /\ wf.ids \subseteq Jobs
      BY <1>1 DEF RecordInv, WorkflowRecord
    <2>4. jobs[j].status \in {"completed", "failed"}
      BY <1>1, <1>2 DEF SkipInv
    <2>5. S \subseteq Jobs
      BY <2>1, <2>3
    <2>6. ASSUME NEW k \in S PROVE Below(k)
      <3>1. jobs[j].status = "failed" /\ k \in Descendants(wf.spec, j)
        BY <2>1, <2>4
      <3>2. j \in Ancestors(wf.spec, k)
        BY <2>3, <3>1, DownstreamIsBelow
      <3> QED
        BY <3>1, <3>2 DEF Below
    <2>7. \A k \in S : Below(k)'
      BY <1>2, <2>6 DEF Below
    <2>8. LockInv'
      BY <1>2, <2>2, <2>5, <2>7 DEF LockInv
    <2> QED
      BY <1>2, <1>3, <1>4, <1>5, <2>8, Apart
  <1> QED
    BY <1>6, <1>7

\* A job of the workflow is created.
LEMMA SubmitMoved ==
  ASSUME StoreInv, cancels' = cancels, NEW j \in Jobs, NEW saved \in BOOLEAN,
         Submit(j, 0, saved)
  PROVE  Moved /\ NoSkip
  <1>1. StoreInv'
    BY StoreAssumption, SubmitInv DEF StoreInv
  <1>2. jobs \in [Jobs -> Job]
    BY DEF StoreInv
  <1>3. \A k \in Jobs : \/ jobs'[k].status = jobs[k].status
                        \/ /\ k = j /\ jobs[k].status = "absent"
                           /\ jobs'[k].status \in {"pending", "absent"}
    BY <1>2 DEF Submit, SaveJob, Exists, NewJob, NoJob
  <1>4. Advance("absent", "pending")
    BY DEF Advance, Unsent, IsTerminal
  <1> QED
    BY <1>1, <1>3, <1>4, SameAdvances DEF Moved, NoSkip

\* Start creates its jobs one by one, and fails with the first that it cannot
\* save.
LEMMA StartJobKept ==
  ASSUME WorkflowInv, NEW j \in Jobs, NEW saved \in SaveResults, NEW wfSaved \in SaveResults,
         StartJob(j, saved, wfSaved)
  PROVE  WorkflowInv'
  <1>1. StoreInv /\ RecordInv /\ LockInv /\ SentInv /\ SkipInv /\ VerdictInv
    BY DEF WorkflowInv
  <1>2. /\ saved \in BOOLEAN /\ wfSaved \in BOOLEAN
        /\ cancels' = cancels /\ tick' = tick /\ reports' = reports
        /\ lock.op = "start" /\ wf.status = "pending"
    BY <1>1, StoreAssumption DEF StartJob, runVars, LockInv
  <1>3. Moved /\ NoSkip
    BY <1>1, <1>2, SubmitMoved DEF StartJob
  <1>4. TickOK /\ ReportsOK
    BY <1>1, <1>2, RunsRest
  <1>5. PICK rec : rec = [wf EXCEPT !.ids = @ \cup {j}]
    BY Zenon
  <1>6. wf \in WorkflowRecord
    BY <1>1 DEF RecordInv
  <1>7. rec \in WorkflowRecord /\ rec.status = "pending" /\ rec.spec = wf.spec
    BY <1>2, <1>5, <1>6 DEF WorkflowRecord
  <1>8. CASE saved
    <2>1. wf' = rec /\ wfDisk' = wfDisk /\ lock' = [lock EXCEPT !.todo = @ \ {j}]
      BY <1>5, <1>8 DEF StartJob
    <2>2. RecordInv'
      <3>1. \A i \in Jobs : jobs'[i].status \notin {"timeout", "retrying"}
        BY <1>1, <1>3 DEF RecordInv, Moved, Advance
      <3> QED
        BY <1>1, <1>2, <1>4, <1>7, <2>1, <3>1 DEF RecordInv, ReportsOK
    <2>3. LockInv'
      <3>1. lock'.op \in {"start", lock'.op} /\ lock'.todo \subseteq Jobs
        BY <1>1, <2>1 DEF LockInv
      <3>2. lock'.op = "start"
        BY <1>2, <2>1
      <3> QED
        BY <1>7, <2>1, <3>1, <3>2 DEF LockInv
    <2>4. SentInv' /\ SkipInv'
      BY <1>1, <1>3, <1>4, <1>7, <2>1, SentKept, SkipKept
    <2>5. VerdictInv'
      BY <1>1, <1>2, <1>7, <2>1, Zenon DEF VerdictInv, WorkflowTerminal
    <2> QED
      BY <1>3, <2>2, <2>3, <2>4, <2>5 DEF WorkflowInv, Moved
  <1>9. CASE ~saved
    <2>1. PICK bad : bad = [rec EXCEPT !.status = "failed"]
      BY Zenon
    <2>2. bad \in WorkflowRecord /\ bad.status = "failed" /\ bad.spec = wf.spec
      BY <1>7, <2>1 DEF WorkflowRecord
    <2>3. SaveWorkflow(bad, wfSaved) /\ wf' = bad /\ lock' = Free
      BY <1>5, <1>9, <2>1 DEF StartJob, SaveWorkflow
    <2>4. RecordInv'
      BY <1>1, <1>2, <1>3, <1>4, <2>2, <2>3, SavedRecord
    <2>5. LockInv'
      BY <2>3 DEF LockInv, Free
    <2>6. SentInv' /\ SkipInv'
      BY <1>1, <1>3, <1>4, <2>2, <2>3, SentKept, SkipKept
    <2>7. ASSUME SaveResults = {TRUE} PROVE FALSE
      <3>1. saved \in {TRUE}
        BY <2>7, Zenon
      <3> QED
        BY <1>9, <3>1, Zenon
    <2>8. VerdictInv'
      BY <1>1, <1>2, <2>2, <2>3, <2>7, SavedVerdict, Zenon DEF WorkflowTerminal
    <2> QED
      BY <1>3, <2>4, <2>5, <2>6, <2>8 DEF WorkflowInv, Moved
  <1> QED
    BY <1>2, <1>8, <1>9

\* Start and Cancel end: the workflow is running, or cancelled.
LEMMA EndKept ==
  ASSUME WorkflowInv, NEW saved \in SaveResults, StartEnd(saved) \/ CancelEnd(saved)
  PROVE  WorkflowInv'
  <1>1. StoreInv /\ RecordInv /\ LockInv /\ SentInv /\ SkipInv /\ VerdictInv
    BY DEF WorkflowInv
  <1>2. /\ UNCHANGED storeVars /\ tick' = tick /\ reports' = reports /\ lock' = Free
        /\ wf.status \in {"pending", "running"} /\ saved \in BOOLEAN
    BY <1>1, StoreAssumption DEF StartEnd, CancelEnd, runVars, LockInv
  <1>3. Moved /\ NoNew /\ NoSkip
    BY <1>1, <1>2, StoreRests
  <1>4. TickOK /\ ReportsOK
    BY <1>1, <1>2, RunsRest
  <1>5. wf \in WorkflowRecord
    BY <1>1 DEF RecordInv
  <1>6. PICK status \in {"running", "cancelled"} :
          SaveWorkflow([wf EXCEPT !.status = status], saved)
    BY DEF StartEnd, CancelEnd
  <1>7. PICK rec : rec = [wf EXCEPT !.status = status]
    BY Zenon
  <1>8. rec \in WorkflowRecord /\ rec.status = status /\ rec.spec = wf.spec
    BY <1>5, <1>7 DEF WorkflowRecord
  <1>9. SaveWorkflow(rec, saved) /\ wf' = rec
    BY <1>6, <1>7 DEF SaveWorkflow
  <1>10. RecordInv'
    BY <1>1, <1>2, <1>3, <1>4, <1>8, <1>9, SavedRecord
  <1>11. LockInv'
    BY <1>2 DEF LockInv, Free
  <1>12. SentInv' /\ SkipInv'
    BY <1>1, <1>3, <1>4, <1>8, <1>9, SentKept, SkipKept
  <1>13. VerdictInv'
    BY <1>1, <1>2, <1>8, <1>9, SavedVerdict, Zenon DEF WorkflowTerminal
  <1> QED
    BY <1>3, <1>10, <1>11, <1>12, <1>13 DEF WorkflowInv, Moved

\* OnJobCompleted ends with the verdict.
LEMMA CompletedEndKept ==
  ASSUME WorkflowInv, NEW saved \in SaveResults, CompletedEnd(saved)
  PROVE  WorkflowInv'
  <1>1. StoreInv /\ RecordInv /\ LockInv /\ SentInv /\ SkipInv /\ VerdictInv
    BY DEF WorkflowInv
  <1>2. /\ UNCHANGED storeVars /\ jobs' = jobs /\ tick' = tick /\ reports' = reports
        /\ lock' = Free /\ wf.status = "running" /\ saved \in BOOLEAN
    BY <1>1, StoreAssumption DEF CompletedEnd, runVars, storeVars, LockInv
  <1>3. Moved /\ NoNew /\ NoSkip
    BY <1>1, <1>2, StoreRests
  <1>4. TickOK /\ ReportsOK
    BY <1>1, <1>2, RunsRest
  <1>5. wf \in WorkflowRecord
    BY <1>1 DEF RecordInv
  <1>6. LockInv'
    BY <1>2 DEF LockInv, Free
  <1>7. CASE Verdict = "running"
    BY <1>2, <1>3, <1>4, <1>6, <1>7, Apart DEF CompletedEnd
  <1>8. CASE Verdict # "running"
    <2>1. PICK status : status = Verdict
      BY Zenon
    <2>2. /\ status \in {"completed", "failed"}
          /\ \A k \in wf.ids : IsTerminal(jobs[k].status)
          /\ status = "completed" => \A k \in wf.ids : ~Bad(jobs[k].status)
          /\ status = "failed" =>
                \E k \in wf.ids : jobs[k].status \in {"failed", "timeout", "lost", "skipped"}
      BY <1>8, <2>1 DEF Verdict, Bad
    <2>3. PICK rec : rec = [wf EXCEPT !.status = status]
      BY Zenon
    <2>4. /\ rec \in WorkflowRecord /\ rec.status = status
          /\ rec.spec = wf.spec /\ rec.ids = wf.ids
      BY <1>5, <2>2, <2>3 DEF WorkflowRecord
    <2>5. SaveWorkflow(rec, saved) /\ wf' = rec
      BY <1>8, <2>1, <2>3 DEF CompletedEnd, SaveWorkflow
    <2>6. RecordInv'
      BY <1>1, <1>2, <1>3, <1>4, <2>2, <2>4, <2>5, SavedRecord
    <2>7. SentInv' /\ SkipInv'
      BY <1>1, <1>3, <1>4, <2>4, <2>5, SentKept, SkipKept
    <2>8. status = "failed" => \E k \in rec.ids : Bad(jobs'[k].status)
      BY <1>1, <1>2, <1>5, <2>2, <2>4 DEF RecordInv, Bad, WorkflowRecord
    <2>9. VerdictInv'
      BY <1>1, <1>2, <2>2, <2>4, <2>5, <2>8, SavedVerdict, Zenon DEF WorkflowTerminal
    <2> QED
      BY <1>3, <1>6, <2>6, <2>7, <2>9 DEF WorkflowInv, Moved
  <1> QED
    BY <1>7, <1>8

\* One job of the cascade: if it is skipped it was pending, so nobody had sent
\* it, and a job above it has failed.
LEMMA SkipJobKept ==
  ASSUME WorkflowInv, NEW k \in Jobs, NEW saved \in SaveResults, SkipJob(k, saved)
  PROVE  WorkflowInv'
  <1>1. StoreInv /\ RecordInv /\ LockInv /\ SentInv /\ SkipInv /\ VerdictInv
    BY DEF WorkflowInv
  <1>2. /\ cancels' = cancels /\ wf' = wf /\ wfDisk' = wfDisk
        /\ tick' = tick /\ reports' = reports /\ saved \in BOOLEAN
        /\ lock'.op = lock.op /\ lock'.todo \subseteq lock.todo
    BY <1>1, StoreAssumption DEF SkipJob, runVars, LockInv
  <1>3. IF CanTransition(k, "skipped") THEN Transition(k, "skipped", NoNode, saved)
                                       ELSE UNCHANGED <<jobs, disk>>
    BY DEF SkipJob
  <1>4. /\ Moved /\ NoNew
        /\ \A i \in Jobs : i # k => jobs'[i].status = jobs[i].status
    BY <1>1, <1>2, <1>3, StepMoved DEF TransitionTargets
  <1>5. TickOK /\ ReportsOK
    BY <1>1, <1>2, RunsRest
  <1>6. RecordInv' /\ LockInv' /\ SentInv' /\ VerdictInv'
    BY <1>1, <1>2, <1>4, <1>5, RecordKept, LockKept, SentKept, VerdictKept
  <1>7. Below(k)'
    <2>1. Below(k)
      BY <1>1 DEF SkipJob, LockInv
    <2> QED
      BY <1>1, <1>2, <1>4, <2>1, BelowStays
  <1>8. SkipInv'
    <2>1. ASSUME NEW i \in Jobs, reports'[i] = "callback"
          PROVE  jobs'[i].status \in {"completed", "failed"}
      BY <1>1, <1>2, <1>4, <2>1 DEF SkipInv, Moved, Advance, IsTerminal
    <2>2. ASSUME NEW i \in Jobs, jobs'[i].status = "skipped"
          PROVE  reports'[i] = "none" /\ Below(i)'
      <3>1. CASE jobs[i].status = "skipped"
        BY <1>1, <1>2, <1>4, <3>1, BelowStays DEF SkipInv
      <3>2. CASE jobs[i].status # "skipped"
        <4>1. i = k /\ jobs[i].status = "pending"
          BY <1>4, <2>2, <3>2 DEF Moved, Advance
        <4>2. reports[i] = "none"
          BY <1>1, <4>1 DEF SentInv, Unsent
        <4> QED
          BY <1>2, <1>7, <4>1, <4>2
      <3> QED
        BY <3>1, <3>2
    <2> QED
      BY <2>1, <2>2 DEF SkipInv
  <1> QED
    BY <1>4, <1>6, <1>8 DEF WorkflowInv, Moved

\* One job of a cancelled workflow.
LEMMA CancelMarkKept ==
  ASSUME WorkflowInv, NEW k \in Jobs, NEW saved \in SaveResults, CancelMark(k, saved)
  PROVE  WorkflowInv'
  <1>1. StoreInv /\ RecordInv /\ LockInv /\ SentInv
    BY DEF WorkflowInv
  <1>2. /\ cancels' = cancels /\ wf' = wf /\ wfDisk' = wfDisk
        /\ tick' = tick /\ reports' = reports /\ saved \in BOOLEAN
        /\ lock'.op = lock.op /\ lock'.todo \subseteq lock.todo
    BY <1>1, StoreAssumption DEF CancelMark, runVars, LockInv
  <1>3. Moved /\ NoNew /\ NoSkip
    <2>1. CASE IsTerminal(jobs[k].status)
      BY <1>1, <1>2, <2>1, StoreRests DEF CancelMark, storeVars
    <2>2. CASE ~IsTerminal(jobs[k].status)
      BY <1>1, <1>2, <2>2, LostMoved DEF CancelMark
    <2> QED
      BY <2>1, <2>2
  <1>4. TickOK /\ ReportsOK
    BY <1>1, <1>2, RunsRest
  <1> QED
    BY <1>2, <1>3, <1>4, Steady

\* The loop takes a snapshot of the eligible jobs, or is done with one.
LEMMA TickKept ==
  ASSUME WorkflowInv, TickStart \/ TickEnd
  PROVE  WorkflowInv'
  <1>1. StoreInv /\ RecordInv /\ LockInv /\ SentInv
    BY DEF WorkflowInv
  <1>2. /\ UNCHANGED storeVars /\ wf' = wf /\ wfDisk' = wfDisk /\ lock' = lock
        /\ reports' = reports
    BY DEF TickStart, TickEnd, wfVars
  <1>3. Moved /\ NoNew /\ NoSkip
    BY <1>1, <1>2, StoreRests
  <1>4. ReportsOK
    BY <1>1, <1>2, RunsRest
  <1>5. EligibleJobs \subseteq Jobs /\ \A j \in EligibleJobs : Met(j)
    <2>1. wf.ids \subseteq Jobs
      BY <1>1 DEF RecordInv, WorkflowRecord
    <2> QED
      BY <2>1 DEF EligibleJobs, Met
  <1>6. \/ tick'.pc = "pick" /\ tick'.queue = EligibleJobs
        \/ tick'.pc = "idle" /\ tick'.queue = {}
    <2>1. PICK S : S = EligibleJobs
      BY Zenon
    <2>2. CASE TickStart
      <3>1. tick' = [Idle EXCEPT !.pc = "pick", !.queue = S]
        BY <2>1, <2>2 DEF TickStart
      <3> QED
        BY <2>1, <3>1 DEF Idle
    <2>3. CASE TickEnd
      BY <2>3 DEF TickEnd, Idle
    <2> QED
      BY <2>2, <2>3
  <1>7. TickOK
    BY <1>5, <1>6 DEF TickOK
  <1> QED
    BY <1>2, <1>3, <1>4, <1>7, Steady

\* The inputs of a job are resolved, or the job fails.
LEMMA TickResolveKept ==
  ASSUME WorkflowInv, NEW j \in Jobs, NEW saved \in SaveResults, NEW failSaved \in SaveResults,
         TickResolve(j, saved, failSaved)
  PROVE  WorkflowInv'
  <1>1. StoreInv /\ RecordInv /\ LockInv /\ SentInv
    BY DEF WorkflowInv
  <1>2. /\ cancels' = cancels /\ wf' = wf /\ wfDisk' = wfDisk /\ lock' = lock
        /\ reports' = reports /\ saved \in BOOLEAN /\ failSaved \in BOOLEAN
        /\ j \in tick.queue
    BY StoreAssumption DEF TickResolve, wfVars
  <1>3. Moved /\ NoNew /\ NoSkip
    <2>1. CASE UpdateResolvedInputs(j, TRUE)
      BY <1>1, <1>2, <2>1, ResolvedMoved, Zenon
    <2>2. CASE UNCHANGED <<jobs, disk>>
      BY <1>1, <1>2, <2>2, StoreRests DEF storeVars
    <2>3. CASE IF CanTransition(j, "failed") THEN Transition(j, "failed", NoNode, failSaved)
                                             ELSE UNCHANGED <<jobs, disk>>
      BY <1>1, <1>2, <2>3, StepMoved DEF TransitionTargets
    <2> QED
      BY <2>1, <2>2, <2>3, Zenon DEF TickResolve
  <1>4. ReportsOK
    BY <1>1, <1>2, RunsRest
  <1>5. /\ tick'.queue = tick.queue \ {j}
        /\ tick'.pc \in {"schedule", "send"} => tick'.job = j
    BY DEF TickResolve
  <1>6. TickOK
    BY <1>1, <1>2, <1>5 DEF TickOK, SentInv
  <1> QED
    BY <1>2, <1>3, <1>4, <1>6, Steady

\* The job the loop has in hand is scheduled, or let go.
LEMMA TickScheduleKept ==
  ASSUME WorkflowInv, NEW n \in Nodes, NEW saved \in SaveResults, TickSchedule(n, saved)
  PROVE  WorkflowInv'
  <1>1. StoreInv /\ RecordInv /\ LockInv /\ SentInv
    BY DEF WorkflowInv
  <1>2. PICK j \in Jobs : j = tick.job
    BY <1>1, Zenon DEF TickSchedule, SentInv
  <1>3. /\ cancels' = cancels /\ wf' = wf /\ wfDisk' = wfDisk /\ lock' = lock
        /\ reports' = reports /\ saved \in BOOLEAN /\ Met(j)
    BY <1>1, <1>2, StoreAssumption DEF TickSchedule, wfVars, SentInv
  <1>4. IF CanTransition(j, "scheduled") THEN Transition(j, "scheduled", n, saved)
                                         ELSE UNCHANGED <<jobs, disk>>
    BY <1>2 DEF TickSchedule
  <1>5. Moved /\ NoNew /\ NoSkip
    BY <1>1, <1>3, <1>4, StepMoved DEF TransitionTargets
  <1>6. ReportsOK
    BY <1>1, <1>3, RunsRest
  <1>7. /\ tick'.queue = tick.queue
        /\ tick'.pc \in {"schedule", "send"} => tick'.job = j
    BY <1>1, <1>2 DEF TickSchedule, SentInv
  <1>8. TickOK
    BY <1>1, <1>3, <1>7 DEF TickOK, SentInv
  <1> QED
    BY <1>3, <1>5, <1>6, <1>8, Steady

\* The job the loop has in hand is dispatching, and sent, or let go.
LEMMA TickSendKept ==
  ASSUME WorkflowInv, NEW saved \in SaveResults, TickSend(saved)
  PROVE  WorkflowInv'
  <1>1. StoreInv /\ RecordInv /\ LockInv /\ SentInv
    BY DEF WorkflowInv
  <1>2. PICK j \in Jobs : j = tick.job
    BY <1>1, Zenon DEF TickSend, SentInv
  <1>3. /\ cancels' = cancels /\ wf' = wf /\ wfDisk' = wfDisk /\ lock' = lock
        /\ saved \in BOOLEAN /\ Met(j)
    BY <1>1, <1>2, StoreAssumption DEF TickSend, wfVars, SentInv
  <1>4. IF CanTransition(j, "dispatching") THEN Transition(j, "dispatching", NoNode, saved)
                                           ELSE UNCHANGED <<jobs, disk>>
    BY <1>2 DEF TickSend
  <1>5. /\ Moved /\ NoNew /\ NoSkip
        /\ CanTransition(j, "dispatching") /\ saved => jobs'[j].status = "dispatching"
    BY <1>1, <1>3, <1>4, StepMoved DEF TransitionTargets
  <1>6. TickOK
    BY <1>1 DEF TickOK, SentInv, TickSend
  <1>7. ReportsOK
    <2>1. CASE reports' = reports
      BY <1>1, <2>1, RunsRest
    <2>2. CASE reports' # reports
      <3>1. reports' = [reports EXCEPT ![j] = "sent"] /\ jobs'[j].status = "dispatching"
        BY <1>2, <1>5, <2>2 DEF TickSend
      <3> QED
        BY <1>1, <1>3, <3>1 DEF ReportsOK, RecordInv, Unsent
    <2> QED
      BY <2>1, <2>2
  <1> QED
    BY <1>3, <1>5, <1>6, <1>7, Steady

\* The report of a run reaches the coordinator.
LEMMA ReportKept ==
  ASSUME WorkflowInv, NEW j \in Jobs, NEW saved \in SaveResults,
         NEW target \in {"completed", "failed"}, NEW complete \in BOOLEAN,
         ReportRunning(j, saved) \/ ReportFinal(j, target, complete, saved)
  PROVE  WorkflowInv'
  <1>1. StoreInv /\ RecordInv /\ LockInv /\ SentInv
    BY DEF WorkflowInv
  <1>2. /\ cancels' = cancels /\ wf' = wf /\ wfDisk' = wfDisk /\ lock' = lock
        /\ tick' = tick /\ saved \in BOOLEAN /\ reports[j] # "none"
    BY StoreAssumption DEF ReportRunning, ReportFinal, wfVars
  <1>3. PICK to \in {"running", "completed", "failed"} :
          /\ IF CanTransition(j, to) THEN Transition(j, to, NoNode, saved)
                                     ELSE UNCHANGED <<jobs, disk>>
          /\ \/ reports' = [reports EXCEPT ![j] = "toFinal"]
             \/ reports' = [reports EXCEPT ![j] = "done"]
             \/ /\ reports' = [reports EXCEPT ![j] = "callback"]
                /\ to # "running" /\ CanTransition(j, to) /\ saved
    BY DEF ReportRunning, ReportFinal
  <1>4. /\ Moved /\ NoNew /\ NoSkip
        /\ CanTransition(j, to) /\ saved => jobs'[j].status = to
    BY <1>1, <1>2, <1>3, StepMoved DEF TransitionTargets
  <1>5. TickOK
    BY <1>1, <1>2, RunsRest
  <1>6. ReportsOK
    BY <1>1, <1>2, <1>3, <1>4 DEF ReportsOK, RecordInv
  <1> QED
    BY <1>2, <1>4, <1>5, <1>6, Steady

\* The Dispatch RPC of a job fails.
LEMMA SendFailKept ==
  ASSUME WorkflowInv, NEW j \in Jobs, NEW arrived \in BOOLEAN, NEW saved \in SaveResults,
         SendFail(j, arrived, saved)
  PROVE  WorkflowInv'
  <1>1. StoreInv /\ RecordInv /\ LockInv /\ SentInv
    BY DEF WorkflowInv
  <1>2. /\ cancels' = cancels /\ wf' = wf /\ wfDisk' = wfDisk /\ lock' = lock
        /\ tick' = tick /\ saved \in BOOLEAN
        /\ IF CanTransition(j, "failed") THEN Transition(j, "failed", NoNode, saved)
                                         ELSE UNCHANGED <<jobs, disk>>
    BY StoreAssumption DEF SendFail, wfVars
  <1>3. Moved /\ NoNew /\ NoSkip
    BY <1>1, <1>2, StepMoved DEF TransitionTargets
  <1>4. TickOK
    BY <1>1, <1>2, RunsRest
  <1>5. \/ reports' = reports
        \/ reports[j] = "sent" /\ reports' = [reports EXCEPT ![j] = "done"]
    BY DEF SendFail
  <1>6. ReportsOK
    BY <1>1, <1>5, RunsRest DEF ReportsOK, RecordInv
  <1> QED
    BY <1>2, <1>3, <1>4, <1>6, Steady

\* The two halves of CancelJob.
LEMMA ApiCancelJobKept ==
  ASSUME WorkflowInv, ApiCancelJob
  PROVE  WorkflowInv'
  <1>1. StoreInv /\ RecordInv /\ LockInv /\ SentInv
    BY DEF WorkflowInv
  <1>2. /\ wf' = wf /\ wfDisk' = wfDisk /\ lock' = lock /\ tick' = tick /\ reports' = reports
    BY DEF ApiCancelJob, wfVars, runVars
  <1>3. ASSUME NEW j \in Jobs, CancelJob(j) PROVE Moved /\ NoNew /\ NoSkip
    <2>1. jobs' = jobs /\ disk' = disk /\ cancels' \subseteq CancelCalls
      BY <1>1, <1>3 DEF StoreInv, CancelJob, CancelCalls
    <2>2. StoreInv'
      BY <1>1, <2>1 DEF StoreInv
    <2> QED
      BY <2>1, <2>2, SameAdvances DEF Moved, NoNew, NoSkip
  <1>4. ASSUME NEW c \in cancels, NEW saved \in SaveResults, CancelAct(c, saved)
        PROVE  Moved /\ NoNew /\ NoSkip
    <2>1. c.job \in Jobs /\ cancels' \subseteq cancels /\ saved \in BOOLEAN
      BY <1>1, <1>4, StoreAssumption DEF StoreInv, CancelCalls, CancelAct
    <2>2. CASE Transition(c.job, "cancelled", NoNode, saved)
      <3>1. CanTransition(c.job, "cancelled")
        BY <2>2 DEF Transition
      <3> QED
        BY <1>1, <2>1, <2>2, <3>1, StepMoved
    <2>3. CASE MarkLost(c.job, saved)
      BY <1>1, <2>1, <2>3, LostMoved
    <2>4. CASE UNCHANGED <<jobs, disk>>
      <3>1. StoreInv'
        BY <1>1, <2>1, <2>4 DEF StoreInv
      <3> QED
        BY <2>4, <3>1, SameAdvances DEF Moved, NoNew, NoSkip
    <2> QED
      BY <1>4, <2>2, <2>3, <2>4 DEF CancelAct
  <1>5. Moved /\ NoNew /\ NoSkip
    BY <1>3, <1>4 DEF ApiCancelJob
  <1>6. TickOK /\ ReportsOK
    BY <1>1, <1>2, RunsRest
  <1> QED
    BY <1>2, <1>5, <1>6, Steady

\* A restart brings back the workflow of the disk, with the jobs as they were.
LEMMA CrashKept ==
  ASSUME WorkflowInv, CoordinatorCrash
  PROVE  WorkflowInv'
  <1>1. StoreInv /\ RecordInv /\ LockInv /\ SentInv /\ SkipInv /\ VerdictInv
    BY DEF WorkflowInv
  <1>2. /\ CrashRestore /\ jobs' = disk /\ wf' = wfDisk /\ wfDisk' = wfDisk
        /\ lock' = Free /\ tick' = Idle
        /\ reports' = [j \in Jobs |-> IF reports[j] \in {"toFinal", "callback"}
                                      THEN "done" ELSE reports[j]]
    BY DEF CoordinatorCrash, CrashRestore
  <1>3. \A j \in Jobs : jobs'[j].status = jobs[j].status
    BY <1>1, <1>2, JobStatus
  <1>4. Moved /\ NoNew /\ NoSkip
    <2>1. StoreInv'
      BY <1>1, <1>2, CrashRestoreInv
    <2> QED
      BY <1>3, <2>1, SameAdvances DEF Moved, NoNew, NoSkip
  <1>5. TickOK
    BY <1>2 DEF TickOK, Idle
  <1>6. ReportsOK
    BY <1>1, <1>2 DEF ReportsOK, RecordInv
  <1>7. RecordInv'
    <2>1. wfDisk \in WorkflowRecord /\ wf' = wfDisk /\ wfDisk' = wfDisk
      BY <1>1, <1>2 DEF RecordInv
    <2>2. wf'.status = "absent" => \A j \in Jobs : jobs'[j].status = "absent"
      BY <1>1, <1>2, <1>3 DEF RecordInv
    <2>3. reports' \in [Jobs -> {"none", "sent", "toFinal", "callback", "done"}]
      BY <1>6 DEF ReportsOK
    <2>4. \A j \in Jobs : jobs'[j].status \notin {"timeout", "retrying"}
      BY <1>1, <1>3 DEF RecordInv
    <2> QED
      BY <2>1, <2>2, <2>3, <2>4 DEF RecordInv
  <1>8. LockInv'
    BY <1>2 DEF LockInv, Free
  <1>9. SentInv' /\ SkipInv'
    <2>1. wf'.spec = wf.spec
      BY <1>1, <1>2 DEF RecordInv
    <2> QED
      BY <1>1, <1>4, <1>5, <1>6, <2>1, SentKept, SkipKept
  <1>10. VerdictInv'
    <2>1. wfDisk.ids \subseteq Jobs
      BY <1>1 DEF RecordInv, WorkflowRecord
    <2>2. WorkflowTerminal(wfDisk.status) => wf = wfDisk
      BY <1>1 DEF VerdictInv
    <2>3. CASE WorkflowTerminal(wfDisk.status)
      BY <1>1, <1>2, <1>3, <2>1, <2>2, <2>3, Zenon DEF VerdictInv
    <2>4. CASE ~WorkflowTerminal(wfDisk.status)
      BY <1>2, <2>4, Zenon DEF VerdictInv, WorkflowTerminal
    <2> QED
      BY <2>3, <2>4
  <1> QED
    BY <1>4, <1>7, <1>8, <1>9, <1>10 DEF WorkflowInv, Moved

-----------------------------------------------------------------------------
(* The theorems.                                                           *)

LEMMA WorkflowInit == Init => WorkflowInv
  <1> SUFFICES ASSUME Init PROVE WorkflowInv
    OBVIOUS
  <1>1. StoreInv
    BY StoreInvInit DEF Init
  <1>2. NoWorkflow \in WorkflowRecord
    BY DEF NoWorkflow, NoTemplate, WorkflowRecord, Template, Conditions
  <1>3. \A j \in Jobs : jobs[j].status = "absent" /\ reports[j] = "none"
    BY DEF Init, StoreInit, NoJob
  <1>4. RecordInv
    BY <1>2, <1>3 DEF Init, RecordInv, NoWorkflow
  <1>5. LockInv
    BY DEF Init, LockInv, Free
  <1>6. SentInv
    BY <1>3 DEF Init, SentInv, Idle
  <1>7. SkipInv
    BY <1>3 DEF SkipInv
  <1>8. VerdictInv
    BY DEF Init, VerdictInv, NoWorkflow, WorkflowTerminal
  <1> QED
    BY <1>1, <1>4, <1>5, <1>6, <1>7, <1>8 DEF WorkflowInv

LEMMA WorkflowNext == WorkflowInv /\ [Next]_vars => WorkflowInv'
  <1> SUFFICES ASSUME WorkflowInv, [Next]_vars PROVE WorkflowInv'
    OBVIOUS
  <1>1. CASE LockStep
    BY <1>1, StartJobKept, EndKept, CompletedEndKept, SkipJobKept, CancelMarkKept DEF LockStep
  <1>2. CASE Loop
    BY <1>2, TickKept, TickResolveKept, TickScheduleKept, TickSendKept DEF Loop
  <1>3. ASSUME NEW j \in Jobs, Handler(j) PROVE WorkflowInv'
    <2>1. CASE OnJobCompleted(j)
      BY <2>1, OnJobCompletedKept
    <2>2. ASSUME NEW saved \in SaveResults, ReportRunning(j, saved) PROVE WorkflowInv'
      <3>1. \E target \in {"completed", "failed"}, complete \in BOOLEAN : TRUE
        BY Zenon
      <3> QED
        BY <2>2, <3>1, ReportKept
    <2>3. ASSUME NEW saved \in SaveResults, NEW target \in {"completed", "failed"},
                 NEW complete \in BOOLEAN, ReportFinal(j, target, complete, saved)
          PROVE  WorkflowInv'
      BY <2>3, ReportKept
    <2> QED
      BY <1>3, <2>1, <2>2, <2>3 DEF Handler
  <1>4. CASE Calm
    BY <1>1, <1>2, <1>3, <1>4, SubmitKept, BeginKept DEF Calm
  <1>5. CASE Disturbance
    BY <1>5, SendFailKept, ApiCancelJobKept, CrashKept DEF Disturbance
  <1>6. CASE UNCHANGED vars
    <2>1. StoreInv /\ RecordInv /\ LockInv /\ SentInv
      BY DEF WorkflowInv
    <2>2. /\ UNCHANGED storeVars /\ wf' = wf /\ wfDisk' = wfDisk /\ lock' = lock
          /\ tick' = tick /\ reports' = reports
      BY <1>6 DEF vars, storeVars
    <2>3. Moved /\ NoNew /\ NoSkip
      BY <2>1, <2>2, StoreRests
    <2>4. TickOK /\ ReportsOK
      BY <2>1, <2>2, RunsRest
    <2> QED
      BY <2>2, <2>3, <2>4, Steady
  <1> QED
    BY <1>4, <1>5, <1>6 DEF Next

\* The invariant holds throughout every execution of the coordinator, whatever
\* fails, is cancelled or restarts.
THEOREM WorkflowInvariant == Spec => []WorkflowInv
  BY WorkflowInit, WorkflowNext, PTL DEF Spec

\* What buildEligibleSet found for a job holds when sendToNode sends it and
\* ever after: every dependency has ended as the job's condition wants.
THEOREM DependenciesHold == Spec => []DependenciesMet
  <1>1. WorkflowInv => DependenciesMet
    <2> SUFFICES ASSUME WorkflowInv, NEW j \in Jobs, reports[j] # "none",
                        NEW d \in wf.spec.dependsOn[j]
                 PROVE  CASE wf.spec.condition[j] = "on_success"  -> jobs[d].status = "completed"
                          [] wf.spec.condition[j] = "on_failure"  -> jobs[d].status = "failed"
                          [] wf.spec.condition[j] = "on_complete" ->
                                jobs[d].status \in
                                   {"completed", "failed", "lost", "cancelled", "skipped"}
      BY Zenon DEF DependenciesMet
    <2>1. wf.spec.condition[j] \in Conditions /\ d \in Jobs
      BY DEF WorkflowInv, RecordInv, WorkflowRecord, Template
    <2>2. jobs[d].status \notin {"timeout", "retrying"}
      BY <2>1 DEF WorkflowInv, RecordInv
    <2>3. isDependencySatisfied(jobs[d].status, wf.spec.condition[j])
      BY DEF WorkflowInv, SentInv, Met
    <2> QED
      BY <2>1, <2>2, <2>3, Zenon DEF isDependencySatisfied, IsTerminal, Conditions
  <1> QED
    BY <1>1, WorkflowInvariant, PTL

\* The cascade of OnJobCompleted skips only jobs that no node was asked to run
\* and that have a failed job above them.
THEOREM CascadeIsBelowFailure == Spec => []SkippedBelowFailure
  <1>1. WorkflowInv => SkippedBelowFailure
    BY DEF WorkflowInv, SkipInv, SkippedBelowFailure, Below
  <1> QED
    BY <1>1, WorkflowInvariant, PTL

\* When every save succeeds, the verdict of OnJobCompleted is the one the jobs
\* call for, it stays so, and the disk has it: no job that had ended when the
\* verdict was given changes, and none joins the workflow.
THEOREM VerdictIsRight ==
  ASSUME SaveResults = {TRUE}
  PROVE  Spec => []VerdictMatchesJobs
  <1>1. WorkflowInv => VerdictMatchesJobs
    BY DEF WorkflowInv, VerdictInv, VerdictMatchesJobs, Bad, WorkflowTerminal
  <1> QED
    BY <1>1, WorkflowInvariant, PTL

\* A completed workflow has only jobs that completed or were cancelled, and a
\* verdict on disk is the one in memory.
CompletedIsClean ==
    /\ wf.status = "completed" =>
          \A j \in wf.ids : jobs[j].status \in {"completed", "cancelled"}
    /\ WorkflowTerminal(wfDisk.status) => wf = wfDisk

\* Whatever saves fail and however often the coordinator restarts, the verdict
\* "completed" of OnJobCompleted is never given over a failed, lost or skipped
\* job, and none of its jobs becomes one.
THEOREM CompletedStaysClean == Spec => []CompletedIsClean
  <1>1. WorkflowInv => CompletedIsClean
    <2> SUFFICES ASSUME WorkflowInv PROVE CompletedIsClean
      OBVIOUS
    <2>1. wf.ids \subseteq Jobs
      BY DEF WorkflowInv, RecordInv, WorkflowRecord
    <2>2. \A j \in Jobs : jobs[j].status \notin {"timeout", "retrying"}
      BY DEF WorkflowInv, RecordInv
    <2> QED
      BY <2>1, <2>2 DEF WorkflowInv, VerdictInv, CompletedIsClean, Bad, IsTerminal
  <1> QED
    BY <1>1, WorkflowInvariant, PTL

=============================================================================
