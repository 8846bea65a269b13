------------------------------ MODULE Workflow ------------------------------
(***************************************************************************)
(* A workflow and its jobs:                                                *)
(*   internal/cluster/workflow_*.go, dag.go  WorkflowStore, the DAG rules  *)
(*   internal/cluster/dispatch.go            eligibility, input resolution *)
(*   internal/grpcserver/handlers.go         ReportResult and its callback *)
(* over the job store of JobStore.tla.                                     *)
(*                                                                         *)
(* WorkflowStore.mu is held across many critical sections of the job store *)
(* (Start submits job after job, OnJobCompleted skips, Cancel marks lost): *)
(* the variable lock says who holds it and what is left to do, and the     *)
(* loop, the reports and CancelJob run in between.                         *)
(*                                                                         *)
(* What a job is doing on its node is reduced to what reaches the          *)
(* coordinator (Dispatch.tla has the rest): the report of its end, or an   *)
(* error of the Dispatch RPC.  Jobs of a workflow carry no retry policy.   *)
(***************************************************************************)
EXTENDS JobStore, DagClosure

CONSTANTS
    Templates,  \* the workflows a client may submit
    NoJobID,    \* the loop, or the lock, holds no job
    Happens     \* what may happen besides successful runs, among HappenKinds

\* exit:      a job ends with a failure
\* rpc:       the Dispatch RPC of a job fails
\* noOutput:  a job succeeds without one of its declared outputs
\* cancelJob, cancelWorkflow: API calls
HappenKinds == {"exit", "rpc", "noOutput", "cancelJob", "cancelWorkflow"}

Conditions == {"on_success", "on_failure", "on_complete"}

\* dependsOn[j] and condition[j] as submitted; from[j]: the jobs whose outputs
\* j's inputs name in a from reference.
Template == [dependsOn : [Jobs -> SUBSET Jobs],
             condition : [Jobs -> Conditions],
             from      : [Jobs -> SUBSET Jobs]]

ASSUME WorkflowAssumption ==
    /\ Templates \subseteq Template
    /\ NoJobID \notin Jobs
    /\ Happens \subseteq HappenKinds

VARIABLES
    wf,        \* the workflow in memory
    wfDisk,    \* the workflow on disk
    submitted, \* handleSubmitWorkflow is between Submit and Start
    lock,      \* WorkflowStore.mu
    tick,      \* the dispatch loop
    reports,   \* reports[j]: where the only run of j and its report are
    sends,     \* jobs whose sendToNode has not returned
    outputs    \* completed jobs with all their declared outputs

wfVars == <<wf, wfDisk, submitted, lock>>
runVars == <<tick, reports, sends, outputs>>
vars == <<jobs, disk, cancels, wf, wfDisk, submitted, lock, tick, reports, sends, outputs>>

NoTemplate == [dependsOn |-> [j \in Jobs |-> {}], condition |-> [j \in Jobs |-> "on_success"],
               from |-> [j \in Jobs |-> {}]]

\* ids: the jobs whose WorkflowJob.JobID is set.
NoWorkflow == [status |-> "absent", spec |-> NoTemplate, ids |-> {}]

Free == [op |-> "free", job |-> NoJobID, todo |-> {}]

Idle == [pc |-> "idle", queue |-> {}, job |-> NoJobID]

WorkflowTerminal(s) == s \in {"completed", "failed", "cancelled"}

Init ==
    /\ StoreInit
    /\ wf = NoWorkflow /\ wfDisk = NoWorkflow
    /\ submitted = FALSE
    /\ lock = Free
    /\ tick = Idle
    /\ reports = [j \in Jobs |-> "none"]
    /\ sends = {} /\ outputs = {}

-----------------------------------------------------------------------------
(* The DAG (dag.go).                                                       *)

\* DagWalk.tla has the walks that compute these two closures, and the cycle
\* check is that of Kahn.tla.
Ancestors(t, j) == Reach(t.dependsOn, j)

\* Mutant: only the direct children.
Descendants_Direct(t, j) == {k \in Jobs : j \in t.dependsOn[k]}

Descendants(t, j) == Reach([d \in Jobs |-> {k \in Jobs : d \in t.dependsOn[k]}], j)

\* No cycle, and a from reference only to an ancestor, under on_success.
ValidateDAG(t) ==
    /\ \A j \in Jobs : j \notin Ancestors(t, j)
    /\ \A j \in Jobs : t.from[j] # {} =>
          /\ t.condition[j] = "on_success"
          /\ t.from[j] \subseteq Ancestors(t, j)

\* Mutant: on_complete also accepts a dependency that has merely left pending.
isDependencySatisfied_Started(s, condition) ==
    CASE condition = "on_success"  -> s = "completed"
      [] condition = "on_failure"  -> s \in {"failed", "timeout"}
      [] condition = "on_complete" -> s # "pending"

\* Mutant: a dependency that has ended will do, however it ended.
isDependencySatisfied_Ended(s, condition) == IsTerminal(s)

isDependencySatisfied(s, condition) ==
    CASE condition = "on_success"  -> s = "completed"
      [] condition = "on_failure"  -> s \in {"failed", "timeout"}
      [] condition = "on_complete" -> IsTerminal(s)

EligibleJobs ==
    {j \in wf.ids :
        /\ wf.status = "running"
        /\ jobs[j].status = "pending"
        /\ \A d \in wf.spec.dependsOn[j] :
              d \in wf.ids /\ isDependencySatisfied(jobs[d].status, wf.spec.condition[j])}

-----------------------------------------------------------------------------
(* Submit and Start, called in turn by handleSubmitWorkflow.               *)

\* SaveWorkflow: the callers below keep the new record in memory when it fails.
SaveWorkflow(rec, saved) ==
    /\ wf' = rec
    /\ wfDisk' = IF saved THEN rec ELSE wfDisk

WorkflowSubmit(t, saved) ==
    /\ lock = Free
    /\ wf.status = "absent"
    /\ ValidateDAG(t)
    /\ LET rec == [status |-> "pending", spec |-> t, ids |-> {}]
       IN IF saved THEN SaveWorkflow(rec, TRUE) ELSE UNCHANGED <<wf, wfDisk>>
    /\ submitted' = saved
    /\ UNCHANGED <<storeVars, lock, runVars>>

\* Start takes the lock, or returns an error if the workflow was cancelled.
StartBegin ==
    /\ submitted
    /\ lock = Free
    /\ submitted' = FALSE
    /\ lock' = IF wf.status = "pending" THEN [op |-> "start", job |-> NoJobID, todo |-> Jobs]
                                        ELSE lock
    /\ UNCHANGED <<storeVars, wf, wfDisk, runVars>>

\* The next job is created; the order of the list is the client's.  When its
\* SaveJob fails the workflow fails, and the jobs created so far stay.
StartJob(j, saved, wfSaved) ==
    /\ lock.op = "start"
    /\ j \in lock.todo
    /\ Submit(j, 0, saved)
    /\ LET rec == [wf EXCEPT !.ids = @ \cup {j}] IN
       IF saved
       THEN /\ wf' = rec
            /\ lock' = [lock EXCEPT !.todo = @ \ {j}]
            /\ UNCHANGED wfDisk
       ELSE /\ SaveWorkflow([rec EXCEPT !.status = "failed"], wfSaved)
            /\ lock' = Free
    /\ UNCHANGED <<cancels, submitted, runVars>>

StartEnd(wfSaved) ==
    /\ lock.op = "start"
    /\ lock.todo = {}
    /\ SaveWorkflow([wf EXCEPT !.status = "running"], wfSaved)
    /\ lock' = Free
    /\ UNCHANGED <<storeVars, submitted, runVars>>

-----------------------------------------------------------------------------
(* OnJobCompleted.                                                         *)

\* Mutant: the cascade does not ask how the job ended.
OnJobCompleted_Always(j) ==
    /\ reports[j] = "callback"
    /\ lock = Free
    /\ lock' = IF wf.status = "running" /\ j \in wf.ids
               THEN [op |-> "completed", job |-> j,
                     todo |-> {k \in Descendants(wf.spec, j) \cap wf.ids :
                                 wf.spec.condition[k] = "on_success"}]
               ELSE lock
    /\ reports' = [reports EXCEPT ![j] = "done"]
    /\ UNCHANGED <<storeVars, wf, wfDisk, submitted, tick, sends, outputs>>

\* Called by ReportResult with the status it has just recorded; a workflow
\* that is not running, or does not know the job, is left alone.  On a failure
\* every descendant under on_success is to be skipped.
OnJobCompleted(j) ==
    /\ reports[j] = "callback"
    /\ lock = Free
    /\ IF wf.status = "running" /\ j \in wf.ids
       THEN lock' = [op |-> "completed", job |-> j,
                     todo |-> IF jobs[j].status \in {"failed", "timeout", "lost"}
                              THEN {k \in Descendants(wf.spec, j) \cap wf.ids :
                                       wf.spec.condition[k] = "on_success"}
                              ELSE {}]
       ELSE lock' = lock
    /\ reports' = [reports EXCEPT ![j] = "done"]
    /\ UNCHANGED <<storeVars, wf, wfDisk, submitted, tick, sends, outputs>>

\* One Transition of the cascade; its error is ignored.
SkipJob(k, saved) ==
    /\ lock.op = "completed"
    /\ k \in lock.todo
    /\ IF CanTransition(k, "skipped") THEN Transition(k, "skipped", NoNode, saved)
                                      ELSE UNCHANGED <<jobs, disk>>
    /\ lock' = [lock EXCEPT !.todo = @ \ {k}]
    /\ UNCHANGED <<cancels, wf, wfDisk, submitted, runVars>>

\* Mutant: the scan stops at the first job that succeeded.
Verdict_Early ==
    IF \A k \in wf.ids : ~IsTerminal(jobs[k].status) THEN "running"
    ELSE IF \E k \in wf.ids : jobs[k].status \in {"failed", "timeout", "lost", "skipped"}
    THEN "failed" ELSE "completed"

\* The scan of the jobs.  A terminal status does not change, so reading them
\* one after the other is reading them at once.
Verdict ==
    IF \E k \in wf.ids : ~IsTerminal(jobs[k].status) THEN "running"
    ELSE IF \E k \in wf.ids : jobs[k].status \in {"failed", "timeout", "lost", "skipped"}
    THEN "failed" ELSE "completed"

CompletedEnd(wfSaved) ==
    /\ lock.op = "completed"
    /\ lock.todo = {}
    /\ IF Verdict = "running" THEN UNCHANGED <<wf, wfDisk>>
                              ELSE SaveWorkflow([wf EXCEPT !.status = Verdict], wfSaved)
    /\ lock' = Free
    /\ UNCHANGED <<storeVars, submitted, runVars>>

-----------------------------------------------------------------------------
(* Cancel.                                                                 *)

CancelBegin ==
    /\ "cancelWorkflow" \in Happens
    /\ lock = Free
    /\ wf.status # "absent"
    /\ ~WorkflowTerminal(wf.status)
    /\ lock' = [op |-> "cancel", job |-> NoJobID, todo |-> wf.ids]
    /\ UNCHANGED <<storeVars, wf, wfDisk, submitted, runVars>>

CancelMark(k, saved) ==
    /\ lock.op = "cancel"
    /\ k \in lock.todo
    /\ IF IsTerminal(jobs[k].status) THEN UNCHANGED <<jobs, disk>> ELSE MarkLost(k, saved)
    /\ lock' = [lock EXCEPT !.todo = @ \ {k}]
    /\ UNCHANGED <<cancels, wf, wfDisk, submitted, runVars>>

CancelEnd(wfSaved) ==
    /\ lock.op = "cancel"
    /\ lock.todo = {}
    /\ SaveWorkflow([wf EXCEPT !.status = "cancelled"], wfSaved)
    /\ lock' = Free
    /\ UNCHANGED <<storeVars, submitted, runVars>>

LockStep ==
    \/ \E saved \in SaveResults :
          \/ StartEnd(saved) \/ CompletedEnd(saved) \/ CancelEnd(saved)
          \/ \E j \in Jobs : SkipJob(j, saved) \/ CancelMark(j, saved)
          \/ \E j \in Jobs, wfSaved \in SaveResults : StartJob(j, saved, wfSaved)

-----------------------------------------------------------------------------
(* The dispatch loop.                                                      *)

\* buildEligibleSet, then the snapshot of pending jobs: a job of a workflow
\* never comes back to pending, so the two reads are one.
TickStart ==
    /\ tick.pc = "idle"
    /\ lock = Free
    /\ EligibleJobs # {}
    /\ tick' = [Idle EXCEPT !.pc = "pick", !.queue = EligibleJobs]
    /\ UNCHANGED <<storeVars, wfVars, reports, sends, outputs>>

TickEnd ==
    /\ tick.pc = "pick"
    /\ tick.queue = {}
    /\ tick' = Idle
    /\ UNCHANGED <<storeVars, wfVars, reports, sends, outputs>>

\* ResolveJobInputs: every upstream completed, with the output.
Resolves(j) ==
    \A u \in wf.spec.from[j] : jobs[u].status = "completed" /\ u \in outputs

\* A job with from references is rewritten (UpdateResolvedInputs), or fails.
TickResolve(j, saved, failSaved) ==
    /\ tick.pc = "pick"
    /\ j \in tick.queue
    /\ LET refs == wf.spec.from[j] # {}
           ok   == ~refs \/ (Resolves(j) /\ saved) IN
       /\ IF ok
          THEN IF refs THEN UpdateResolvedInputs(j, TRUE) ELSE UNCHANGED <<jobs, disk>>
          ELSE IF CanTransition(j, "failed") THEN Transition(j, "failed", NoNode, failSaved)
                                             ELSE UNCHANGED <<jobs, disk>>
       /\ tick' = [pc |-> IF ok THEN "schedule" ELSE "pick",
                   queue |-> tick.queue \ {j}, job |-> IF ok THEN j ELSE NoJobID]
    /\ UNCHANGED <<cancels, wfVars, reports, sends, outputs>>

\* pending -> scheduled; an error (cancelled, skipped or lost meanwhile) moves on.
TickSchedule(n, saved) ==
    /\ tick.pc = "schedule"
    /\ LET can == CanTransition(tick.job, "scheduled") IN
       /\ IF can THEN Transition(tick.job, "scheduled", n, saved) ELSE UNCHANGED <<jobs, disk>>
       /\ tick' = IF can /\ saved THEN [tick EXCEPT !.pc = "send"]
                                  ELSE [tick EXCEPT !.pc = "pick", !.job = NoJobID]
    /\ UNCHANGED <<cancels, wfVars, reports, sends, outputs>>

\* scheduled -> dispatching, then the goroutine of sendToNode.
TickSend(saved) ==
    /\ tick.pc = "send"
    /\ LET j   == tick.job
           can == CanTransition(j, "dispatching") IN
       /\ IF can THEN Transition(j, "dispatching", NoNode, saved) ELSE UNCHANGED <<jobs, disk>>
       /\ reports' = IF can /\ saved THEN [reports EXCEPT ![j] = "sent"] ELSE reports
       /\ sends' = IF can /\ saved THEN sends \cup {j} ELSE sends
    /\ tick' = [tick EXCEPT !.pc = "pick", !.job = NoJobID]
    /\ UNCHANGED <<cancels, wfVars, outputs>>

Loop ==
    \/ TickStart
    \/ TickEnd
    \/ \E saved \in SaveResults :
          \/ TickSend(saved)
          \/ \E n \in Nodes : TickSchedule(n, saved)
          \/ \E j \in Jobs, failSaved \in SaveResults : TickResolve(j, saved, failSaved)

-----------------------------------------------------------------------------
(* The ends of a run at the coordinator.                                   *)

\* ReportResult of a job in dispatching: the step to running.
ReportRunning(j, saved) ==
    /\ reports[j] = "sent"
    /\ LET can == CanTransition(j, "running") IN
       /\ IF can THEN Transition(j, "running", NoNode, saved) ELSE UNCHANGED <<jobs, disk>>
       /\ reports' = [reports EXCEPT ![j] = IF can /\ saved THEN "toFinal" ELSE "done"]
    /\ UNCHANGED <<cancels, wfVars, tick, sends, outputs>>

\* The final status with the attested outputs.  There is nothing to retry, so
\* the callback comes next.
ReportFinal(j, target, complete, saved) ==
    /\ reports[j] = "toFinal"
    /\ target = "failed" => "exit" \in Happens
    /\ complete \/ "noOutput" \in Happens
    /\ LET can == CanTransition(j, target) IN
       /\ IF can THEN Transition(j, target, NoNode, saved) ELSE UNCHANGED <<jobs, disk>>
       /\ reports' = [reports EXCEPT ![j] = IF can /\ saved THEN "callback" ELSE "done"]
       /\ outputs' = IF can /\ saved /\ target = "completed" /\ complete
                     THEN outputs \cup {j} ELSE outputs
    /\ UNCHANGED <<cancels, wfVars, tick, sends>>

Handler(j) ==
    \/ OnJobCompleted(j)
    \/ \E saved \in SaveResults :
          \/ ReportRunning(j, saved)
          \/ \E target \in {"completed", "failed"}, complete \in BOOLEAN :
                ReportFinal(j, target, complete, saved)

\* sendToNode holds an error: the job fails if its status lets it, and nobody
\* calls OnJobCompleted.  When the request did not arrive no report follows.
SendFail(j, arrived, saved) ==
    /\ "rpc" \in Happens
    /\ j \in sends
    /\ IF CanTransition(j, "failed") THEN Transition(j, "failed", NoNode, saved)
                                     ELSE UNCHANGED <<jobs, disk>>
    /\ sends' = sends \ {j}
    /\ reports' = IF arrived \/ reports[j] # "sent" THEN reports
                  ELSE [reports EXCEPT ![j] = "done"]
    /\ UNCHANGED <<cancels, wfVars, tick, outputs>>

-----------------------------------------------------------------------------
(* The job API, and a restart.                                             *)

ApiCancelJob ==
    /\ "cancelJob" \in Happens
    /\ \/ \E j \in Jobs : CancelJob(j)
       \/ \E c \in cancels, saved \in SaveResults : CancelAct(c, saved)
    /\ UNCHANGED <<wfVars, runVars>>

\* The handlers and the loop are gone; a report that had not come yet may still
\* come.  Restore loads the workflow as it is on disk, and nobody starts it.
CoordinatorCrash ==
    /\ CrashRestore
    /\ wf' = wfDisk
    /\ submitted' = FALSE
    /\ lock' = Free
    /\ tick' = Idle
    /\ reports' = [j \in Jobs |-> IF reports[j] \in {"toFinal", "callback"}
                                  THEN "done" ELSE reports[j]]
    /\ sends' = {}
    /\ UNCHANGED <<wfDisk, outputs>>

\* What the API, the WorkflowStore, the loop and the nodes do when all goes well.
Calm ==
    \/ \E t \in Templates, saved \in SaveResults : WorkflowSubmit(t, saved)
    \/ StartBegin
    \/ CancelBegin
    \/ LockStep
    \/ Loop
    \/ \E j \in Jobs : Handler(j)

\* What comes between: a failed RPC, a cancelled job, a restart.
Disturbance ==
    \/ \E j \in Jobs, arrived \in BOOLEAN, saved \in SaveResults : SendFail(j, arrived, saved)
    \/ ApiCancelJob
    \/ CoordinatorCrash

Next == Calm \/ Disturbance

Spec == Init /\ [][Next]_vars

\* The request handler goes on from Submit to Start, the holder of the mutex
\* finishes, the loop ticks, and every run ends and is reported.
Fairness ==
    /\ WF_vars(StartBegin)
    /\ WF_vars(LockStep)
    /\ WF_vars(Loop)
    /\ \A j \in Jobs : WF_vars(Handler(j))

FairSpec == Spec /\ Fairness

\* Behaviours that nothing disturbs.
CalmSpec == Init /\ [][Calm]_vars /\ Fairness

-----------------------------------------------------------------------------
(* Properties.                                                             *)

\* Both copies of the workflow are well formed, and the lock is held exactly
\* while an operation of the WorkflowStore has something left to do.
WorkflowTypeOK ==
    /\ StoreTypeOK
    /\ \A w \in {wf, wfDisk} :
          /\ w.status \in {"absent", "pending", "running", "completed", "failed", "cancelled"}
          /\ w.spec \in Template
          /\ w.ids \subseteq Jobs
    /\ submitted \in BOOLEAN
    /\ lock.op \in {"free", "start", "completed", "cancel"}
    /\ lock.todo \subseteq Jobs
    /\ (lock.job # NoJobID) = (lock.op = "completed")
    /\ tick.pc \in {"idle", "pick", "schedule", "send"}
    /\ tick.queue \subseteq Jobs
    /\ IF tick.pc \in {"schedule", "send"} THEN tick.job \in Jobs ELSE tick.job = NoJobID
    /\ reports \in [Jobs -> {"none", "sent", "toFinal", "callback", "done"}]
    /\ sends \subseteq Jobs
    /\ outputs \subseteq Jobs

\* A job is sent to a node only once each of its dependencies has ended in a
\* way its condition accepts, and what it was sent for stays true: eligibility
\* is decided at the start of a tick and used two transitions later.
DependenciesMet ==
    \A j \in Jobs : reports[j] # "none" =>
        \A d \in wf.spec.dependsOn[j] :
            CASE wf.spec.condition[j] = "on_success"  -> jobs[d].status = "completed"
              [] wf.spec.condition[j] = "on_failure"  -> jobs[d].status = "failed"
              [] wf.spec.condition[j] = "on_complete" ->
                    jobs[d].status \in {"completed", "failed", "lost", "cancelled", "skipped"}

\* Only the jobs below a failed one are skipped, and a skipped job was never
\* sent to a node, whatever the loop was doing when the cascade came.
SkippedBelowFailure ==
    \A k \in Jobs : jobs[k].status = "skipped" =>
        /\ reports[k] = "none"
        /\ \E j \in Ancestors(wf.spec, k) : jobs[j].status = "failed"

\* The verdict is right: completed only if no job failed, was lost or skipped,
\* failed only if one was, and both are recorded on disk with the jobs.
VerdictMatchesJobs ==
    LET bad == {j \in wf.ids : jobs[j].status \in {"failed", "lost", "skipped"}} IN
    /\ wf.status = "completed" => bad = {}
    /\ wf.status = "failed" => bad # {}
    /\ wf.status \in {"completed", "failed"} => wfDisk = wf

\* A submitted workflow finishes, cancelled or not, when its jobs can only end
\* by a report: none waits for a failure (on_failure) and none can fail before
\* it is sent (a from reference that does not resolve).
WorkflowEnds ==
    /\ wf.status = "pending"
    /\ \A j \in Jobs : wf.spec.from[j] = {} /\ wf.spec.condition[j] # "on_failure"
    ~> WorkflowTerminal(wf.status)

\* components.md:95 "When all jobs in a workflow reach a terminal state, the
\* workflow is marked completed ... or failed".
AllDoneFinishes ==
    wf.status = "running" /\ (\A j \in Jobs : IsTerminal(jobs[j].status))
        ~> WorkflowTerminal(wf.status)

\* components.md:96 "completed (all succeeded)".
CompletedMeansAllSucceeded ==
    wf.status = "completed" => \A j \in wf.ids : jobs[j].status = "completed"

\* workflow_lifecycle.go:133 "if this job failed and downstream jobs depend on
\* it with on_success condition": a skipped job has a dependency that did not
\* succeed.
SkippedOnlyWhenBlocked ==
    \A k \in Jobs : jobs[k].status = "skipped" =>
        \E d \in wf.spec.dependsOn[k] :
            jobs[d].status \in {"failed", "lost", "skipped", "cancelled"}

\* components.md:97 "marks all non-terminal jobs as lost and transitions the
\* workflow to cancelled".
CancelledLeavesNoJob ==
    wf.status = "cancelled" =>
        \A j \in Jobs : Exists(j) => IsTerminal(jobs[j].status)

=============================================================================
