------------------------------ MODULE Recovery ------------------------------
(***************************************************************************)
(* internal/cluster/recovery.go: RecoveryManager.Run, and resetToPending   *)
(* of job_transition.go, over the job store of JobStore.tla, after a       *)
(* restart.  The store holds what Restore loaded: jobs in any state that   *)
(* the disk may be in, some of them still run by a node of before the      *)
(* crash.                                                                  *)
(*                                                                         *)
(* The Dispatcher is an interface that only tests implement, by the        *)
(* Dispatch RPC: it starts the job on a node and returns later, so the     *)
(* node may report a result before the call returns.  The reports are      *)
(* handled by ReportResult (internal/grpcserver/handlers.go), one critical *)
(* section of the store per step; Dispatch.tla has that handler in full.   *)
(***************************************************************************)
EXTENDS JobStore

CONSTANTS
    NoJobID,     \* the manager holds no job
    RpcFails,    \* whether a Dispatch call may fail
    CtxCancelled \* whether the context of Run may be cancelled

RecoveryAssumption == RpcFails \in BOOLEAN /\ CtxCancelled \in BOOLEAN

VARIABLES
    run,     \* the goroutine of RecoveryManager.Run
    runs,    \* the runs of jobs on nodes and their reports
    broken   \* jobs for which a SaveJob has failed since the restart

vars == <<jobs, disk, cancels, run, runs, broken>>

\* job, node and seen are recoverOne's job, nodeID and current.Status.
Run == [pc   : {"start", "grace", "next", "send", "wait", "reset", "assign", "lost",
                "done", "cancelled"},
        todo : SUBSET Jobs,
        job  : Jobs \cup {NoJobID},
        node : Nodes \cup {NoNode},
        seen : Status \cup {"absent"}]

Step(pc, todo) == [pc |-> pc, todo |-> todo, job |-> NoJobID, node |-> NoNode, seen |-> "absent"]

\* by:     started before the crash or by the manager
\* report: the run goes on, or its ReportResult is at one of its sections
NodeRun == [job : Jobs, node : Nodes, by : {"old", "manager"},
            report : {"none", "get", "toRunning", "toFinal", "retry"}]

Restored(s, max, n) ==
    [NewJob(max) EXCEPT !.status = s,
                        !.node = IF s \in {"pending", "retrying"} THEN NoNode ELSE n]

Init ==
    /\ jobs \in [Jobs -> {NoJob} \cup
                   {Restored(s, max, n) : s \in Status \ {"timeout"}, max \in RetryLimits,
                                          n \in Nodes}]
    /\ disk = jobs
    /\ cancels = {}
    /\ run = Step("start", {})
    /\ runs \in SUBSET {[job |-> j, node |-> jobs[j].node, by |-> "old", report |-> "none"] :
                          j \in {k \in Jobs : jobs[k].status \in {"dispatching", "running"}}}
    /\ broken = {}

Spoil(j, saved) == broken' = IF saved THEN broken ELSE broken \cup {j}

-----------------------------------------------------------------------------
(* Run and recoverOne.                                                     *)

\* The snapshot of NonTerminal(); with nothing to recover Run returns.
RunStart ==
    /\ run.pc = "start"
    /\ LET todo == {j \in Jobs : Exists(j) /\ ~IsTerminal(jobs[j].status)}
       IN run' = Step(IF todo = {} THEN "done" ELSE "grace", todo)
    /\ UNCHANGED <<storeVars, runs, broken>>

\* The grace period passes, or the context ends first; between two jobs the
\* context is looked at again.
RunGrace ==
    /\ run.pc = "grace"
    /\ run' = Step("next", run.todo)
    /\ UNCHANGED <<storeVars, runs, broken>>

RunCancelled ==
    /\ CtxCancelled
    /\ run.pc = "grace" \/ (run.pc = "next" /\ run.todo # {})
    /\ run' = Step("cancelled", run.todo)
    /\ UNCHANGED <<storeVars, runs, broken>>

RunDone ==
    /\ run.pc = "next"
    /\ run.todo = {}
    /\ run' = Step("done", {})
    /\ UNCHANGED <<storeVars, runs, broken>>

\* The second look at the job: one that has ended meanwhile is skipped.
RecoverGet(j) ==
    /\ run.pc = "next"
    /\ j \in run.todo
    /\ run' = IF IsTerminal(jobs[j].status) THEN Step("next", run.todo \ {j})
              ELSE [pc |-> "send", todo |-> run.todo \ {j}, job |-> j, node |-> NoNode,
                    seen |-> jobs[j].status]
    /\ UNCHANGED <<storeVars, runs, broken>>

\* Dispatcher.Dispatch: the node has the job, then the call returns.
RecoverSend(n) ==
    /\ run.pc = "send"
    /\ runs' = runs \cup {[job |-> run.job, node |-> n, by |-> "manager", report |-> "none"]}
    /\ run' = [run EXCEPT !.pc = "wait", !.node = n]
    /\ UNCHANGED <<storeVars, broken>>

RecoverSent ==
    /\ run.pc = "wait"
    /\ run' = [run EXCEPT !.pc = IF run.seen = "pending" THEN "assign" ELSE "reset"]
    /\ UNCHANGED <<storeVars, runs, broken>>

\* No healthy node, or an RPC that fails before or after the job started.
RecoverNotSent ==
    /\ RpcFails
    /\ run.pc \in {"send", "wait"}
    /\ run' = [run EXCEPT !.pc = "lost"]
    /\ UNCHANGED <<storeVars, runs, broken>>

RecoverLost(saved) ==
    /\ run.pc = "lost"
    /\ IF IsTerminal(jobs[run.job].status) THEN UNCHANGED <<jobs, disk, broken>>
       ELSE MarkLost(run.job, saved) /\ Spoil(run.job, saved)
    /\ run' = Step("next", run.todo)
    /\ UNCHANGED <<cancels, runs>>

\* Mutant: the terminal check is dropped.
resetToPending_Forced(saved) ==
    LET j == run.job IN
    /\ run.pc = "reset"
    /\ SaveJob(j, [jobs[j] EXCEPT !.status = "pending"],
                  [jobs[j] EXCEPT !.status = "dispatching"], saved)
    /\ Spoil(j, saved)
    /\ run' = IF saved THEN [run EXCEPT !.pc = "assign"] ELSE Step("next", run.todo)
    /\ UNCHANGED <<cancels, runs>>

\* resetToPending: back to pending around the transition table.  Its error
\* path writes dispatching, whatever the status was.
resetToPending(saved) ==
    LET j    == run.job
        skip == jobs[j].status = "pending" \/ IsTerminal(jobs[j].status) IN
    /\ run.pc = "reset"
    /\ IF skip THEN UNCHANGED <<jobs, disk, broken>>
       ELSE /\ SaveJob(j, [jobs[j] EXCEPT !.status = "pending"],
                          [jobs[j] EXCEPT !.status = "dispatching"], saved)
            /\ Spoil(j, saved)
    /\ run' = IF skip \/ saved THEN [run EXCEPT !.pc = "assign"] ELSE Step("next", run.todo)
    /\ UNCHANGED <<cancels, runs>>

RecoverAssign(saved) ==
    /\ run.pc = "assign"
    /\ IF CanTransition(run.job, "dispatching")
       THEN Transition(run.job, "dispatching", run.node, saved) /\ Spoil(run.job, saved)
       ELSE UNCHANGED <<jobs, disk, broken>>
    /\ run' = Step("next", run.todo)
    /\ UNCHANGED <<cancels, runs>>

Manager ==
    \/ RunStart \/ RunGrace \/ RunCancelled \/ RunDone
    \/ \E j \in Jobs : RecoverGet(j)
    \/ \E n \in Nodes : RecoverSend(n)
    \/ RecoverSent \/ RecoverNotSent
    \/ \E saved \in SaveResults : RecoverLost(saved) \/ resetToPending(saved) \/ RecoverAssign(saved)

-----------------------------------------------------------------------------
(* The nodes and ReportResult.                                             *)

Move(r, pc) == runs' = (runs \ {r}) \cup (IF pc = "done" THEN {} ELSE {[r EXCEPT !.report = pc]})

\* The run ends and its report arrives.
NodeReport(r) ==
    /\ r.report = "none"
    /\ Move(r, "get")
    /\ UNCHANGED <<storeVars, run, broken>>

\* The job is read once; the report of a node the job is not assigned to is
\* refused.
ReportGet(r) ==
    /\ r.report = "get"
    /\ Move(r, IF jobs[r.job].node # NoNode /\ jobs[r.job].node # r.node THEN "done"
               ELSE IF jobs[r.job].status = "dispatching" THEN "toRunning" ELSE "toFinal")
    /\ UNCHANGED <<storeVars, run, broken>>

ReportTransition(r, from, to, next, saved) ==
    /\ r.report = from
    /\ IF CanTransition(r.job, to)
       THEN Transition(r.job, to, r.node, saved) /\ Spoil(r.job, saved)
       ELSE UNCHANGED <<jobs, disk, broken>>
    /\ Move(r, IF CanTransition(r.job, to) /\ saved THEN next ELSE "done")
    /\ UNCHANGED <<cancels, run>>

ReportRetry(r, first, second) ==
    /\ r.report = "retry"
    /\ IF CanRetry(r.job)
       THEN RetryIfEligible(r.job, first, second) /\ Spoil(r.job, first /\ second)
       ELSE UNCHANGED <<jobs, disk, broken>>
    /\ Move(r, "done")
    /\ UNCHANGED <<cancels, run>>

Report(r) ==
    \/ NodeReport(r) \/ ReportGet(r)
    \/ \E saved \in SaveResults :
          \/ ReportTransition(r, "toRunning", "running", "toFinal", saved)
          \/ \E to \in {"completed", "failed"} :
                ReportTransition(r, "toFinal", to, "retry", saved)
          \/ \E second \in SaveResults : ReportRetry(r, saved, second)

ApiCancel ==
    /\ \/ \E j \in Jobs : CancelJob(j) /\ UNCHANGED broken
       \/ \E c \in cancels, saved \in SaveResults :
             CancelAct(c, saved) /\ Spoil(c.job, saved)
    /\ UNCHANGED <<run, runs>>

Next == Manager \/ (\E r \in runs : Report(r)) \/ ApiCancel

Spec == Init /\ [][Next]_vars

\* The goroutines of the coordinator run, and a job ends on its node.
Fairness == WF_vars(Manager) /\ \A r \in NodeRun : WF_vars(Report(r) /\ r \in runs)

FairSpec == Spec /\ Fairness

-----------------------------------------------------------------------------
(* Properties.                                                             *)

\* The store keeps its types, and the manager holds a job exactly while it is
\* inside recoverOne.
RecoveryTypeOK ==
    /\ StoreTypeOK
    /\ run \in Run
    /\ (run.job # NoJobID) <=> (run.pc \in {"send", "wait", "reset", "assign", "lost"})
    /\ runs \subseteq NodeRun
    /\ broken \subseteq Jobs

\* That ended jobs stay as they are through resetToPending, the one change of
\* status that goes around the transition table, is EndedStaysEnded in MCJobs.

\* tests/integration/crash_recovery_test.go:548 "the design doc requires the
\* job reaches terminal state after restart": with no fault at all, every job
\* that was open at the restart ends.
RecoveredJobsEnd ==
    \A j \in Jobs : [](Exists(j) => <>IsTerminal(jobs[j].status))

=============================================================================
