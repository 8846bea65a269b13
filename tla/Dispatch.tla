------------------------------ MODULE Dispatch ------------------------------
(***************************************************************************)
(* The life of a job between the coordinator and the nodes:               *)
(*   internal/cluster/dispatch.go         the dispatch loop, sendToNode    *)
(*   internal/cluster/node_dispatcher.go  the Dispatch RPC and its timeout *)
(*   internal/nodeserver/server.go        Dispatch and reportResult        *)
(*   internal/grpcserver/handlers.go      ReportResult                     *)
(* over the job store of JobStore.tla.                                     *)
(*                                                                         *)
(* The processes are the loop (tick), one goroutine of sendToNode, one     *)
(* execution on the node and one ReportResult handler for every dispatch   *)
(* (a flight), the API calls Submit and CancelJob, and the environment.    *)
(* A step is a critical section of the job store, or one message.          *)
(*                                                                         *)
(* Jobs here are standalone (no workflow), so ResolveJobInputs returns     *)
(* them unchanged; Workflow.tla has the others.  The loop walks its        *)
(* snapshot in any order: the code's order (priority, then age) is one.    *)
(***************************************************************************)
EXTENDS JobStore, Sequences

CONSTANTS
    ServiceJobs,  \* jobs that may have a service block
    Matches,    \* Matches[j]: nodes that satisfy j's selector and GPU request
    NoJobID,    \* the loop holds no job
    Faults      \* what may go wrong, among FaultKinds

\* rpc:    the Dispatch RPC fails or times out at the coordinator
\* report: a ReportResult call does not reach the coordinator
\* node:   the node process dies with what it runs
\* health: nodes lose and regain their health in the registry
FaultKinds == {"rpc", "report", "node", "health"}

ASSUME DispatchAssumption ==
    /\ ServiceJobs \subseteq Jobs
    /\ Matches \in [Jobs -> SUBSET Nodes]
    /\ Faults \subseteq FaultKinds

VARIABLES
    backoff,    \* jobs whose RetryAfter is in the future
    up,         \* nodes the scheduler sees as healthy
    services,   \* jobs with a service block: the node acks before it runs them
    tick,       \* the dispatch loop
    flights     \* flights[j]: the dispatches of j, oldest first

loopVars == <<backoff, up, services, tick, flights>>

vars == <<jobs, disk, cancels, backoff, up, services, tick, flights>>

\* send:   the goroutine of sendToNode: in the RPC, holding an error, finished
\* exec:   the node: request not arrived, running, in reportResult, about to
\*         reply, gone
\* result: how the run ended; "reject" is every path that reports a failure
\*         and then replies Accepted = false (staging or runtime error)
\* report: the ReportResult handler: not called, then its critical sections
Flight == [attempt : Nat, node : Nodes,
           send    : {"calling", "error", "done"},
           exec    : {"none", "running", "reporting", "replying", "gone"},
           result  : {"none", "ok", "exit", "reject"},
           report  : {"none", "get", "toRunning", "toFinal", "retry", "done"}]

NewFlight(j, n) ==
    [attempt |-> jobs[j].attempt, node |-> n, send |-> "calling",
     exec |-> "none", result |-> "none", report |-> "none"]

IdleTick == [pc |-> "idle", queue |-> {}, job |-> NoJobID, node |-> NoNode]

Init ==
    /\ StoreInit
    /\ backoff = {}
    /\ up = Nodes
    /\ services \in SUBSET ServiceJobs
    /\ tick = IdleTick
    /\ flights = [j \in Jobs |-> <<>>]

-----------------------------------------------------------------------------
(* The dispatch loop: one tick is a walk over a snapshot of pending jobs.  *)

TickStart ==
    /\ tick.pc = "idle"
    /\ tick' = [IdleTick EXCEPT
                  !.pc = "pick",
                  !.queue = {j \in Jobs : jobs[j].status = "pending" /\ j \notin backoff}]
    /\ UNCHANGED <<storeVars, backoff, up, services, flights>>

\* The next job of the snapshot, a node for it, and pending -> scheduled.  An
\* error of Transition (the job was cancelled meanwhile) moves on.
TickPick(j, n, saved) ==
    /\ tick.pc = "pick"
    /\ j \in tick.queue
    /\ n \in up \cap Matches[j]
    /\ IF CanTransition(j, "scheduled")
       THEN Transition(j, "scheduled", n, saved)
       ELSE UNCHANGED <<jobs, disk>>
    /\ tick' = IF CanTransition(j, "scheduled") /\ saved
               THEN [pc |-> "send", queue |-> tick.queue \ {j}, job |-> j, node |-> n]
               ELSE [tick EXCEPT !.queue = @ \ {j}]
    /\ UNCHANGED <<cancels, backoff, up, services, flights>>

\* Mutant: the tick gives up at the first job that no node matches.
TickSkip_Return(j) ==
    /\ tick.pc = "pick"
    /\ j \in tick.queue
    /\ up # {}
    /\ up \cap Matches[j] = {}
    /\ tick' = IdleTick
    /\ UNCHANGED <<storeVars, backoff, up, services, flights>>

\* Healthy nodes exist, none matches: the job stays pending (continue).
TickSkip(j) ==
    /\ tick.pc = "pick"
    /\ j \in tick.queue
    /\ up # {}
    /\ up \cap Matches[j] = {}
    /\ tick' = [tick EXCEPT !.queue = @ \ {j}]
    /\ UNCHANGED <<storeVars, backoff, up, services, flights>>

\* The snapshot is done, or there is no healthy node at all (return).
TickEnd ==
    /\ tick.pc = "pick"
    /\ tick.queue = {} \/ up = {}
    /\ tick' = IdleTick
    /\ UNCHANGED <<storeVars, backoff, up, services, flights>>

\* scheduled -> dispatching, then the goroutine of sendToNode.
TickSend(saved) ==
    /\ tick.pc = "send"
    /\ LET can == CanTransition(tick.job, "dispatching") IN
       /\ IF can THEN Transition(tick.job, "dispatching", tick.node, saved)
                 ELSE UNCHANGED <<jobs, disk>>
       /\ flights' = IF can /\ saved
                     THEN [flights EXCEPT ![tick.job] =
                             Append(@, NewFlight(tick.job, tick.node))]
                     ELSE flights
    /\ tick' = [tick EXCEPT !.pc = "pick", !.job = NoJobID, !.node = NoNode]
    /\ UNCHANGED <<cancels, backoff, up, services>>

Loop ==
    \/ TickStart
    \/ \E j \in Jobs, n \in Nodes, saved \in SaveResults : TickPick(j, n, saved)
    \/ \E j \in Jobs : TickSkip(j)
    \/ TickEnd
    \/ \E saved \in SaveResults : TickSend(saved)

-----------------------------------------------------------------------------
(* The node: the Dispatch handler and the report it makes before replying. *)

Update(j, i, f) == flights' = [flights EXCEPT ![j] = [@ EXCEPT ![i] = f]]

\* The request arrives.
NodeReceive(j, i) ==
    LET f == flights[j][i] IN
    /\ f.exec = "none"
    /\ f.send = "calling"
    /\ Update(j, i, [f EXCEPT !.exec = "running"])
    /\ UNCHANGED <<storeVars, backoff, up, services, tick>>

\* A service is acked at once, whatever becomes of it.
NodeAck(j, i) ==
    LET f == flights[j][i] IN
    /\ j \in services
    /\ f.exec # "none"
    /\ f.send = "calling"
    /\ Update(j, i, [f EXCEPT !.send = "done"])
    /\ UNCHANGED <<storeVars, backoff, up, services, tick>>

\* The run ends.  After the coordinator has given the RPC up its context is
\* cancelled, and the run of a batch job ends early, as a failure or not.
NodeFinish(j, i, r) ==
    LET f == flights[j][i] IN
    /\ f.exec = "running"
    /\ Update(j, i, [f EXCEPT !.exec = "reporting", !.result = r])
    /\ UNCHANGED <<storeVars, backoff, up, services, tick>>

\* The ReportResult call reaches the coordinator.
NodeReport(j, i) ==
    LET f == flights[j][i] IN
    /\ f.exec = "reporting"
    /\ f.report = "none"
    /\ Update(j, i, [f EXCEPT !.report = "get"])
    /\ UNCHANGED <<storeVars, backoff, up, services, tick>>

\* reportResult returns: the handler has answered, or the call was lost, or
\* its context (that of the Dispatch RPC, for a batch job) was cancelled; no
\* outcome of it is ever retried.
NodeReported(j, i) ==
    LET f == flights[j][i] IN
    /\ f.exec = "reporting"
    /\ \/ f.report = "done"
       \/ j \notin services /\ f.send # "calling"
       \/ "report" \in Faults
    /\ Update(j, i, [f EXCEPT !.exec = IF j \in services THEN "gone" ELSE "replying"])
    /\ UNCHANGED <<storeVars, backoff, up, services, tick>>

\* The reply to the Dispatch RPC: Accepted, or an error for sendToNode.
NodeReply(j, i) ==
    LET f == flights[j][i] IN
    /\ f.exec = "replying"
    /\ Update(j, i, [f EXCEPT
         !.exec = "gone",
         !.send = IF @ # "calling" THEN @ ELSE IF f.result = "reject" THEN "error" ELSE "done"])
    /\ UNCHANGED <<storeVars, backoff, up, services, tick>>

NodeStep(j, i) ==
    \/ NodeReceive(j, i)
    \/ NodeAck(j, i)
    \/ \E r \in {"ok", "exit"} \cup (IF j \in services THEN {} ELSE {"reject"}) :
          NodeFinish(j, i, r)
    \/ NodeReport(j, i)
    \/ NodeReported(j, i)
    \/ NodeReply(j, i)

-----------------------------------------------------------------------------
(* sendToNode after an error: the job fails, if its status lets it.        *)

\* Mutant: a failed send requeues the job at once when attempts are left.
SendFail_Requeue(j, i, saved) ==
    LET f == flights[j][i]
        again == [jobs[j] EXCEPT !.status = "pending", !.attempt = @ + 1, !.node = NoNode] IN
    /\ f.send = "error"
    /\ IF ~CanTransition(j, "failed") THEN UNCHANGED <<jobs, disk>>
       ELSE IF ShouldRetry(jobs[j]) THEN SaveJob(j, again, jobs[j], saved)
       ELSE Transition(j, "failed", NoNode, saved)
    /\ Update(j, i, [f EXCEPT !.send = "done"])
    /\ UNCHANGED <<cancels, backoff, up, services, tick>>

SendFail(j, i, saved) ==
    LET f == flights[j][i] IN
    /\ f.send = "error"
    /\ IF CanTransition(j, "failed") THEN Transition(j, "failed", NoNode, saved)
                                     ELSE UNCHANGED <<jobs, disk>>
    /\ Update(j, i, [f EXCEPT !.send = "done"])
    /\ UNCHANGED <<cancels, backoff, up, services, tick>>

-----------------------------------------------------------------------------
(* ReportResult: the job is read once, then at most four critical sections *)
(* follow, each on whatever the job has become.                            *)

ReportGet(j, i) ==
    LET f == flights[j][i] IN
    /\ f.report = "get"
    /\ Update(j, i, [f EXCEPT !.report =
         IF jobs[j].node # NoNode /\ jobs[j].node # f.node THEN "done"
         ELSE IF jobs[j].status = "dispatching" THEN "toRunning" ELSE "toFinal"])
    /\ UNCHANGED <<storeVars, backoff, up, services, tick>>

ReportRunning(j, i, saved) ==
    LET f == flights[j][i]
        can == CanTransition(j, "running") IN
    /\ f.report = "toRunning"
    /\ IF can THEN Transition(j, "running", f.node, saved) ELSE UNCHANGED <<jobs, disk>>
    /\ Update(j, i, [f EXCEPT !.report = IF can /\ saved THEN "toFinal" ELSE "done"])
    /\ UNCHANGED <<cancels, backoff, up, services, tick>>

\* Mutant: the Success field is ignored.
targetStatus_Always(f) == "completed"

targetStatus(f) == IF f.result = "ok" THEN "completed" ELSE "failed"

ReportFinal(j, i, saved) ==
    LET f == flights[j][i]
        can == CanTransition(j, targetStatus(f)) IN
    /\ f.report = "toFinal"
    /\ IF can THEN Transition(j, targetStatus(f), f.node, saved)
              ELSE UNCHANGED <<jobs, disk>>
    /\ Update(j, i, [f EXCEPT !.report = IF can /\ saved THEN "retry" ELSE "done"])
    /\ UNCHANGED <<cancels, backoff, up, services, tick>>

\* The retry check; the workflow callback that follows a job that is not
\* retried has no effect on a standalone job.
ReportRetry(j, i, first, second) ==
    LET f == flights[j][i] IN
    /\ f.report = "retry"
    /\ IF CanRetry(j) THEN RetryIfEligible(j, first, second) ELSE UNCHANGED <<jobs, disk>>
    /\ backoff' = IF CanRetry(j) /\ first THEN backoff \cup {j} ELSE backoff
    /\ Update(j, i, [f EXCEPT !.report = "done"])
    /\ UNCHANGED <<cancels, up, services, tick>>

CoordinatorStep(j, i) ==
    \/ ReportGet(j, i)
    \/ \E saved \in SaveResults :
          \/ SendFail(j, i, saved)
          \/ ReportRunning(j, i, saved)
          \/ ReportFinal(j, i, saved)
          \/ \E second \in SaveResults : ReportRetry(j, i, saved, second)

-----------------------------------------------------------------------------
(* Clients, time and faults.                                               *)

ApiSubmit(j, max, saved) ==
    /\ Submit(j, max, saved)
    /\ UNCHANGED <<cancels, loopVars>>

ApiCancel ==
    /\ \/ \E j \in Jobs : CancelJob(j)
       \/ \E c \in cancels, saved \in SaveResults : CancelAct(c, saved)
    /\ UNCHANGED loopVars

\* RetryAfter passes.
BackoffEnds(j) ==
    /\ j \in backoff
    /\ backoff' = backoff \ {j}
    /\ UNCHANGED <<storeVars, up, services, tick, flights>>

\* The dial or the RPC fails, or dispatchRPCTimeout passes first.
RpcFails(j, i) ==
    LET f == flights[j][i] IN
    /\ "rpc" \in Faults
    /\ f.send = "calling"
    /\ Update(j, i, [f EXCEPT !.send = "error"])
    /\ UNCHANGED <<storeVars, backoff, up, services, tick>>

\* The node process dies; an RPC still open breaks.
NodeDies(j, i) ==
    LET f == flights[j][i] IN
    /\ "node" \in Faults
    /\ f.exec \in {"running", "reporting", "replying"}
    /\ Update(j, i, [f EXCEPT !.exec = "gone",
                              !.send = IF @ = "calling" THEN "error" ELSE @])
    /\ UNCHANGED <<storeVars, backoff, up, services, tick>>

HealthFlips(n) ==
    /\ "health" \in Faults
    /\ up' = IF n \in up THEN up \ {n} ELSE up \cup {n}
    /\ UNCHANGED <<storeVars, backoff, services, tick, flights>>

\* The goroutines and handlers of the coordinator are gone; the nodes run on,
\* with their Dispatch context cancelled.
CoordinatorCrash ==
    /\ CrashRestore
    /\ tick' = IdleTick
    /\ flights' = [j \in Jobs |->
         [i \in DOMAIN flights[j] |->
            [flights[j][i] EXCEPT
               !.send = "done",
               !.exec = IF @ = "none" THEN "gone" ELSE @,
               !.report = IF @ = "none" THEN @ ELSE "done"]]]
    /\ UNCHANGED <<backoff, up, services>>

Next ==
    \/ Loop
    \/ \E j \in Jobs : \E i \in DOMAIN flights[j] :
          NodeStep(j, i) \/ CoordinatorStep(j, i) \/ RpcFails(j, i) \/ NodeDies(j, i)
    \/ \E j \in Jobs, max \in RetryLimits, saved \in SaveResults : ApiSubmit(j, max, saved)
    \/ ApiCancel
    \/ \E j \in Jobs : BackoffEnds(j)
    \/ \E n \in Nodes : HealthFlips(n)
    \/ CoordinatorCrash

Spec == Init /\ [][Next]_vars

\* Goroutines, RPCs and timers make progress: the loop ticks, a run ends (a
\* batch job has a timeout), a message that is not lost arrives, and a backoff
\* passes.  No fault and no API call is ever forced.
Fairness ==
    /\ WF_vars(Loop)
    /\ \A j \in Jobs :
          /\ WF_vars(\E i \in DOMAIN flights[j] : NodeStep(j, i) \/ CoordinatorStep(j, i))
          /\ WF_vars(BackoffEnds(j))

FairSpec == Spec /\ Fairness

-----------------------------------------------------------------------------
(* Properties.                                                             *)

\* The loop and every flight are well formed, and the loop holds a job exactly
\* between its two transitions.
TypeOK ==
    /\ StoreTypeOK
    /\ backoff \subseteq Jobs
    /\ up \subseteq Nodes
    /\ services \subseteq ServiceJobs
    /\ tick.pc \in {"idle", "pick", "send"}
    /\ tick.queue \subseteq Jobs
    /\ IF tick.pc = "send" THEN tick.job \in Jobs /\ tick.node \in Nodes
                           ELSE tick.job = NoJobID /\ tick.node = NoNode
    /\ \A j \in Jobs : \A i \in DOMAIN flights[j] : flights[j][i] \in Flight

\* No two runs of a job overlap on the nodes, although a timed-out Dispatch RPC
\* leaves a run behind: only the report of a finished run leads to a retry.
OneRunAtATime ==
    \A j \in Jobs : \A i, k \in DOMAIN flights[j] :
        flights[j][i].exec = "running" /\ flights[j][k].exec = "running" => i = k

\* A completed job completed because the run of its current attempt succeeded,
\* on the node the record names: no late report of another attempt decides it.
CompletedByItsRun ==
    \A j \in Jobs : jobs[j].status = "completed" =>
        \E i \in DOMAIN flights[j] : /\ flights[j][i].attempt = jobs[j].attempt
                                    /\ flights[j][i].node = jobs[j].node
                                    /\ flights[j][i].result = "ok"

\* Every submitted job some node can take ends for good: Failed is left at most MaxAttempts - 1
\* times, and no job stays behind in scheduled, dispatching or running.
EveryJobEnds ==
    \A j \in Jobs : Matches[j] # {} => <>[](Exists(j) => IsTerminal(jobs[j].status))

\* job.go:101 "Pending -> Failed exists for pre-dispatch validation failures
\* where no node was ever picked and no RPC flew".
PendingFailsBeforeDispatch ==
    [][\A j \in Jobs : jobs[j].status = "pending" /\ jobs'[j].status = "failed" =>
          flights[j] = <<>>]_vars

=============================================================================
