------------------------------ MODULE Service ------------------------------
(***************************************************************************)
(* The readiness of an inference service, from the node that runs it to    *)
(* the endpoint the coordinator serves:                                    *)
(*   internal/nodeserver/server.go           Dispatch of a service job     *)
(*   internal/nodeserver/service_prober.go   the probe loop                *)
(*   internal/grpcserver/handlers.go         ReportServiceEvent            *)
(*   internal/cluster/service_registry.go    the endpoints                 *)
(*   cmd/helion-coordinator/main.go          the job completion callback   *)
(* The registry is a map by job ID, so one job is modelled: its attempts,  *)
(* each with a process and a prober of its own on the node it was sent to. *)
(* The prober runs under context.Background(), which is never cancelled.   *)
(***************************************************************************)
EXTENDS Naturals

CONSTANTS
    Nodes,       \* node IDs
    NoNode,      \* the empty NodeID
    MaxAttempts, \* bound on RetryPolicy.MaxAttempts
    Faults       \* what may happen besides, among FaultKinds

\* lost:    a ReportServiceEvent call fails
\* restart: the coordinator restarts; the registry is in memory only
\* cancel:  the API cancels the job; the node is not told
FaultKinds == {"lost", "restart", "cancel"}

ServiceAssumption ==
    /\ NoNode \notin Nodes
    /\ MaxAttempts \in Nat \ {0}
    /\ Faults \subseteq FaultKinds

VARIABLES
    job,      \* the coordinator's record of the job
    proc,     \* proc[a]: the process of attempt a
    prober,   \* prober[a]: the probe loop of attempt a
    endpoint, \* the registry's entry for the job
    amiss     \* history: an event was lost, wiped by a restart, or checked in one
              \* attempt and applied in another

vars == <<job, proc, prober, endpoint, amiss>>

Attempts == 1..MaxAttempts

Job == [status  : {"pending", "running", "completed", "failed", "cancelled"},
        node    : Nodes \cup {NoNode},
        attempt : 0..MaxAttempts,
        max     : Attempts,
        told    : BOOLEAN]  \* the completion callback has run

NoEndpoint == [node |-> NoNode, ready |-> FALSE]

Endpoint == [node : Nodes \cup {NoNode}, ready : BOOLEAN]

\* at:   between probes, calling ReportServiceEvent, in the handler after its
\*       look at the job
\* last: lastReady, or "none" before the first event
Prober == [at : {"off", "probe", "call", "upsert"},
           node : Nodes \cup {NoNode},
           last : {"none", "ready", "unhealthy"},
           checked : 0..MaxAttempts]  \* history: the attempt at that look

Init ==
    /\ \E max \in Attempts :
          job = [status |-> "pending", node |-> NoNode, attempt |-> 0, max |-> max, told |-> FALSE]
    /\ proc = [a \in Attempts |-> "none"]
    /\ prober = [a \in Attempts |-> [at |-> "off", node |-> NoNode, last |-> "none", checked |-> 0]]
    /\ endpoint = NoEndpoint
    /\ amiss = FALSE

-----------------------------------------------------------------------------
(* The job: dispatch, exit, the report of its result, cancel.              *)

\* The dispatch loop and the node's Dispatch handler: both goroutines start.
Dispatch(n) ==
    /\ job.status = "pending"
    /\ LET a == job.attempt + 1 IN
       /\ job' = [job EXCEPT !.status = "running", !.node = n, !.attempt = a]
       /\ proc' = [proc EXCEPT ![a] = "unready"]
       /\ prober' = [prober EXCEPT ![a] = 
            [at |-> "probe", node |-> n, last |-> "none", checked |-> 0]]
    /\ UNCHANGED <<endpoint, amiss>>

\* The service starts or stops answering its health path.
Flip(a) ==
    /\ proc[a] \in {"unready", "up"}
    /\ proc' = [proc EXCEPT ![a] = IF @ = "up" THEN "unready" ELSE "up"]
    /\ UNCHANGED <<job, prober, endpoint, amiss>>

Exit(a) ==
    /\ proc[a] \in {"unready", "up"}
    /\ proc' = [proc EXCEPT ![a] = "exited"]
    /\ UNCHANGED <<job, prober, endpoint, amiss>>

\* ReportResult up to its last transition; a job that is no longer running,
\* or is on another node, refuses the report.
ReportFinal(a, to) ==
    /\ proc[a] = "exited"
    /\ proc' = [proc EXCEPT ![a] = "reported"]
    /\ job' = IF job.status = "running" /\ job.node = prober[a].node
              THEN [job EXCEPT !.status = to] ELSE job
    /\ UNCHANGED <<prober, endpoint, amiss>>

\* RetryIfEligible: a retried job skips the callback.
Retry ==
    /\ job.status = "failed"
    /\ ~job.told
    /\ job.attempt < job.max
    /\ job' = [job EXCEPT !.status = "pending", !.node = NoNode]
    /\ UNCHANGED <<proc, prober, endpoint, amiss>>

\* The completion callback of main.go: ServiceRegistry.Delete.
OnJobCompleted ==
    /\ job.status = "completed" \/ (job.status = "failed" /\ job.attempt >= job.max)
    /\ ~job.told
    /\ job' = [job EXCEPT !.told = TRUE]
    /\ endpoint' = NoEndpoint
    /\ UNCHANGED <<proc, prober, amiss>>

ApiCancel ==
    /\ "cancel" \in Faults
    /\ job.status \in {"pending", "running"}
    /\ job' = [job EXCEPT !.status = "cancelled"]
    /\ UNCHANGED <<proc, prober, endpoint, amiss>>

-----------------------------------------------------------------------------
(* The prober and ReportServiceEvent.                                      *)

\* What a probe of the node's port finds: any process of the job there.
Answer(a) ==
    IF \E b \in Attempts : proc[b] = "up" /\ prober[b].node = prober[a].node
    THEN "ready" ELSE "unhealthy"

\* Mutant: only the first state is reported.
Probe_Once(a) ==
    /\ prober[a].at = "probe"
    /\ prober[a].last = "none"
    /\ prober' = [prober EXCEPT ![a].at = "call", ![a].last = Answer(a)]
    /\ UNCHANGED <<job, proc, endpoint, amiss>>

\* A probe whose answer is not that of the last event; the others are silent.
\* lastReady is set whatever becomes of the call.
Probe(a) ==
    /\ prober[a].at = "probe"
    /\ Answer(a) # prober[a].last
    /\ prober' = [prober EXCEPT ![a].at = "call", ![a].last = Answer(a)]
    /\ UNCHANGED <<job, proc, endpoint, amiss>>

CallFails(a) ==
    /\ "lost" \in Faults
    /\ prober[a].at = "call"
    /\ prober' = [prober EXCEPT ![a].at = "probe"]
    /\ amiss' = TRUE
    /\ UNCHANGED <<job, proc, endpoint>>

\* The handler's look at the job: an event of another node is refused.
EventCheck(a) ==
    /\ prober[a].at = "call"
    /\ prober' = [prober EXCEPT ![a].at = IF job.node \in {NoNode, prober[a].node}
                                          THEN "upsert" ELSE "probe",
                                ![a].checked = job.attempt]
    /\ UNCHANGED <<job, proc, endpoint, amiss>>

Upsert(a) ==
    /\ prober[a].at = "upsert"
    /\ endpoint' = [node |-> prober[a].node, ready |-> prober[a].last = "ready"]
    /\ prober' = [prober EXCEPT ![a].at = "probe"]
    /\ amiss' = (amiss \/ prober[a].checked # job.attempt)
    /\ UNCHANGED <<job, proc>>

\* Mutant: the restart puts the running service back in the queue.
Restart_Requeue ==
    /\ "restart" \in Faults
    /\ endpoint' = NoEndpoint
    /\ prober' = [a \in Attempts |->
                    IF prober[a].at = "upsert" THEN [prober[a] EXCEPT !.at = "probe"]
                                               ELSE prober[a]]
    /\ job' = IF job.status = "running" /\ job.attempt < job.max
              THEN [job EXCEPT !.status = "pending", !.node = NoNode] ELSE job
    /\ amiss' = TRUE
    /\ UNCHANGED proc

\* The job survives on disk, the registry does not; the calls in progress fail.
Restart ==
    /\ "restart" \in Faults
    /\ endpoint' = NoEndpoint
    /\ prober' = [a \in Attempts |->
                    IF prober[a].at = "upsert" THEN [prober[a] EXCEPT !.at = "probe"]
                                               ELSE prober[a]]
    /\ amiss' = TRUE
    /\ UNCHANGED <<job, proc>>

Lifecycle(a) == \E to \in {"completed", "failed"} : ReportFinal(a, to)

ProberStep(a) == Probe(a) \/ CallFails(a) \/ EventCheck(a) \/ Upsert(a)

Coordinator == Retry \/ OnJobCompleted \/ \E n \in Nodes : Dispatch(n)

Next ==
    \/ Coordinator \/ ApiCancel \/ Restart
    \/ \E a \in Attempts : Flip(a) \/ Exit(a) \/ Lifecycle(a) \/ ProberStep(a)

Spec == Init /\ [][Next]_vars

\* Goroutines run and calls return; a service need not start, answer or exit.
Fairness ==
    /\ WF_vars(Coordinator)
    /\ \A a \in Attempts : WF_vars(Lifecycle(a)) /\ WF_vars(ProberStep(a))

FairSpec == Spec /\ Fairness

-----------------------------------------------------------------------------
(* Properties.                                                             *)

\* Types; the registry never shows a node for a job that no prober of that
\* node reported.
ServiceTypeOK ==
    /\ job \in Job
    /\ proc \in [Attempts -> {"none", "unready", "up", "exited", "reported"}]
    /\ prober \in [Attempts -> Prober]
    /\ endpoint \in Endpoint
    /\ endpoint.node # NoNode => \E a \in Attempts : prober[a].node = endpoint.node

\* At most one process of a service is alive, over retries, restarts of the
\* coordinator and cancels: a new attempt is sent only after the process of
\* the last one has exited and said so.
OneProcess ==
    \A a, b \in Attempts :
        {proc[a], proc[b]} \subseteq {"unready", "up"} => a = b

\* A service that answers for good on its first attempt ends up shown as
\* ready, and one that fails to answer for good as not ready.
Stable(a, s) == job.status = "running" /\ job.attempt = a /\ proc[a] = s

ReadinessConverges ==
    /\ <>[]Stable(1, "up") =>
          <>[](endpoint = [node |-> job.node, ready |-> TRUE] \/ amiss)
    /\ <>[]Stable(1, "unready") => <>[](~endpoint.ready \/ amiss)

\* service_registry.go:44 "Upsert records the latest readiness state for a
\* service job", for every attempt: a service that answers for good is shown
\* as ready.
LatestReadinessWins ==
    \A a \in Attempts :
        <>[]Stable(a, "up") => <>[](endpoint = [node |-> job.node, ready |-> TRUE])

\* service_registry.go:7 "A coordinator restart starts with an empty map; the
\* nodes' probers re-emit the current state on the next probe tick": a service
\* that answers for good is in the registry after the last restart.
RestartHeals ==
    <>[]Stable(1, "up") /\ <>[][~Restart]_vars => <>[](endpoint # NoEndpoint)

\* service_registry.go:69 "Called when the underlying service job reaches a
\* terminal state ... so stale entries don't linger": an ended job is not in
\* the registry for ever.
EndedServiceGone ==
    [](job.told => <>[](endpoint = NoEndpoint))

=============================================================================
