----------------------------- MODULE Summaries ------------------------------
(***************************************************************************)
(* The tables the dashboard reads:                                         *)
(*   internal/analytics/sink.go, sink_unified.go   the upserts of a flush  *)
(*   internal/analytics/backfill.go                the audit trail, again  *)
(*   internal/cluster/job_transition.go, job_submit.go, dispatch.go,       *)
(*   internal/grpcserver/handlers.go               who publishes, and when *)
(* A change of a job is made under the store's lock and published after    *)
(* it, so each goroutine that changes a job holds events it has yet to     *)
(* publish.  Channel, buffer and batch of the sink are one queue here, in  *)
(* order: EventPipeline has their limits and what a restart loses.         *)
(***************************************************************************)
EXTENDS Naturals, Sequences, SequencesExt, FiniteSets

CONSTANTS
    Priority,       \* of the job, not 0
    MaxAttempts,
    MaxMarks,       \* Bound: events of the tables without a summary
    MaxQueue,       \* Bound: events on their way at a time
    MaxBackfills,   \* Bound: runs of `analytics backfill`
    Tables,         \* the row tables whose events are published
    Faults          \* "unheard": a commit whose answer is lost, once
                    \* "pg": a transaction fails

Goroutines == {"api", "loop", "send", "report"}
NoRow == [status |-> "none"]

VARIABLES
    job,        \* in the store: status and attempt; by: who made the last transition
    out,        \* out[g]: what goroutine g has yet to publish
    queue,      \* published, not committed
    trail,      \* the audit trail under "audit:", in order
    back,       \* a backfill: what it has scanned and not flushed
    backs,      \* how many were started
    jobRow,     \* job_summary
    nodeRow,    \* node_summary
    rows,       \* the other tables: how many rows under a key
    marks,      \* history: how many row events were published
    unheard     \* history: a commit was not heard of

summaryVars == <<jobRow, nodeRow, rows>>
svars == <<job, out, queue, trail, back, backs, summaryVars, marks, unheard>>

RowTables == {"unschedulable_events", "registry_mutations", "submission_history",
              "auth_events", "artifact_transfers", "service_probe_events",
              "workflow_outcomes"}

NoBackfill == <<>>

SummariesInit ==
    /\ job = [status |-> "none", attempt |-> 1, by |-> "api"]
    /\ out = [g \in Goroutines |-> <<>>]
    /\ queue = <<>> /\ trail = <<>> /\ back = NoBackfill /\ backs = 0
    /\ jobRow = NoRow
    /\ nodeRow = [completed |-> 0, failed |-> 0, stale |-> 0, revoked |-> 0]
    /\ rows = [k \in {} |-> 0]
    /\ marks = 0 /\ unheard = FALSE

-----------------------------------------------------------------------------
(* The events.                                                             *)

JobSubmitted == [topic |-> "job.submitted", priority |-> Priority]
JobTransition(to) == [topic |-> "job.transition", to |-> to]
JobCompleted == [topic |-> "job.completed", node |-> TRUE]
JobFailed(a) == [topic |-> "job.failed", attempt |-> a, node |-> FALSE]
Mark(t, n) == [topic |-> "row", table |-> t, id |-> n, at |-> n]

\* Transition: the change, and the events its goroutine will publish.
Transition(g, to) ==
    /\ out[g] = <<>>
    /\ job' = [job EXCEPT !.status = to, !.by = g]
    /\ out' = [out EXCEPT ![g] = <<JobTransition(to)>> \o
                 (CASE to = "completed" -> <<JobCompleted>>
                    [] to = "failed"    -> <<JobFailed(job.attempt)>>
                    [] OTHER            -> <<>>)]

Publish(g) ==
    /\ out[g] # <<>>
    /\ Len(queue) < MaxQueue
    /\ queue' = Append(queue, Head(out[g]))
    /\ out' = [out EXCEPT ![g] = Tail(@)]
    /\ UNCHANGED <<job, trail, back, backs, summaryVars, marks, unheard>>

\* handleSubmitJob writes its audit record once the job is stored.
Submit ==
    /\ job.status = "none"
    /\ job' = [job EXCEPT !.status = "pending"]
    /\ out' = [out EXCEPT !["api"] = <<JobSubmitted>>]
    /\ trail' = Append(trail, "job_submit")
    /\ UNCHANGED <<queue, back, backs, summaryVars, marks, unheard>>

\* The dispatch loop: two transitions, one after the other.
dispatchPending ==
    /\ \/ job.status = "pending" /\ Transition("loop", "scheduled")
       \/ job.status = "scheduled" /\ Transition("loop", "dispatching")
    /\ UNCHANGED <<queue, trail, back, backs, summaryVars, marks, unheard>>

\* The call to the node fails, before or while the job runs.
sendToNode ==
    /\ job.status \in {"dispatching", "running"} /\ out["loop"] = <<>>
    /\ Transition("send", "failed")
    /\ UNCHANGED <<queue, trail, back, backs, summaryVars, marks, unheard>>

ReportResult ==
    /\ \/ job.status = "dispatching" /\ out["loop"] = <<>> /\ Transition("report", "running")
       \/ job.status = "running" /\ \E to \in {"completed", "failed"} : Transition("report", to)
    /\ UNCHANGED <<queue, trail, back, backs, summaryVars, marks, unheard>>

\* ReportResult goes on to retry what it has failed.  Nothing is published of a
\* retry, nor of a job marked lost.
RetryIfEligible ==
    /\ job.status = "failed" /\ job.by = "report" /\ out["report"] = <<>>
    /\ job.attempt < MaxAttempts
    /\ job' = [job EXCEPT !.status = "pending", !.attempt = @ + 1]
    /\ UNCHANGED <<out, queue, trail, back, backs, summaryVars, marks, unheard>>

CancelJob ==
    /\ out["api"] = <<>>
    /\ \/ job.status \in {"pending", "scheduled", "running"} /\ Transition("api", "cancelled")
       \/ job.status = "dispatching" /\ job' = [job EXCEPT !.status = "lost"] /\ UNCHANGED out
    /\ UNCHANGED <<queue, trail, back, backs, summaryVars, marks, unheard>>

\* A node is revoked: audited, and not published.
RevokeNode ==
    /\ "node_revoke" \notin ToSet(trail)
    /\ trail' = Append(trail, "node_revoke")
    /\ UNCHANGED <<job, out, queue, back, backs, summaryVars, marks, unheard>>

\* An event for one of the other tables.
PublishMark(t) ==
    /\ marks < MaxMarks
    /\ Len(queue) < MaxQueue
    /\ marks' = marks + 1
    /\ queue' = Append(queue, Mark(t, marks))
    /\ UNCHANGED <<job, out, trail, back, backs, summaryVars, unheard>>

-----------------------------------------------------------------------------
(* The upserts.  A database is the three kinds of tables; an event maps it *)
(* to the next.                                                            *)

Fresh == [status |-> "none", priority |-> 0, attempts |-> 1, started |-> FALSE, ended |-> FALSE]

\* INSERT ... ON CONFLICT DO UPDATE starts from the row, or from defaults.
OldRow(db) == IF db.job = NoRow THEN Fresh ELSE db.job

\* The status is set by the insert alone; an absent priority is 0, not NULL,
\* so COALESCE takes it.
upsertJobSubmitted(db, e) ==
    [db EXCEPT !.job = [OldRow(db) EXCEPT !.priority = e.priority,
                          !.status = IF db.job = NoRow THEN "pending" ELSE @]]

\* Mutant: a row that is there already is left alone.
upsertJobTransition_Insert(db, e) ==
    IF db.job # NoRow THEN db
    ELSE [db EXCEPT !.job = [Fresh EXCEPT !.status = e.to, !.started = @ \/ e.to = "running"]]

upsertJobTransition(db, e) ==
    [db EXCEPT !.job = [OldRow(db) EXCEPT !.status = e.to, !.started = @ \/ e.to = "running"]]

upsertJobCompleted(db, e) ==
    [db EXCEPT !.job = [OldRow(db) EXCEPT !.status = "completed", !.ended = TRUE],
               !.node.completed = IF e.node THEN @ + 1 ELSE @]

upsertJobFailed(db, e) ==
    [db EXCEPT !.job = [OldRow(db) EXCEPT !.status = "failed", !.ended = TRUE,
                                          !.attempts = e.attempt],
               !.node.failed = IF e.node THEN @ + 1 ELSE @]

upsertNodeRevoked(db) == [db EXCEPT !.node.revoked = @ + 1]

Insert(db, k) == [db EXCEPT !.rows = (k :> 1) @@ @]
InsertAgain(db, k) ==
    [db EXCEPT !.rows = (k :> (IF k \in DOMAIN @ THEN @[k] + 1 ELSE 1)) @@ @]

\* One INSERT for each of the other tables, with the columns of its key that
\* tell events apart: DO NOTHING on a conflict.
upsertUnschedulable(db, e) == Insert(db, <<e.table, e.at>>)
upsertRegistryMutation(db, e) == Insert(db, <<e.table, e.at>>)
upsertServiceProbeEvent(db, e) == Insert(db, <<e.table, e.at>>)

upsertArtifactTransfer(db, e) == Insert(db, <<e.table, e.at>>)
upsertSubmissionHistory(db, e) == Insert(db, <<e.table, e.id>>)

\* One row for a workflow: the later outcome replaces the earlier.
upsertWorkflowOutcome(db, e) == Insert(db, <<e.table, 0>>)

\* auth_events has no key.
upsertAuthEvent(db, e) == InsertAgain(db, <<e.table, e.at>>)

upsertRow(db, e) ==
    CASE e.table = "unschedulable_events" -> upsertUnschedulable(db, e)
      [] e.table = "registry_mutations"   -> upsertRegistryMutation(db, e)
      [] e.table = "service_probe_events" -> upsertServiceProbeEvent(db, e)
      [] e.table = "artifact_transfers"   -> upsertArtifactTransfer(db, e)
      [] e.table = "submission_history"   -> upsertSubmissionHistory(db, e)
      [] e.table = "workflow_outcomes"    -> upsertWorkflowOutcome(db, e)
      [] e.table = "auth_events"          -> upsertAuthEvent(db, e)

upsertSummary(db, e) ==
    CASE e.topic = "job.submitted"  -> upsertJobSubmitted(db, e)
      [] e.topic = "job.transition" -> upsertJobTransition(db, e)
      [] e.topic = "job.completed"  -> upsertJobCompleted(db, e)
      [] e.topic = "job.failed"     -> upsertJobFailed(db, e)
      [] e.topic = "node.revoked"   -> upsertNodeRevoked(db)
      [] e.topic = "row"            -> upsertRow(db, e)

upsertSummaries(b) ==
    FoldLeft(upsertSummary, [job |-> jobRow, node |-> nodeRow, rows |-> rows], b)

\* The transaction of a flush.
Commit(b) ==
    LET db == upsertSummaries(b)
    IN  /\ jobRow' = db.job /\ nodeRow' = db.node /\ rows' = db.rows

\* Mutant: a failed batch goes to the back of the buffer.
AfterFailure_Behind(n) == SubSeq(queue, n + 1, Len(queue)) \o SubSeq(queue, 1, n)

\* rebuffer: to the front.
AfterFailure(n) == queue

Flush(n) ==
    /\ Commit(SubSeq(queue, 1, n))
    /\ queue' = SubSeq(queue, n + 1, Len(queue))
    /\ UNCHANGED <<job, out, trail, back, backs, marks, unheard>>

FlushFails(n) ==
    /\ "pg" \in Faults
    /\ queue' = AfterFailure(n)
    /\ UNCHANGED <<job, out, trail, back, backs, summaryVars, marks, unheard>>

FlushUnheard(n) ==
    /\ "unheard" \in Faults /\ ~unheard
    /\ Commit(SubSeq(queue, 1, n))
    /\ queue' = AfterFailure(n)
    /\ unheard' = TRUE
    /\ UNCHANGED <<job, out, trail, back, backs, marks>>

-----------------------------------------------------------------------------
(* `analytics backfill`, beside the coordinator.                           *)

\* The record of a submission has no priority.
auditToAnalyticsEvent(r) ==
    IF r = "job_submit" THEN [topic |-> "job.submitted", priority |-> 0]
    ELSE [topic |-> "node.revoked"]

Scan ==
    /\ back = NoBackfill /\ backs < MaxBackfills
    /\ trail # <<>>
    /\ back' = trail /\ backs' = backs + 1
    /\ UNCHANGED <<job, out, queue, trail, summaryVars, marks, unheard>>

\* Rows of the events table are skipped by id, the summaries are not.  A batch
\* that fails ends the run.
Backfill(n, ok) ==
    /\ n <= Len(back)
    /\ ok \/ "pg" \in Faults
    /\ IF ok THEN /\ Commit([i \in 1 .. n |-> auditToAnalyticsEvent(back[i])])
                  /\ back' = SubSeq(back, n + 1, Len(back))
       ELSE back' = NoBackfill /\ UNCHANGED summaryVars
    /\ UNCHANGED <<job, out, queue, trail, backs, marks, unheard>>

SummariesNext ==
    \/ Submit \/ dispatchPending \/ sendToNode \/ ReportResult \/ RetryIfEligible
    \/ CancelJob \/ RevokeNode
    \/ \E g \in Goroutines : Publish(g)
    \/ \E t \in Tables : PublishMark(t)
    \/ \E n \in 1 .. Len(queue) : Flush(n) \/ FlushFails(n) \/ FlushUnheard(n)
    \/ Scan \/ \E n \in 1 .. 2, ok \in BOOLEAN : Backfill(n, ok)

SummariesSpec == SummariesInit /\ [][SummariesNext]_svars

-----------------------------------------------------------------------------
(* Properties.                                                             *)

Statuses == {"none", "pending", "scheduled", "dispatching", "running",
             "completed", "failed", "cancelled", "lost"}

\* Types.
SummariesTypeOK ==
    /\ job.status \in Statuses /\ job.attempt \in 1 .. MaxAttempts
    /\ job.by \in Goroutines
    /\ DOMAIN out = Goroutines
    /\ \A k \in DOMAIN rows : rows[k] \in Nat /\ k[1] \in RowTables
    /\ jobRow = NoRow \/ jobRow.status \in Statuses

Settled == queue = <<>> /\ \A g \in Goroutines : out[g] = <<>>

\* Once all that was published is committed, job_summary shows how a job that a
\* report ended has ended, and the node has been credited with it: no order of
\* publication, failed or repeated flush, late job.submitted or backfill in
\* between leaves an earlier status there.
OutcomeShown ==
    Settled /\ job.by = "report" /\ job.status \in {"completed", "failed"} =>
        /\ jobRow.status = job.status /\ jobRow.ended /\ jobRow.started
        /\ job.status = "failed" => jobRow.attempts = job.attempt
        /\ job.status = "completed" => nodeRow.completed >= 1

\* backfill.go says "Idempotent ... Safe to run multiple times": a revocation is
\* counted once.  Every run of the backfill counts it again.
RevokedOnce == nodeRow.revoked <= 1

\* A job keeps the priority it was submitted with.  The audit record of the
\* submission has none, and a backfill puts 0 in its place.
PriorityKept == jobRow # NoRow /\ job.by = "report" /\ Settled => jobRow.priority = Priority

\* Any end of a job shows.  A cancellation may be published before the event
\* of an earlier change, which then stays; a job marked lost is not published.
EveryEndShown ==
    Settled /\ job.status \in {"completed", "cancelled", "lost"} => jobRow.status = job.status
=============================================================================
