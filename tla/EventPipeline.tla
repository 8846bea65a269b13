--------------------------- MODULE EventPipeline ----------------------------
(***************************************************************************)
(* How the output of jobs and the events about them reach PostgreSQL:      *)
(*   internal/grpcclient/client.go, internal/grpcserver/handlers.go        *)
(*                                    StreamLogs, both ends                *)
(*   internal/events/bus.go           the channel of a subscriber          *)
(*   internal/analytics/sink*.go      buffer, batches, one transaction     *)
(*   internal/logstore/               chunks in Badger, the reconciler     *)
(* An event is a chunk of output ("log") or the end of a run: "completed"  *)
(* adds one to jobs_completed of the node, "failed", which names no node,  *)
(* adds to nothing.  The sink's other events are upserts like the one or   *)
(* increments like the other.  Scrubbing, retention (which never touches   *)
(* job_log_entries) and the other columns are left out; a chunk stands for *)
(* its contents by its attempt.                                            *)
(***************************************************************************)
EXTENDS Naturals, Sequences, FiniteSets

CONSTANTS
    JobIDs,
    MaxAttempts,   \* Bound: runs of a job
    MaxChunks,     \* StreamLogs sends stdout and stderr, a chunk each
    ChannelSize,   \* of a subscription
    BatchSize, BufferLimit,
    LogFaults      \* what may go wrong, among LogFaultKinds

\* badger: an Append or a Delete fails      pg:   a transaction or query fails
\* answer: a commit succeeds unheard        stop: the coordinator is stopped
\* crash:  it dies                          age:  chunks younger than MinAge
\*                                                are told from older ones
LogFaultKinds == {"badger", "pg", "answer", "stop", "crash", "age"}

ASSUME PipelineAssumption ==
    /\ MaxAttempts \in Nat /\ MaxChunks \in Nat /\ ChannelSize \in Nat
    /\ BatchSize \in Nat \ {0} /\ BufferLimit \in Nat \ {0}
    /\ LogFaults \subseteq LogFaultKinds

VARIABLES
    run,        \* run[j]: attempt, chunks sent, and ready, live or over
    chan,       \* the sink's channel
    pc,         \* the sink: loop, flush, ended (its loop), final (flush), down
    buf, batch,
    rows,       \* job_log_entries: the attempt whose chunk is under a key, or 0
    tally,      \* node_summary: jobs completed and failed
    log,        \* the chunks in Badger, likewise
    sweep,      \* the reconciler, and the keys it has in hand
    landed,     \* history: events that were committed
    gone,       \* history: events let go on the way
    unheard,    \* history: a commit was not heard of
    stored,     \* history: the last chunk Badger took under a key
    fresh       \* history: keys written in the last MinAge

sinkVars == <<chan, pc, buf, batch>>
pgVars == <<rows, tally, landed>>
\* The events of a channel or a buffer.
Among(s) == {s[i] : i \in DOMAIN s}

pipelineVars == <<run, sinkVars, pgVars, log, sweep, gone, unheard, stored, fresh>>

Keys == JobIDs \X (1 .. MaxChunks)

Chunk(j, a, s) == [kind |-> "log", job |-> j, attempt |-> a, seq |-> s]
Outcomes == {"completed", "failed"}
Ended(j, a, how) == [kind |-> how, job |-> j, attempt |-> a, seq |-> 0]

Idle == [pc |-> "idle", keys |-> {}]

PipelineInit ==
    /\ run = [j \in JobIDs |-> [attempt |-> 0, seq |-> 0, at |-> "ready"]]
    /\ chan = <<>> /\ pc = "loop" /\ buf = <<>> /\ batch = <<>>
    /\ rows = [k \in Keys |-> 0] /\ tally = [how \in Outcomes |-> 0]
    /\ log = [k \in Keys |-> 0]
    /\ sweep = Idle
    /\ landed = {} /\ gone = {} /\ unheard = FALSE
    /\ stored = [k \in Keys |-> 0] /\ fresh = {}

Up == pc \in {"loop", "flush", "ended"}

-----------------------------------------------------------------------------
(* Where events come from.                                                 *)

\* A full channel drops the event.
Publish(e) ==
    IF Len(chan) < ChannelSize
    THEN chan' = Append(chan, e) /\ UNCHANGED gone
    ELSE gone' = gone \cup {e} /\ UNCHANGED chan

StartRun(j) ==
    /\ Up
    /\ run[j].at = "ready"
    /\ run[j].attempt < MaxAttempts
    /\ run' = [run EXCEPT ![j] = [attempt |-> @.attempt + 1, seq |-> 0, at |-> "live"]]
    /\ UNCHANGED <<sinkVars, pgVars, log, sweep, gone, unheard, stored, fresh>>

\* Chunks are numbered from one in every run of a job.  The event is published
\* whether or not the chunk was stored, and nothing sets its Timestamp.
StreamChunk(j, ok) ==
    LET a == run[j].attempt
        s == run[j].seq + 1
    IN  /\ Up
        /\ run[j].at = "live" /\ s <= MaxChunks
        /\ ok \/ "badger" \in LogFaults
        /\ run' = [run EXCEPT ![j].seq = s]
        /\ IF ok THEN /\ log' = [log EXCEPT ![<<j, s>>] = a]
                      /\ stored' = [stored EXCEPT ![<<j, s>>] = a]
                      /\ fresh' = IF "age" \in LogFaults THEN fresh \cup {<<j, s>>} ELSE {}
                 ELSE UNCHANGED <<log, stored, fresh>>
        /\ Publish(Chunk(j, a, s))
        /\ UNCHANGED <<pc, buf, batch, pgVars, sweep, unheard>>

\* The stream ends, complete or broken, and the run is reported; a coordinator
\* that is down hears nothing of it.  A failed job may be run again.
EndRun(j, how) ==
    /\ run[j].at = "live"
    /\ run' = [run EXCEPT ![j].at = IF how = "failed" THEN "ready" ELSE "over"]
    /\ IF Up THEN Publish(Ended(j, run[j].attempt, how)) ELSE UNCHANGED <<chan, gone>>
    /\ UNCHANGED <<pc, buf, batch, pgVars, log, sweep, unheard, stored, fresh>>

-----------------------------------------------------------------------------
(* The sink.                                                               *)

Flush(b) == pc' = "flush" /\ batch' = b /\ buf' = <<>>

\* An event is buffered, for the oldest one when the buffer is full; a full
\* batch is flushed at once.
ReceiveEvent ==
    LET full == Len(buf) >= BufferLimit
        b == Append(IF full THEN Tail(buf) ELSE buf, Head(chan))
    IN  /\ pc = "loop"
        /\ chan # <<>>
        /\ chan' = Tail(chan)
        /\ gone' = IF full THEN gone \cup {Head(buf)} ELSE gone
        /\ IF Len(b) >= BatchSize THEN Flush(b) ELSE buf' = b /\ UNCHANGED <<pc, batch>>
        /\ UNCHANGED <<run, pgVars, log, sweep, unheard, stored, fresh>>

Tick ==
    /\ pc = "loop"
    /\ buf # <<>>
    /\ Flush(buf)
    /\ UNCHANGED <<run, chan, pgVars, log, sweep, gone, unheard, stored, fresh>>

\* ON CONFLICT (job_id, seq) DO NOTHING: the first chunk of a key stays.
FirstRow(b, k) ==
    LET I == {i \in DOMAIN b : b[i].kind = "log" /\ <<b[i].job, b[i].seq>> = k}
    IN  IF rows[k] # 0 THEN rows[k]
        ELSE IF I = {} THEN 0 ELSE b[CHOOSE i \in I : \A h \in I : i <= h].attempt

\* JobFailed carries no node_id: only the completed ones find a node to add to.
NamesNode(e) == e.kind = "completed"

Count(b, how) == Len(SelectSeq(b, LAMBDA e : e.kind = how /\ NamesNode(e)))

\* The transaction of a flush: rows and increments.
Land(b) ==
    /\ rows' = [k \in Keys |-> FirstRow(b, k)]
    /\ tally' = [how \in Outcomes |-> tally[how] + Count(b, how)]
    /\ landed' = landed \cup Among(b)

\* Mutant: a failed batch is not put back.
Rebuffer_Drops == batch' = <<>> /\ UNCHANGED <<buf, gone>>

\* Back in front of the buffer, as much as fits.
Rebuffer ==
    LET space == BufferLimit - Len(buf)
        n == IF Len(batch) > space THEN space ELSE Len(batch)
    IN  /\ buf' = SubSeq(batch, 1, n) \o buf
        /\ batch' = <<>>
        /\ gone' = gone \cup Among(SubSeq(batch, n + 1, Len(batch)))

FlushCommit ==
    /\ pc = "flush"
    /\ Land(batch)
    /\ batch' = <<>> /\ pc' = "loop"
    /\ UNCHANGED <<run, chan, buf, log, sweep, gone, unheard, stored, fresh>>

FlushFails ==
    /\ "pg" \in LogFaults
    /\ pc = "flush"
    /\ Rebuffer /\ pc' = "loop"
    /\ UNCHANGED <<run, chan, pgVars, log, sweep, unheard, stored, fresh>>

\* Bound: once.
FlushUnheard ==
    /\ "answer" \in LogFaults
    /\ ~unheard
    /\ pc = "flush"
    /\ Land(batch)
    /\ Rebuffer /\ pc' = "loop"
    /\ unheard' = TRUE
    /\ UNCHANGED <<run, chan, log, sweep, stored, fresh>>

\* The signal ends the loop; the servers are still there.
LoopEnds ==
    /\ "stop" \in LogFaults
    /\ pc = "loop"
    /\ pc' = "ended"
    /\ UNCHANGED <<run, chan, buf, batch, pgVars, log, sweep, gone, unheard, stored, fresh>>

\* Sink.Stop: the buffer is flushed, the channel is not read.
Stop ==
    /\ pc = "ended"
    /\ pc' = "final"
    /\ batch' = buf /\ buf' = <<>>
    /\ gone' = gone \cup Among(chan) /\ chan' = <<>>
    /\ sweep' = Idle
    /\ UNCHANGED <<run, pgVars, log, unheard, stored, fresh>>

FinalFlush(ok) ==
    /\ pc = "final"
    /\ ok \/ "pg" \in LogFaults
    /\ IF ok THEN Land(batch) /\ UNCHANGED gone
       ELSE gone' = gone \cup Among(batch) /\ UNCHANGED pgVars
    /\ batch' = <<>> /\ pc' = "down"
    /\ UNCHANGED <<run, chan, buf, log, sweep, unheard, stored, fresh>>

Crash ==
    /\ "crash" \in LogFaults
    /\ Up
    /\ gone' = gone \cup Among(chan) \cup Among(buf) \cup Among(batch)
    /\ chan' = <<>> /\ buf' = <<>> /\ batch' = <<>> /\ pc' = "down"
    /\ sweep' = Idle
    /\ UNCHANGED <<run, pgVars, log, unheard, stored, fresh>>

Restart ==
    /\ pc = "down"
    /\ pc' = "loop"
    /\ UNCHANGED <<run, chan, buf, batch, pgVars, log, sweep, gone, unheard, stored, fresh>>

-----------------------------------------------------------------------------
(* The reconciler.                                                         *)

\* Timestamp is the zero time of every chunk, so none is after the cutoff.
Old(k) == TRUE

Gather ==
    /\ pc \in {"loop", "flush"}
    /\ sweep = Idle
    /\ \E k \in Keys : log[k] # 0
    /\ sweep' = [pc |-> "ask", keys |-> {k \in Keys : log[k] # 0 /\ Old(k)}]
    /\ UNCHANGED <<run, sinkVars, pgVars, log, gone, unheard, stored, fresh>>

\* Mutant: every candidate counts as confirmed.
Confirm_All ==
    /\ sweep.pc = "ask"
    /\ sweep' = [pc |-> "delete", keys |-> sweep.keys]
    /\ UNCHANGED <<run, sinkVars, pgVars, log, gone, unheard, stored, fresh>>

\* ConfirmLogBatch: the candidates that job_log_entries has a row for.
Confirm ==
    /\ sweep.pc = "ask"
    /\ sweep' = [pc |-> "delete", keys |-> {k \in sweep.keys : rows[k] # 0}]
    /\ UNCHANGED <<run, sinkVars, pgVars, log, gone, unheard, stored, fresh>>

ConfirmFails ==
    /\ "pg" \in LogFaults
    /\ sweep.pc = "ask"
    /\ sweep' = Idle
    /\ UNCHANGED <<run, sinkVars, pgVars, log, gone, unheard, stored, fresh>>

\* The second pass deletes by key what was confirmed in the first.
Delete(k, ok) ==
    /\ sweep.pc = "delete"
    /\ k \in sweep.keys
    /\ ok \/ "badger" \in LogFaults
    /\ sweep' = [sweep EXCEPT !.keys = @ \ {k}]
    /\ log' = IF ok /\ Old(k) THEN [log EXCEPT ![k] = 0] ELSE log
    /\ UNCHANGED <<run, sinkVars, pgVars, gone, unheard, stored, fresh>>

SweepEnds ==
    /\ sweep.pc = "delete"
    /\ sweep.keys = {}
    /\ sweep' = Idle
    /\ UNCHANGED <<run, sinkVars, pgVars, log, gone, unheard, stored, fresh>>

\* MinAge has passed since the last chunk.
MinAgePasses ==
    /\ fresh # {}
    /\ fresh' = {}
    /\ UNCHANGED <<run, sinkVars, pgVars, log, sweep, gone, unheard, stored>>

PipelineNext ==
    \/ \E j \in JobIDs : StartRun(j) \/ (\E how \in Outcomes : EndRun(j, how))
                       \/ \E ok \in BOOLEAN : StreamChunk(j, ok)
    \/ ReceiveEvent \/ Tick \/ FlushCommit \/ FlushFails \/ FlushUnheard
    \/ LoopEnds \/ Stop \/ Crash \/ Restart \/ \E ok \in BOOLEAN : FinalFlush(ok)
    \/ Gather \/ Confirm \/ ConfirmFails \/ SweepEnds
    \/ \E k \in Keys, ok \in BOOLEAN : Delete(k, ok)
    \/ MinAgePasses

PipelineSpec == PipelineInit /\ [][PipelineNext]_pipelineVars

\* The sink's select takes each of its ready cases again and again, and
\* PostgreSQL does not fail every time.  A coordinator asked to stop does.
PipelineFairness ==
    /\ SF_pipelineVars(ReceiveEvent) /\ SF_pipelineVars(Tick) /\ SF_pipelineVars(FlushCommit)
    /\ WF_pipelineVars(Stop) /\ WF_pipelineVars(\E ok \in BOOLEAN : FinalFlush(ok))

PipelineFairSpec == PipelineSpec /\ PipelineFairness

-----------------------------------------------------------------------------
(* Properties.                                                             *)

Waiting == Among(chan) \cup Among(buf) \cup Among(batch)

\* Types, and the bounds of the channel and the buffer.
PipelineTypeOK ==
    /\ Len(chan) <= ChannelSize /\ Len(buf) <= BufferLimit
    /\ Len(batch) <= BufferLimit
    /\ pc \in {"loop", "flush", "ended", "final", "down"}
    /\ sweep.pc \in {"idle", "ask", "delete"} /\ sweep.keys \subseteq Keys

\* A chunk that Badger took is there still, or PostgreSQL has a row under its
\* key: the reconciler deletes nothing that was not confirmed, through failed
\* flushes, crashes and retries of the job between its passes.
KeptSomewhere ==
    \A k \in Keys : stored[k] # 0 => log[k] = stored[k] \/ rows[k] # 0

LandedAs(how) == Cardinality({e \in landed : e.kind = how})

\* Every event on its way is committed in the end, unless the channel or the
\* buffer was full or the coordinator stopped: failed flushes lose nothing.
ReachesPG ==
    \A j \in JobIDs, a \in 1 .. MaxAttempts :
        \A e \in {Ended(j, a, how) : how \in Outcomes}
                     \cup {Chunk(j, a, s) : s \in 1 .. MaxChunks} :
            (e \in Waiting) ~> (e \in landed \cup gone)

\* reconciler.go:7 "badger produces logs, then we save logs into postgres
\* analytics, then delete badger logs (the postgres are better, as long as we
\* dont lose any data from badger)": the last chunk Badger took under a key is
\* in one of the two.
LogKept ==
    \A k \in Keys : stored[k] # 0 => stored[k] \in {log[k], rows[k]}

\* reconciler.go:27 "A minimum-age gate keeps us from racing the sink's batched
\* flush. Entries younger than the gate are skipped even when confirmed".
YoungKept ==
    [][\A k \in fresh : log[k] # 0 => log'[k] # 0]_pipelineVars

\* 09-analytics-pipeline.md:153 "`job.failed` ... INCREMENT jobs_failed".
FailedCounted == tally["failed"] >= LandedAs("failed")

\* components.md:171 "On shutdown, drains remaining events": Stop loses no
\* event that has reached the sink, unless its last flush fails.
DrainedAtStop ==
    [][pc = "ended" /\ pc' = "final" => gone' = gone]_pipelineVars

=============================================================================
