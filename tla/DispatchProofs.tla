--------------------------- MODULE DispatchProofs ---------------------------
(***************************************************************************)
(* Proofs about Dispatch for any sets of jobs and nodes, any faults, any   *)
(* outcome of every SaveJob and any number of restarts: the runs of a job  *)
(* never overlap, and a completed job completed by the run of its attempt. *)
(*                                                                         *)
(* The inductive invariant relates, job by job, the record in memory, the  *)
(* record on disk and the flights.  Its core is that only the last flight  *)
(* can still report: a retry comes from the report of the last flight, so  *)
(* the run before is over when the next one is sent.                       *)
(***************************************************************************)
EXTENDS Dispatch, JobStoreProofs

\* The statuses in which a job waits to be sent.
Unsent == {"absent", "pending", "scheduled", "retrying"}

\* The statuses in which the last flight is the one the record is about.
Sent == {"dispatching", "running"}

\* The run has ended when the report is made; a run that has not ended has no
\* result.
RunFirst(f) ==
    /\ f.report # "none" => f.exec \in {"reporting", "replying", "gone"}
    /\ f.exec \in {"none", "running"} => f.result = "none"

\* The record names the attempt and the node of the last flight.
AboutLast(rec, F) ==
    rec.status \in Sent =>
        F # <<>> /\ F[Len(F)].attempt = rec.attempt /\ F[Len(F)].node = rec.node

\* A run of the attempt, on the node of the record, succeeded.
ByItsRun(rec, F) ==
    rec.status = "completed" =>
        \E i \in DOMAIN F : /\ F[i].attempt = rec.attempt
                            /\ F[i].node = rec.node
                            /\ F[i].result = "ok"

\* The flights F of a job, with m in memory and d on disk.
FlightInv(m, d, F) ==
    /\ F \in Seq(Flight)
    /\ \A i \in DOMAIN F : RunFirst(F[i])
    /\ \A i \in DOMAIN F : i # Len(F) => F[i].report = "done"
    /\ m.status \in Unsent => \A i \in DOMAIN F : F[i].report = "done"
    /\ AboutLast(m, F) /\ AboutLast(d, F)
    /\ ByItsRun(m, F) /\ ByItsRun(d, F)

Tick == [pc : {"idle", "pick", "send"}, queue : SUBSET Jobs,
         job : Jobs \cup {NoJobID}, node : Nodes \cup {NoNode}]

DispatchInv ==
    /\ StoreInv
    /\ tick \in Tick
    /\ tick.pc = "send" => tick.job \in Jobs /\ tick.node \in Nodes
    /\ DOMAIN flights = Jobs
    /\ \A j \in Jobs : FlightInv(jobs[j], disk[j], flights[j])

\* What a step may do to one flight f, now g: a result is not taken back, and
\* a report that is over stays over.
Calm(f, g) ==
    /\ g \in Flight
    /\ g.attempt = f.attempt /\ g.node = f.node
    /\ f.result = "ok" => g.result = "ok"
    /\ f.report = "done" => g.report = "done"
    /\ RunFirst(g)

\* The flights of every job are in order with the records of the next state.
Recorded == \A j \in Jobs : FlightInv(jobs'[j], disk'[j], flights[j])

-----------------------------------------------------------------------------
(* The flights of one job.                                                 *)

\* The last flight of a nonempty sequence is one of its flights.
LEMMA LastFlight ==
  ASSUME NEW F \in Seq(Flight), F # <<>>
  PROVE  Len(F) \in DOMAIN F /\ F[Len(F)] \in Flight
  OBVIOUS

\* One flight of a job takes a calm step.
LEMMA FlightStep ==
  ASSUME NEW m, NEW d, NEW F, FlightInv(m, d, F),
         NEW i \in DOMAIN F, NEW g, Calm(F[i], g)
  PROVE  FlightInv(m, d, [F EXCEPT ![i] = g])
  <1>1. F \in Seq(Flight) /\ g \in Flight
    BY DEF FlightInv, Calm
  <1>2. PICK G : G = [F EXCEPT ![i] = g]
    BY Zenon
  <1>3. /\ G \in Seq(Flight) /\ Len(G) = Len(F) /\ DOMAIN G = DOMAIN F
        /\ G[i] = g
        /\ \A k \in DOMAIN F : k # i => G[k] = F[k]
    BY <1>1, <1>2
  <1>4. \A k \in DOMAIN F : RunFirst(G[k])
    BY <1>3 DEF FlightInv, Calm
  <1>5. \A k \in DOMAIN F : F[k].report = "done" => G[k].report = "done"
    BY <1>3 DEF Calm
  <1>6. \A k \in DOMAIN F : /\ G[k].attempt = F[k].attempt
                            /\ G[k].node = F[k].node
                            /\ F[k].result = "ok" => G[k].result = "ok"
    BY <1>3 DEF Calm
  <1>7. ASSUME NEW r, AboutLast(r, F) PROVE AboutLast(r, G)
    <2> SUFFICES ASSUME r.status \in Sent
                 PROVE  /\ G # <<>>
                        /\ G[Len(G)].attempt = r.attempt
                        /\ G[Len(G)].node = r.node
      BY DEF AboutLast
    <2>1. F # <<>> /\ F[Len(F)].attempt = r.attempt /\ F[Len(F)].node = r.node
      BY <1>7 DEF AboutLast
    <2>2. Len(F) \in DOMAIN F
      BY <1>1, <2>1, LastFlight
    <2>3. G # <<>>
      BY <1>3
    <2> QED
      BY <1>3, <1>6, <2>1, <2>2, <2>3
  <1>8. ASSUME NEW r, ByItsRun(r, F) PROVE ByItsRun(r, G)
    BY <1>3, <1>6, <1>8 DEF ByItsRun
  <1>9. FlightInv(m, d, G)
    BY <1>3, <1>4, <1>5, <1>7, <1>8 DEF FlightInv
  <1> QED
    BY <1>2, <1>9

\* A new flight is sent when every earlier one has reported.
LEMMA SendStep ==
  ASSUME NEW m, NEW d, NEW F, FlightInv(m, d, F), m.status \in Unsent,
         NEW r, r.status = "dispatching", NEW g \in Flight,
         g.attempt = r.attempt, g.node = r.node, RunFirst(g)
  PROVE  FlightInv(r, r, Append(F, g))
  <1>1. F \in Seq(Flight) /\ \A i \in DOMAIN F : F[i].report = "done"
    BY DEF FlightInv
  <1>2. PICK G : G = Append(F, g)
    BY Zenon
  <1>3. /\ G \in Seq(Flight) /\ Len(G) = Len(F) + 1 /\ DOMAIN G = 1 .. Len(F) + 1
        /\ DOMAIN F = 1 .. Len(F) /\ Len(F) \in Nat
        /\ G[Len(F) + 1] = g
        /\ \A k \in DOMAIN F : G[k] = F[k]
    BY <1>1, <1>2
  <1>4. \A k \in DOMAIN G : k # Len(G) => k \in DOMAIN F
    BY <1>3
  <1>5. \A k \in DOMAIN G : k # Len(G) => G[k].report = "done"
    BY <1>1, <1>3, <1>4
  <1>6. \A k \in DOMAIN G : RunFirst(G[k])
    BY <1>3, <1>4 DEF FlightInv
  <1>7. AboutLast(r, G)
    BY <1>3 DEF AboutLast
  <1>8. FlightInv(r, r, G)
    BY <1>3, <1>5, <1>6, <1>7 DEF FlightInv, ByItsRun, Unsent
  <1> QED
    BY <1>2, <1>8

\* The flights are where they were, and the records have changed without a
\* new run to be about.
LEMMA RecordStep ==
  ASSUME NEW m, NEW d, NEW F, FlightInv(m, d, F), NEW p, NEW q,
         p.status \in Unsent => \A i \in DOMAIN F : F[i].report = "done",
         AboutLast(p, F), AboutLast(q, F), ByItsRun(p, F), ByItsRun(q, F)
  PROVE  FlightInv(p, q, F)
  BY DEF FlightInv

\* A step of the node, or of the coordinator, changes one flight.
LEMMA UpdateKeeps ==
  ASSUME Recorded, DOMAIN flights = Jobs,
         NEW j \in Jobs, NEW i \in DOMAIN flights[j], NEW g,
         Update(j, i, g), Calm(flights[j][i], g)
  PROVE  /\ DOMAIN flights' = Jobs
         /\ \A k \in Jobs : FlightInv(jobs'[k], disk'[k], flights'[k])
  <1>1. flights' = [flights EXCEPT ![j] = [flights[j] EXCEPT ![i] = g]]
    BY DEF Update
  <1>2. FlightInv(jobs'[j], disk'[j], flights[j])
    BY DEF Recorded
  <1>3. FlightInv(jobs'[j], disk'[j], [flights[j] EXCEPT ![i] = g])
    BY <1>2, FlightStep
  <1>4. ASSUME NEW k \in Jobs PROVE FlightInv(jobs'[k], disk'[k], flights'[k])
    <2>1. CASE k = j
      BY <1>1, <1>3, <2>1
    <2>2. CASE k # j
      BY <1>1, <2>2 DEF Recorded
    <2> QED
      BY <2>1, <2>2
  <1> QED
    BY <1>1, <1>4

-----------------------------------------------------------------------------
(* The records: what a critical section of the store leaves of them.       *)

\* A transition that sends nothing and completes nothing leaves a record that
\* is about the same flight, or about none.
LEMMA TransitionRecorded ==
  ASSUME DispatchInv, NEW j \in Jobs, NEW saved \in BOOLEAN, NEW n \in Nodes \cup {NoNode},
         NEW to \in {"scheduled", "dispatching", "running", "failed", "cancelled"},
         Transition(j, to, n, saved), to = "dispatching" => ~saved
  PROVE  Recorded
  <1>1. StoreInv /\ to \in TransitionTargets \cup {"cancelled"}
    BY DEF DispatchInv, TransitionTargets
  <1>2. FlightInv(jobs[j], disk[j], flights[j])
    BY DEF DispatchInv
  <1>3. \/ jobs[j].status = disk[j].status /\ jobs[j].attempt = disk[j].attempt
        \/ jobs[j].status = "retrying"
    BY <1>1 DEF StoreInv, PairOK
  <1>4. /\ to = "scheduled" => jobs[j].status = "pending"
        /\ to = "dispatching" => jobs[j].status \in {"pending", "scheduled"}
        /\ to = "running" => jobs[j].status = "dispatching"
        /\ jobs[j].status \notin {"retrying", "absent", "completed"}
    <2>1. jobs[j] \in Job
      BY <1>1 DEF StoreInv
    <2>2. jobs[j].status \in Status \cup {"absent"}
      BY <2>1 DEF Job
    <2> QED
      BY <2>2 DEF Transition, CanTransition, isAllowed, allowedTransitions, Exists,
                  IsTerminal, Status
  <1>5. PICK p : p = jobs'[j]
    OBVIOUS
  <1>6. PICK q : q = disk'[j]
    OBVIOUS
  <1>7. /\ \A k \in Jobs : k # j => jobs'[k] = jobs[k] /\ disk'[k] = disk[k]
        /\ saved => /\ p = q /\ p.status = to
                    /\ to \notin {"scheduled", "dispatching"} => p.node = jobs[j].node
        /\ ~saved => /\ q = disk[j] /\ p.status = jobs[j].status
                     /\ to \notin {"scheduled", "dispatching"} => p.node = jobs[j].node
        /\ p.attempt = jobs[j].attempt
    BY <1>1, <1>5, <1>6, TransitionEffect
  <1>8. FlightInv(p, q, flights[j])
    <2>1. p.status \in Unsent => jobs[j].status \in Unsent
      BY <1>4, <1>7 DEF Unsent
    <2>2. ASSUME p.status \in Sent
          PROVE  jobs[j].status \in Sent /\ p.node = jobs[j].node
      BY <1>4, <1>7, <2>2 DEF Sent
    <2>3. AboutLast(p, flights[j])
      BY <1>2, <1>7, <2>2 DEF AboutLast, FlightInv
    <2>4. AboutLast(q, flights[j])
      BY <1>2, <1>7, <2>3 DEF FlightInv
    <2>5. p.status # "completed"
      BY <1>4, <1>7
    <2>6. ByItsRun(p, flights[j]) /\ ByItsRun(q, flights[j])
      BY <1>2, <1>7, <2>5 DEF ByItsRun, FlightInv
    <2> QED
      BY <1>2, <2>1, <2>3, <2>4, <2>6, RecordStep DEF FlightInv
  <1> QED
    BY <1>5, <1>6, <1>7, <1>8 DEF Recorded, DispatchInv

\* MarkLost leaves a record that is about no flight, or leaves it alone.
LEMMA MarkLostRecorded ==
  ASSUME DispatchInv, NEW j \in Jobs, NEW saved \in BOOLEAN, MarkLost(j, saved)
  PROVE  Recorded
  <1>1. jobs \in [Jobs -> Job] /\ disk \in [Jobs -> Job]
    BY DEF DispatchInv, StoreInv
  <1>2. FlightInv(jobs[j], disk[j], flights[j])
    BY DEF DispatchInv
  <1>3. PICK rec : rec = [jobs[j] EXCEPT !.status = "lost"]
    BY Zenon
  <1>4. rec.status = "lost"
    BY <1>1, <1>3 DEF Job
  <1>5. FlightInv(rec, rec, flights[j])
    BY <1>2, <1>4, RecordStep DEF AboutLast, ByItsRun, Unsent, Sent
  <1>6. SaveJob(j, rec, jobs[j], saved)
    BY <1>3 DEF MarkLost
  <1>7. CASE saved
    BY <1>1, <1>5, <1>6, <1>7 DEF SaveJob, Recorded, DispatchInv
  <1>8. CASE ~saved
    BY <1>1, <1>6, <1>8 DEF SaveJob, Recorded, DispatchInv
  <1> QED
    BY <1>7, <1>8

\* A critical section that does nothing.
LEMMA SameRecorded ==
  ASSUME DispatchInv, UNCHANGED <<jobs, disk>>
  PROVE  Recorded
  BY DEF Recorded, DispatchInv

\* The store after a critical section of Dispatch on one job.
LEMMA StoreKept ==
  ASSUME DispatchInv, cancels' = cancels,
         jobs' \in [Jobs -> Job], disk' \in [Jobs -> Job],
         \A i \in Jobs : PairOK(jobs'[i], disk'[i])
  PROVE  StoreInv'
  BY DEF DispatchInv, StoreInv

\* The loop is where it was.
LEMMA TickKept ==
  ASSUME DispatchInv, tick' = tick
  PROVE  tick' \in Tick /\ (tick'.pc = "send" => tick'.job \in Jobs /\ tick'.node \in Nodes)
  BY DEF DispatchInv

-----------------------------------------------------------------------------
(* The flights in the steps of the nodes and of the faults.                *)

\* A flight of a job is a flight, and its run comes before its report.
LEMMA FlightTyped ==
  ASSUME DispatchInv, NEW j \in Jobs, NEW i \in DOMAIN flights[j]
  PROVE  flights[j][i] \in Flight /\ RunFirst(flights[j][i])
  BY DEF DispatchInv, FlightInv

\* A node, an RPC or a fault advances one flight and touches no record.
LEMMA QuietStep ==
  ASSUME DispatchInv, UNCHANGED <<storeVars, tick>>,
         NEW j \in Jobs, NEW i \in DOMAIN flights[j], NEW g,
         Update(j, i, g), Calm(flights[j][i], g)
  PROVE  DispatchInv'
  <1>1. jobs' = jobs /\ disk' = disk /\ cancels' = cancels /\ tick' = tick
    BY DEF storeVars
  <1>2. Recorded /\ DOMAIN flights = Jobs
    BY <1>1, SameRecorded DEF DispatchInv
  <1>3. StoreInv'
    BY <1>1 DEF DispatchInv, StoreInv
  <1>4. /\ DOMAIN flights' = Jobs
        /\ \A k \in Jobs : FlightInv(jobs'[k], disk'[k], flights'[k])
    BY <1>2, UpdateKeeps
  <1>5. tick' \in Tick /\ (tick'.pc = "send" => tick'.job \in Jobs /\ tick'.node \in Nodes)
    BY <1>1, TickKept
  <1> QED
    BY <1>3, <1>4, <1>5 DEF DispatchInv

\* Every step of the node is calm: it runs first, then reports, then replies.
LEMMA NodeStepInv ==
  ASSUME DispatchInv, NEW j \in Jobs, NEW i \in DOMAIN flights[j], NodeStep(j, i)
  PROVE  DispatchInv'
  <1>1. PICK f : f = flights[j][i]
    OBVIOUS
  <1>2. f \in Flight /\ RunFirst(f)
    BY <1>1, FlightTyped
  <1>3. CASE NodeReceive(j, i)
    <2>1. Update(j, i, [f EXCEPT !.exec = "running"]) /\ UNCHANGED <<storeVars, tick>>
      BY <1>1, <1>3 DEF NodeReceive
    <2>2. Calm(f, [f EXCEPT !.exec = "running"])
      BY <1>1, <1>2, <1>3 DEF NodeReceive, Calm, RunFirst, Flight
    <2> QED
      BY <1>1, <2>1, <2>2, QuietStep
  <1>4. CASE NodeAck(j, i)
    <2>1. Update(j, i, [f EXCEPT !.send = "done"]) /\ UNCHANGED <<storeVars, tick>>
      BY <1>1, <1>4 DEF NodeAck
    <2>2. Calm(f, [f EXCEPT !.send = "done"])
      BY <1>2 DEF Calm, RunFirst, Flight
    <2> QED
      BY <1>1, <2>1, <2>2, QuietStep
  <1>5. ASSUME NEW r \in {"ok", "exit", "reject"}, NodeFinish(j, i, r) PROVE DispatchInv'
    <2>1. /\ Update(j, i, [f EXCEPT !.exec = "reporting", !.result = r])
          /\ UNCHANGED <<storeVars, tick>>
      BY <1>1, <1>5 DEF NodeFinish
    <2>2. f.exec = "running"
      BY <1>1, <1>5 DEF NodeFinish
    <2>3. Calm(f, [f EXCEPT !.exec = "reporting", !.result = r])
      BY <1>2, <2>2, Zenon DEF Calm, RunFirst, Flight
    <2> QED
      BY <1>1, <2>1, <2>3, QuietStep
  <1>6. CASE NodeReport(j, i)
    <2>1. Update(j, i, [f EXCEPT !.report = "get"]) /\ UNCHANGED <<storeVars, tick>>
      BY <1>1, <1>6 DEF NodeReport
    <2>2. Calm(f, [f EXCEPT !.report = "get"])
      BY <1>1, <1>2, <1>6 DEF NodeReport, Calm, RunFirst, Flight
    <2> QED
      BY <1>1, <2>1, <2>2, QuietStep
  <1>7. CASE NodeReported(j, i)
    <2>1. PICK e : e = IF j \in services THEN "gone" ELSE "replying"
      OBVIOUS
    <2>2. Update(j, i, [f EXCEPT !.exec = e]) /\ UNCHANGED <<storeVars, tick>>
      BY <1>1, <1>7, <2>1 DEF NodeReported
    <2>3. e \in {"gone", "replying"}
      BY <2>1
    <2>4. Calm(f, [f EXCEPT !.exec = e])
      BY <1>2, <2>3 DEF Calm, RunFirst, Flight
    <2> QED
      BY <1>1, <2>2, <2>4, QuietStep
  <1>8. CASE NodeReply(j, i)
    <2>1. PICK s : s = IF f.send # "calling" THEN f.send
                       ELSE IF f.result = "reject" THEN "error" ELSE "done"
      OBVIOUS
    <2>2. Update(j, i, [f EXCEPT !.exec = "gone", !.send = s]) /\ UNCHANGED <<storeVars, tick>>
      BY <1>1, <1>8, <2>1 DEF NodeReply
    <2>3. s \in {"calling", "error", "done"}
      BY <1>2, <2>1 DEF Flight
    <2>4. Calm(f, [f EXCEPT !.exec = "gone", !.send = s])
      BY <1>2, <2>3, Zenon DEF Calm, RunFirst, Flight
    <2> QED
      BY <1>1, <2>2, <2>4, QuietStep
  <1> QED
    BY <1>3, <1>4, <1>5, <1>6, <1>7, <1>8 DEF NodeStep

\* The faults of RPCs and nodes: nothing is run again.
LEMMA FaultInv ==
  ASSUME DispatchInv, NEW j \in Jobs, NEW i \in DOMAIN flights[j],
         RpcFails(j, i) \/ NodeDies(j, i)
  PROVE  DispatchInv'
  <1>1. PICK f : f = flights[j][i]
    OBVIOUS
  <1>2. f \in Flight /\ RunFirst(f)
    BY <1>1, FlightTyped
  <1>3. CASE RpcFails(j, i)
    <2>1. Update(j, i, [f EXCEPT !.send = "error"]) /\ UNCHANGED <<storeVars, tick>>
      BY <1>1, <1>3 DEF RpcFails
    <2>2. Calm(f, [f EXCEPT !.send = "error"])
      BY <1>2 DEF Calm, RunFirst, Flight
    <2> QED
      BY <1>1, <2>1, <2>2, QuietStep
  <1>4. CASE NodeDies(j, i)
    <2>1. PICK s : s = IF f.send = "calling" THEN "error" ELSE f.send
      OBVIOUS
    <2>2. Update(j, i, [f EXCEPT !.exec = "gone", !.send = s]) /\ UNCHANGED <<storeVars, tick>>
      BY <1>1, <1>4, <2>1 DEF NodeDies
    <2>3. s \in {"calling", "error", "done"}
      BY <1>2, <2>1 DEF Flight
    <2>4. Calm(f, [f EXCEPT !.exec = "gone", !.send = s])
      BY <1>2, <2>3, Zenon DEF Calm, RunFirst, Flight
    <2> QED
      BY <1>1, <2>2, <2>4, QuietStep
  <1> QED
    BY <1>3, <1>4

-----------------------------------------------------------------------------
(* The coordinator: sendToNode and ReportResult.                           *)

\* A critical section of the store followed by the step of the flight.
LEMMA CoordinatorKept ==
  ASSUME DispatchInv, cancels' = cancels, tick' = tick, Recorded,
         jobs' \in [Jobs -> Job], disk' \in [Jobs -> Job],
         \A k \in Jobs : PairOK(jobs'[k], disk'[k]),
         NEW j \in Jobs, NEW i \in DOMAIN flights[j], NEW g,
         Update(j, i, g), Calm(flights[j][i], g)
  PROVE  DispatchInv'
  <1>1. StoreInv'
    BY StoreKept
  <1>2. DOMAIN flights = Jobs
    BY DEF DispatchInv
  <1>3. /\ DOMAIN flights' = Jobs
        /\ \A k \in Jobs : FlightInv(jobs'[k], disk'[k], flights'[k])
    BY <1>2, UpdateKeeps
  <1>4. tick' \in Tick /\ (tick'.pc = "send" => tick'.job \in Jobs /\ tick'.node \in Nodes)
    BY TickKept
  <1> QED
    BY <1>1, <1>3, <1>4 DEF DispatchInv

\* A transition that starts no run and completes no job, and then the flight.
LEMMA TransitionKept ==
  ASSUME DispatchInv, NEW j \in Jobs, NEW i \in DOMAIN flights[j], NEW saved \in BOOLEAN,
         NEW to \in {"running", "failed"}, NEW n \in Nodes \cup {NoNode}, NEW g,
         IF CanTransition(j, to) THEN Transition(j, to, n, saved)
                                 ELSE UNCHANGED <<jobs, disk>>,
         Update(j, i, g), Calm(flights[j][i], g), cancels' = cancels, tick' = tick
  PROVE  DispatchInv'
  <1>1. StoreInv
    BY DEF DispatchInv
  <1>2. CASE Transition(j, to, n, saved)
    <2>1. Recorded
      BY <1>2, TransitionRecorded
    <2>2. to \in TransitionTargets \cup {"cancelled"}
      BY DEF TransitionTargets
    <2>3. /\ jobs' \in [Jobs -> Job]
          /\ disk' \in [Jobs -> Job]
          /\ \A k \in Jobs : PairOK(jobs'[k], disk'[k])
      BY <1>1, <1>2, <2>2, TransitionInv
    <2> QED
      BY <2>1, <2>3, CoordinatorKept
  <1>3. CASE UNCHANGED <<jobs, disk>>
    <2>1. Recorded
      BY <1>3, SameRecorded
    <2>2. /\ jobs' \in [Jobs -> Job]
          /\ disk' \in [Jobs -> Job]
          /\ \A k \in Jobs : PairOK(jobs'[k], disk'[k])
      BY <1>1, <1>3 DEF StoreInv
    <2> QED
      BY <2>1, <2>2, CoordinatorKept
  <1> QED
    BY <1>2, <1>3

\* A failed send fails the job at most.
LEMMA SendFailInv ==
  ASSUME DispatchInv, NEW j \in Jobs, NEW i \in DOMAIN flights[j], NEW saved \in BOOLEAN,
         SendFail(j, i, saved)
  PROVE  DispatchInv'
  <1>1. PICK f : f = flights[j][i]
    OBVIOUS
  <1>2. f \in Flight /\ RunFirst(f)
    BY <1>1, FlightTyped
  <1>3. /\ Update(j, i, [f EXCEPT !.send = "done"])
        /\ cancels' = cancels /\ tick' = tick
        /\ IF CanTransition(j, "failed") THEN Transition(j, "failed", NoNode, saved)
                                         ELSE UNCHANGED <<jobs, disk>>
    BY <1>1 DEF SendFail
  <1>4. Calm(f, [f EXCEPT !.send = "done"])
    BY <1>2 DEF Calm, RunFirst, Flight
  <1> QED
    BY <1>1, <1>3, <1>4, TransitionKept

\* The report is checked against the node of the record.
LEMMA ReportGetInv ==
  ASSUME DispatchInv, NEW j \in Jobs, NEW i \in DOMAIN flights[j], ReportGet(j, i)
  PROVE  DispatchInv'
  <1>1. PICK f : f = flights[j][i]
    OBVIOUS
  <1>2. f \in Flight /\ RunFirst(f) /\ f.report = "get"
    BY <1>1, FlightTyped DEF ReportGet
  <1>3. PICK r : r = IF jobs[j].node # NoNode /\ jobs[j].node # f.node THEN "done"
                     ELSE IF jobs[j].status = "dispatching" THEN "toRunning" ELSE "toFinal"
    OBVIOUS
  <1>4. Update(j, i, [f EXCEPT !.report = r]) /\ UNCHANGED <<storeVars, tick>>
    BY <1>1, <1>3 DEF ReportGet
  <1>5. r \in {"done", "toRunning", "toFinal"}
    BY <1>3
  <1>6. Calm(f, [f EXCEPT !.report = r])
    BY <1>2, <1>5 DEF Calm, RunFirst, Flight
  <1> QED
    BY <1>1, <1>4, <1>6, QuietStep

\* dispatching -> running, for a report that skipped the status.
LEMMA ReportRunningInv ==
  ASSUME DispatchInv, NEW j \in Jobs, NEW i \in DOMAIN flights[j], NEW saved \in BOOLEAN,
         ReportRunning(j, i, saved)
  PROVE  DispatchInv'
  <1>1. PICK f : f = flights[j][i]
    OBVIOUS
  <1>2. f \in Flight /\ RunFirst(f) /\ f.report = "toRunning"
    BY <1>1, FlightTyped DEF ReportRunning
  <1>3. PICK r : r = IF CanTransition(j, "running") /\ saved THEN "toFinal" ELSE "done"
    OBVIOUS
  <1>4. /\ Update(j, i, [f EXCEPT !.report = r])
        /\ cancels' = cancels /\ tick' = tick
        /\ IF CanTransition(j, "running") THEN Transition(j, "running", f.node, saved)
                                          ELSE UNCHANGED <<jobs, disk>>
    BY <1>1, <1>3 DEF ReportRunning
  <1>5. r \in {"done", "toFinal"} /\ f.node \in Nodes
    BY <1>2, <1>3 DEF Flight
  <1>6. Calm(f, [f EXCEPT !.report = r])
    BY <1>2, <1>5 DEF Calm, RunFirst, Flight
  <1> QED
    BY <1>1, <1>4, <1>5, <1>6, TransitionKept

\* A job completes by the report of its last flight.
LEMMA CompletedRecorded ==
  ASSUME DispatchInv, NEW j \in Jobs, NEW i \in DOMAIN flights[j], NEW saved \in BOOLEAN,
         NEW n \in Nodes, Transition(j, "completed", n, saved),
         flights[j][i].report # "done", flights[j][i].result = "ok"
  PROVE  Recorded
  <1>1. StoreInv /\ "completed" \in TransitionTargets \cup {"cancelled"}
    BY DEF DispatchInv, TransitionTargets
  <1>2. FlightInv(jobs[j], disk[j], flights[j])
    BY DEF DispatchInv
  <1>3. jobs[j].status = "running"
    <2>1. jobs[j] \in Job
      BY <1>1 DEF StoreInv
    <2>2. jobs[j].status \in Status \cup {"absent"}
      BY <2>1 DEF Job
    <2> QED
      BY <2>2 DEF Transition, CanTransition, isAllowed, allowedTransitions, Status
  <1>4. i = Len(flights[j])
    BY <1>2 DEF FlightInv
  <1>5. /\ flights[j][i].attempt = jobs[j].attempt
        /\ flights[j][i].node = jobs[j].node
    BY <1>2, <1>3, <1>4 DEF FlightInv, AboutLast, Sent
  <1>6. PICK p : p = jobs'[j]
    OBVIOUS
  <1>7. PICK q : q = disk'[j]
    OBVIOUS
  <1>8. /\ \A k \in Jobs : k # j => jobs'[k] = jobs[k] /\ disk'[k] = disk[k]
        /\ saved => p = q /\ p.status = "completed"
        /\ ~saved => q = disk[j] /\ p.status = "running"
        /\ p.node = jobs[j].node
        /\ p.attempt = jobs[j].attempt
    BY <1>1, <1>3, <1>6, <1>7, TransitionEffect
  <1>9. FlightInv(p, q, flights[j])
    <2>1. p.status \notin Unsent
      BY <1>8 DEF Unsent
    <2>2. AboutLast(p, flights[j]) /\ ByItsRun(p, flights[j])
      <3>1. CASE saved
        BY <1>5, <1>8, <3>1 DEF AboutLast, ByItsRun, Sent
      <3>2. CASE ~saved
        BY <1>2, <1>3, <1>8, <3>2 DEF AboutLast, ByItsRun, FlightInv
      <3> QED
        BY <3>1, <3>2
    <2>3. AboutLast(q, flights[j]) /\ ByItsRun(q, flights[j])
      BY <1>2, <1>8, <2>2 DEF FlightInv
    <2> QED
      BY <1>2, <2>1, <2>2, <2>3, RecordStep
  <1> QED
    BY <1>6, <1>7, <1>8, <1>9 DEF Recorded, DispatchInv

\* The outcome of the report.
LEMMA ReportFinalInv ==
  ASSUME DispatchInv, NEW j \in Jobs, NEW i \in DOMAIN flights[j], NEW saved \in BOOLEAN,
         ReportFinal(j, i, saved)
  PROVE  DispatchInv'
  <1>1. PICK f : f = flights[j][i]
    OBVIOUS
  <1>2. f \in Flight /\ RunFirst(f) /\ f.report = "toFinal" /\ f.node \in Nodes
    BY <1>1, FlightTyped DEF ReportFinal, Flight
  <1>3. PICK to : to = targetStatus(f)
    OBVIOUS
  <1>4. PICK r : r = IF CanTransition(j, to) /\ saved THEN "retry" ELSE "done"
    OBVIOUS
  <1>5. /\ Update(j, i, [f EXCEPT !.report = r])
        /\ cancels' = cancels /\ tick' = tick
        /\ IF CanTransition(j, to) THEN Transition(j, to, f.node, saved)
                                   ELSE UNCHANGED <<jobs, disk>>
    BY <1>1, <1>3, <1>4 DEF ReportFinal
  <1>6. r \in {"done", "retry"}
    BY <1>4
  <1>7. Calm(f, [f EXCEPT !.report = r])
    BY <1>2, <1>6 DEF Calm, RunFirst, Flight
  <1>8. CASE f.result # "ok" \/ ~CanTransition(j, to)
    <2>1. \/ IF CanTransition(j, "failed") THEN Transition(j, "failed", f.node, saved)
                                           ELSE UNCHANGED <<jobs, disk>>
          \/ UNCHANGED <<jobs, disk>>
      BY <1>3, <1>5, <1>8 DEF targetStatus
    <2>2. CASE UNCHANGED <<jobs, disk>>
      <3>1. Recorded
        BY <2>2, SameRecorded
      <3>2. /\ jobs' \in [Jobs -> Job]
            /\ disk' \in [Jobs -> Job]
            /\ \A k \in Jobs : PairOK(jobs'[k], disk'[k])
        BY <2>2 DEF DispatchInv, StoreInv
      <3> QED
        BY <1>1, <1>5, <1>7, <3>1, <3>2, CoordinatorKept
    <2>3. CASE IF CanTransition(j, "failed") THEN Transition(j, "failed", f.node, saved)
                                             ELSE UNCHANGED <<jobs, disk>>
      BY <1>1, <1>2, <1>5, <1>7, <2>3, TransitionKept
    <2> QED
      BY <2>1, <2>2, <2>3
  <1>9. CASE f.result = "ok" /\ CanTransition(j, to)
    <2>1. Transition(j, "completed", f.node, saved)
      BY <1>3, <1>5, <1>9 DEF targetStatus
    <2>2. Recorded
      BY <1>1, <1>2, <1>9, <2>1, CompletedRecorded
    <2>3. /\ jobs' \in [Jobs -> Job]
          /\ disk' \in [Jobs -> Job]
          /\ \A k \in Jobs : PairOK(jobs'[k], disk'[k])
      BY <1>2, <2>1, TransitionInv DEF DispatchInv, TransitionTargets
    <2> QED
      BY <1>1, <1>5, <1>7, <2>2, <2>3, CoordinatorKept
  <1> QED
    BY <1>8, <1>9

\* A retry comes from the report of the last flight, which is then over: every
\* flight has reported when the job is pending again.
LEMMA ReportRetryInv ==
  ASSUME DispatchInv, NEW j \in Jobs, NEW i \in DOMAIN flights[j],
         NEW first \in BOOLEAN, NEW second \in BOOLEAN, ReportRetry(j, i, first, second)
  PROVE  DispatchInv'
  <1>1. PICK f : f = flights[j][i]
    OBVIOUS
  <1>2. f \in Flight /\ RunFirst(f) /\ f.report = "retry"
    BY <1>1, FlightTyped DEF ReportRetry
  <1>3. PICK g : g = [f EXCEPT !.report = "done"]
    BY Zenon
  <1>4. Calm(f, g) /\ g.report = "done"
    BY <1>2, <1>3 DEF Calm, RunFirst, Flight
  <1>5. Update(j, i, g) /\ cancels' = cancels /\ tick' = tick
    BY <1>1, <1>3 DEF ReportRetry
  <1>6. CASE UNCHANGED <<jobs, disk>>
    <2>1. UNCHANGED <<storeVars, tick>>
      BY <1>5, <1>6 DEF storeVars
    <2> QED
      BY <1>1, <1>4, <1>5, <2>1, QuietStep
  <1>7. CASE RetryIfEligible(j, first, second) /\ ~UNCHANGED <<jobs, disk>>
    <2>1. StoreInv /\ DOMAIN flights = Jobs
      BY DEF DispatchInv
    <2>2. /\ \A k \in Jobs : k # j => jobs'[k] = jobs[k] /\ disk'[k] = disk[k]
          /\ jobs'[j].status \in {"pending", "retrying"}
          /\ disk'[j].status \in {"pending", "retrying"}
      BY <1>7, <2>1, RetryEffect
    <2>3. /\ jobs' \in [Jobs -> Job]
          /\ disk' \in [Jobs -> Job]
          /\ \A k \in Jobs : PairOK(jobs'[k], disk'[k])
      BY <1>7, <2>1, RetryInv
    <2>4. StoreInv'
      BY <1>5, <2>3, StoreKept
    <2>5. FlightInv(jobs[j], disk[j], flights[j])
      BY DEF DispatchInv
    <2>6. PICK G : G = [flights[j] EXCEPT ![i] = g]
      BY Zenon
    <2>7. FlightInv(jobs[j], disk[j], G)
      BY <1>1, <1>4, <2>5, <2>6, FlightStep
    <2>8. \A k \in DOMAIN G : G[k].report = "done"
      <3>1. \A k \in DOMAIN flights[j] : k # i => flights[j][k].report = "done"
        BY <1>1, <1>2, <2>5 DEF FlightInv
      <3> QED
        BY <1>4, <2>6, <3>1
    <2>9. FlightInv(jobs'[j], disk'[j], G)
      BY <2>2, <2>7, <2>8, RecordStep DEF AboutLast, ByItsRun, Sent
    <2>10. flights' = [flights EXCEPT ![j] = G]
      BY <1>5, <2>6 DEF Update
    <2>11. \A k \in Jobs : FlightInv(jobs'[k], disk'[k], flights'[k])
      BY <2>1, <2>2, <2>9, <2>10 DEF DispatchInv
    <2>12. DOMAIN flights' = Jobs
      BY <2>1, <2>10
    <2>13. tick' \in Tick /\ (tick'.pc = "send" => tick'.job \in Jobs /\ tick'.node \in Nodes)
      BY <1>5, TickKept
    <2> QED
      BY <2>4, <2>11, <2>12, <2>13 DEF DispatchInv
  <1> QED
    BY <1>6, <1>7 DEF ReportRetry

-----------------------------------------------------------------------------
(* The dispatch loop, the API and a restart.                               *)

\* No flight moves.
LEMMA GroundKept ==
  ASSUME DispatchInv, StoreInv', Recorded, flights' = flights,
         tick' \in Tick, tick'.pc = "send" => tick'.job \in Jobs /\ tick'.node \in Nodes
  PROVE  DispatchInv'
  BY DEF DispatchInv, Recorded

\* A step of the loop that makes no transition.
LEMMA TickQuiet ==
  ASSUME DispatchInv, UNCHANGED <<storeVars, flights>>,
         tick' \in Tick, tick'.pc # "send"
  PROVE  DispatchInv'
  <1>1. StoreInv' /\ Recorded
    BY SameRecorded DEF storeVars, DispatchInv, StoreInv
  <1> QED
    BY <1>1, GroundKept

\* pending -> scheduled.
LEMMA TickPickInv ==
  ASSUME DispatchInv, NEW j \in Jobs, NEW n \in Nodes, NEW saved \in BOOLEAN,
         TickPick(j, n, saved)
  PROVE  DispatchInv'
  <1>1. StoreInv /\ tick \in Tick /\ tick.pc = "pick"
    BY DEF DispatchInv, TickPick
  <1>2. tick' \in Tick /\ (tick'.pc = "send" => tick'.job \in Jobs /\ tick'.node \in Nodes)
    <2>1. CASE tick' = [pc |-> "send", queue |-> tick.queue \ {j}, job |-> j, node |-> n]
      BY <1>1, <2>1 DEF Tick
    <2>2. CASE tick' = [tick EXCEPT !.queue = @ \ {j}]
      BY <1>1, <2>2 DEF Tick
    <2> QED
      BY <2>1, <2>2 DEF TickPick
  <1>3. flights' = flights /\ cancels' = cancels
    BY DEF TickPick
  <1>4. CASE Transition(j, "scheduled", n, saved)
    <2>1. Recorded
      BY <1>4, TransitionRecorded
    <2>2. StoreInv'
      BY <1>1, <1>3, <1>4, TransitionInv, StoreKept DEF TransitionTargets
    <2> QED
      BY <1>2, <1>3, <2>1, <2>2, GroundKept
  <1>5. CASE UNCHANGED <<jobs, disk>>
    <2>1. Recorded /\ StoreInv'
      BY <1>1, <1>3, <1>5, SameRecorded DEF StoreInv
    <2> QED
      BY <1>2, <1>3, <2>1, GroundKept
  <1> QED
    BY <1>4, <1>5 DEF TickPick

\* scheduled -> dispatching, and the next flight.
LEMMA TickSendInv ==
  ASSUME DispatchInv, NEW saved \in BOOLEAN, TickSend(saved)
  PROVE  DispatchInv'
  <1>1. StoreInv /\ tick \in Tick /\ tick.pc = "send" /\ DOMAIN flights = Jobs
    BY DEF DispatchInv, TickSend
  <1>2. PICK j \in Jobs : j = tick.job
    BY <1>1 DEF DispatchInv
  <1>3. PICK n \in Nodes : n = tick.node
    BY <1>1 DEF DispatchInv
  <1>4. tick' \in Tick /\ tick'.pc # "send"
    BY <1>1, Zenon DEF TickSend, Tick
  <1>5. cancels' = cancels
    BY DEF TickSend
  <1>6. CASE Transition(j, "dispatching", n, saved) /\ saved
    <2>0. "dispatching" \in TransitionTargets \cup {"cancelled"}
      BY DEF TransitionTargets
    <2>t. Transition(j, "dispatching", n, saved) /\ n \in Nodes \cup {NoNode}
      BY <1>6, Zenon
    <2>1. StoreInv'
      BY <1>1, <1>5, <2>0, <2>t, TransitionInv, StoreKept
    <2>2. PICK r : r = jobs'[j]
      OBVIOUS
    <2>3. n # NoNode
      BY StoreAssumption
    <2>4. /\ \A k \in Jobs : k # j => jobs'[k] = jobs[k] /\ disk'[k] = disk[k]
          /\ jobs'[j] = disk'[j]
          /\ jobs'[j].status = "dispatching"
          /\ jobs'[j].node = n
          /\ jobs'[j].attempt = jobs[j].attempt
      <3>1. /\ \A k \in Jobs : k # j => jobs'[k] = jobs[k] /\ disk'[k] = disk[k]
            /\ saved => /\ jobs'[j] = disk'[j]
                        /\ jobs'[j].status = "dispatching"
                        /\ n # NoNode => jobs'[j].node = n
            /\ jobs'[j].attempt = jobs[j].attempt
        BY <1>1, <2>0, <2>t, TransitionEffect
      <3> QED
        BY <1>6, <2>3, <3>1
    <2>5. jobs[j].status \in Unsent
      <3>1. jobs[j] \in Job
        BY <1>1 DEF StoreInv
      <3>2. jobs[j].status \in Status \cup {"absent"}
        BY <3>1 DEF Job
      <3> QED
        BY <1>6, <3>2 DEF Transition, CanTransition, isAllowed, allowedTransitions,
                          Status, Unsent
    <2>6. PICK g : g = NewFlight(j, n)
      OBVIOUS
    <2>7. jobs[j].attempt \in Nat
      BY <1>1, JobNumbers DEF StoreInv
    <2>8. g \in Flight /\ g.attempt = jobs[j].attempt /\ g.node = n /\ RunFirst(g)
      BY <2>6, <2>7 DEF NewFlight, Flight, RunFirst
    <2>9. FlightInv(r, r, Append(flights[j], g))
      BY <2>2, <2>4, <2>5, <2>8, SendStep DEF DispatchInv
    <2>10. flights' = [flights EXCEPT ![j] = Append(flights[j], g)]
      BY <1>2, <1>3, <1>6, <2>6 DEF TickSend, Transition
    <2>11. \A k \in Jobs : FlightInv(jobs'[k], disk'[k], flights'[k])
      BY <1>1, <2>2, <2>4, <2>9, <2>10 DEF DispatchInv
    <2>12. DOMAIN flights' = Jobs
      BY <1>1, <2>10
    <2> QED
      BY <1>4, <2>1, <2>11, <2>12 DEF DispatchInv
  <1>7. CASE Transition(j, "dispatching", n, saved) /\ ~saved
    <2>1. flights' = flights
      BY <1>7 DEF TickSend
    <2>2. Recorded
      BY <1>7, TransitionRecorded
    <2>3. StoreInv'
      BY <1>1, <1>5, <1>7, TransitionInv, StoreKept DEF TransitionTargets
    <2> QED
      BY <1>4, <2>1, <2>2, <2>3, GroundKept
  <1>8. CASE ~CanTransition(j, "dispatching")
    <2>1. UNCHANGED <<storeVars, flights>>
      BY <1>2, <1>5, <1>8 DEF TickSend, storeVars
    <2> QED
      BY <1>4, <2>1, TickQuiet
  <1> QED
    BY <1>2, <1>3, <1>6, <1>7, <1>8 DEF TickSend

\* The loop.
LEMMA LoopInv ==
  ASSUME DispatchInv, Loop
  PROVE  DispatchInv'
  <1>1. tick \in Tick
    BY DEF DispatchInv
  <1>2. CASE TickStart
    <2>1. tick' \in Tick /\ tick'.pc # "send"
      BY <1>2, Zenon DEF TickStart, IdleTick, Tick
    <2> QED
      BY <1>2, <2>1, TickQuiet DEF TickStart
  <1>3. ASSUME NEW j \in Jobs, TickSkip(j) PROVE DispatchInv'
    <2>1. tick' \in Tick /\ tick'.pc # "send"
      BY <1>1, <1>3 DEF TickSkip, Tick
    <2> QED
      BY <1>3, <2>1, TickQuiet DEF TickSkip
  <1>4. CASE TickEnd
    <2>1. tick' \in Tick /\ tick'.pc # "send"
      BY <1>4 DEF TickEnd, IdleTick, Tick
    <2> QED
      BY <1>4, <2>1, TickQuiet DEF TickEnd
  <1>5. SaveResults \subseteq BOOLEAN
    BY StoreAssumption
  <1> QED
    BY <1>2, <1>3, <1>4, <1>5, TickPickInv, TickSendInv DEF Loop

\* Submit: a job that has never been sent.
LEMMA ApiSubmitInv ==
  ASSUME DispatchInv, NEW j \in Jobs, NEW max \in RetryLimits, NEW saved \in BOOLEAN,
         ApiSubmit(j, max, saved)
  PROVE  DispatchInv'
  <1>1. Submit(j, max, saved) /\ cancels' = cancels /\ flights' = flights /\ tick' = tick
    BY DEF ApiSubmit, loopVars
  <1>2. StoreInv /\ jobs \in [Jobs -> Job] /\ disk \in [Jobs -> Job]
    BY DEF DispatchInv, StoreInv
  <1>3. StoreInv'
    BY <1>1, <1>2, SubmitInv, StoreKept
  <1>4. jobs[j].status \in Unsent /\ FlightInv(jobs[j], disk[j], flights[j])
    BY <1>1 DEF Submit, Exists, Unsent, DispatchInv
  <1>5. /\ \A k \in Jobs : k # j => jobs'[k] = jobs[k] /\ disk'[k] = disk[k]
        /\ jobs'[j].status \in {"pending", "absent"}
        /\ disk'[j].status = "pending" \/ disk'[j] = disk[j]
    BY <1>1, <1>2 DEF Submit, SaveJob, NewJob, NoJob
  <1>6. FlightInv(jobs'[j], disk'[j], flights[j])
    <2>1. AboutLast(jobs'[j], flights[j]) /\ ByItsRun(jobs'[j], flights[j])
      BY <1>5 DEF AboutLast, ByItsRun, Sent
    <2>2. AboutLast(disk'[j], flights[j]) /\ ByItsRun(disk'[j], flights[j])
      BY <1>4, <1>5 DEF AboutLast, ByItsRun, Sent, FlightInv
    <2>3. \A i \in DOMAIN flights[j] : flights[j][i].report = "done"
      BY <1>4 DEF FlightInv
    <2> QED
      BY <1>4, <2>1, <2>2, <2>3, RecordStep
  <1>7. Recorded
    BY <1>5, <1>6 DEF Recorded, DispatchInv
  <1> QED
    BY <1>1, <1>3, <1>7, TickKept, GroundKept

\* CancelJob: the job ends without a run having completed it.
LEMMA ApiCancelInv ==
  ASSUME DispatchInv, ApiCancel
  PROVE  DispatchInv'
  <1>1. StoreInv /\ flights' = flights /\ tick' = tick
    BY DEF DispatchInv, ApiCancel, loopVars
  <1>2. ASSUME NEW j \in Jobs, CancelJob(j) PROVE DispatchInv'
    <2>1. UNCHANGED <<jobs, disk>> /\ cancels' \subseteq CancelCalls
      BY <1>1, <1>2 DEF CancelJob, CancelCalls, StoreInv
    <2>2. StoreInv' /\ Recorded
      BY <1>1, <2>1, SameRecorded DEF StoreInv
    <2> QED
      BY <1>1, <2>2, TickKept, GroundKept
  <1>3. ASSUME NEW c \in cancels, NEW saved \in SaveResults, CancelAct(c, saved)
        PROVE  DispatchInv'
    <2>1. saved \in BOOLEAN /\ c.job \in Jobs
      BY <1>1, StoreAssumption DEF StoreInv, CancelCalls
    <2>2. StoreInv'
      BY <1>1, <1>3, <2>1, CancelActInv
    <2>3. CASE Transition(c.job, "cancelled", NoNode, saved)
      <3>1. Recorded
        BY <2>1, <2>3, TransitionRecorded
      <3> QED
        BY <1>1, <2>2, <3>1, TickKept, GroundKept
    <2>4. CASE MarkLost(c.job, saved)
      <3>1. Recorded
        BY <2>1, <2>4, MarkLostRecorded
      <3> QED
        BY <1>1, <2>2, <3>1, TickKept, GroundKept
    <2>5. CASE UNCHANGED <<jobs, disk>>
      <3>1. Recorded
        BY <2>5, SameRecorded
      <3> QED
        BY <1>1, <2>2, <3>1, TickKept, GroundKept
    <2> QED
      BY <1>3, <2>3, <2>4, <2>5 DEF CancelAct
  <1> QED
    BY <1>2, <1>3 DEF ApiCancel

\* What a restart of the coordinator leaves of one flight.
LEMMA CrashedFlight ==
  ASSUME NEW f \in Flight, RunFirst(f), NEW g,
         g = [f EXCEPT !.send = "done",
                       !.exec = IF @ = "none" THEN "gone" ELSE @,
                       !.report = IF @ = "none" THEN @ ELSE "done"]
  PROVE  Calm(f, g) /\ g.result = f.result
  <1>1. PICK e : e = IF f.exec = "none" THEN "gone" ELSE f.exec
    OBVIOUS
  <1>2. PICK r : r = IF f.report = "none" THEN f.report ELSE "done"
    OBVIOUS
  <1>3. g = [f EXCEPT !.send = "done", !.exec = e, !.report = r]
    BY <1>1, <1>2
  <1>4. /\ e \in {"none", "running", "reporting", "replying", "gone"}
        /\ r \in {"none", "done"}
    BY <1>1, <1>2 DEF Flight
  <1>5. g \in Flight
    BY <1>3, <1>4, Zenon DEF Flight
  <1>6. /\ g.attempt = f.attempt /\ g.node = f.node /\ g.result = f.result
        /\ g.exec = e /\ g.report = r
    BY <1>3, Zenon DEF Flight
  <1>7. RunFirst(g)
    BY <1>1, <1>2, <1>6 DEF RunFirst
  <1>8. f.report = "done" => g.report = "done"
    BY <1>2, <1>6
  <1> QED
    BY <1>5, <1>6, <1>7, <1>8 DEF Calm

\* The flights of one job after a restart, beside the record of the disk.
LEMMA CrashedFlights ==
  ASSUME NEW m, NEW d, NEW F, FlightInv(m, d, F), m.status = d.status,
         NEW G \in [DOMAIN F -> Flight],
         \A i \in DOMAIN F : Calm(F[i], G[i])
  PROVE  FlightInv(d, d, G)
  <1>1. F \in Seq(Flight)
    BY DEF FlightInv
  <1>2. G \in Seq(Flight) /\ Len(G) = Len(F) /\ DOMAIN G = DOMAIN F
    BY <1>1
  <1>3. \A i \in DOMAIN F : RunFirst(G[i])
    BY DEF Calm
  <1>4. \A i \in DOMAIN F : F[i].report = "done" => G[i].report = "done"
    BY DEF Calm
  <1>5. \A i \in DOMAIN F : /\ G[i].attempt = F[i].attempt /\ G[i].node = F[i].node
                            /\ F[i].result = "ok" => G[i].result = "ok"
    BY DEF Calm
  <1>6. AboutLast(d, G)
    <2> SUFFICES ASSUME d.status \in Sent
                 PROVE  /\ G # <<>>
                        /\ G[Len(G)].attempt = d.attempt
                        /\ G[Len(G)].node = d.node
      BY DEF AboutLast
    <2>1. F # <<>> /\ F[Len(F)].attempt = d.attempt /\ F[Len(F)].node = d.node
      BY DEF AboutLast, FlightInv
    <2>2. Len(F) \in DOMAIN F
      BY <1>1, <2>1, LastFlight
    <2> QED
      BY <1>2, <1>5, <2>1, <2>2
  <1>7. ByItsRun(d, G)
    BY <1>2, <1>5 DEF ByItsRun, FlightInv
  <1> QED
    BY <1>2, <1>3, <1>4, <1>6, <1>7 DEF FlightInv

\* A restart: the handlers are gone, and so are the requests that had not
\* arrived; what runs on the nodes is the last flight, as before.
LEMMA CrashInv ==
  ASSUME DispatchInv, CoordinatorCrash
  PROVE  DispatchInv'
  <1>1. StoreInv /\ jobs' = disk /\ disk' = disk
    BY Zenon DEF DispatchInv, CoordinatorCrash, CrashRestore
  <1>2. StoreInv'
    BY <1>1, CrashRestoreInv, Zenon DEF CoordinatorCrash
  <1>3. tick' \in Tick /\ tick'.pc # "send"
    BY Zenon DEF CoordinatorCrash, IdleTick, Tick
  <1>4. DOMAIN flights' = Jobs
    BY Zenon DEF CoordinatorCrash
  <1>5. ASSUME NEW j \in Jobs PROVE FlightInv(disk[j], disk[j], flights'[j])
    <2>1. FlightInv(jobs[j], disk[j], flights[j]) /\ jobs[j].status = disk[j].status
      BY <1>1 DEF DispatchInv, StoreInv, PairOK
    <2>2. PICK F : F = flights[j]
      OBVIOUS
    <2>3. PICK G : G = flights'[j]
      OBVIOUS
    <2>4. G = [i \in DOMAIN F |->
                 [F[i] EXCEPT !.send = "done",
                              !.exec = IF @ = "none" THEN "gone" ELSE @,
                              !.report = IF @ = "none" THEN @ ELSE "done"]]
      BY <2>2, <2>3, Zenon DEF CoordinatorCrash
    <2>5. ASSUME NEW i \in DOMAIN F PROVE Calm(F[i], G[i])
      <3>1. F[i] \in Flight /\ RunFirst(F[i])
        BY <2>2, FlightTyped
      <3>2. G[i] = [F[i] EXCEPT !.send = "done",
                                !.exec = IF @ = "none" THEN "gone" ELSE @,
                                !.report = IF @ = "none" THEN @ ELSE "done"]
        BY <2>4, Zenon
      <3> QED
        BY <3>1, <3>2, CrashedFlight, Zenon
    <2>6. G \in [DOMAIN F -> Flight]
      <3>1. \A i \in DOMAIN F : G[i] \in Flight
        BY <2>5 DEF Calm
      <3>2. PICK H : H = [i \in DOMAIN F |-> G[i]]
        BY Zenon
      <3>3. H \in [DOMAIN F -> Flight]
        BY <3>1, <3>2
      <3>4. G = H
        BY <2>4, <3>2, Zenon
      <3> QED
        BY <3>3, <3>4
    <2>7. FlightInv(disk[j], disk[j], G)
      BY <2>1, <2>2, <2>5, <2>6, CrashedFlights
    <2> QED
      BY <2>3, <2>7
  <1> QED
    BY <1>1, <1>2, <1>3, <1>4, <1>5 DEF DispatchInv

-----------------------------------------------------------------------------

\* Initially no job has a flight.
LEMMA DispatchInit == Init => DispatchInv
  <1> SUFFICES ASSUME Init PROVE DispatchInv
    OBVIOUS
  <1>1. StoreInv
    BY StoreInvInit DEF Init
  <1>2. tick \in Tick /\ tick.pc # "send"
    BY DEF Init, IdleTick, Tick
  <1>3. DOMAIN flights = Jobs
    BY DEF Init
  <1>4. ASSUME NEW j \in Jobs PROVE FlightInv(jobs[j], disk[j], flights[j])
    <2>1. flights[j] = <<>> /\ jobs[j].status = "absent" /\ disk[j].status = "absent"
      BY DEF Init, StoreInit, NoJob
    <2> QED
      BY <2>1 DEF FlightInv, AboutLast, ByItsRun, Sent
  <1> QED
    BY <1>1, <1>2, <1>3, <1>4 DEF DispatchInv

\* The invariant is inductive.
LEMMA DispatchNext == DispatchInv /\ [Next]_vars => DispatchInv'
  <1> SUFFICES ASSUME DispatchInv, [Next]_vars PROVE DispatchInv'
    OBVIOUS
  <1>1. SaveResults \subseteq BOOLEAN
    BY StoreAssumption
  <1>2. CASE Loop
    BY <1>2, LoopInv
  <1>3. ASSUME NEW j \in Jobs, NEW i \in DOMAIN flights[j],
               NodeStep(j, i) \/ CoordinatorStep(j, i) \/ RpcFails(j, i) \/ NodeDies(j, i)
        PROVE  DispatchInv'
    <2>1. CASE NodeStep(j, i)
      BY <2>1, NodeStepInv
    <2>2. CASE RpcFails(j, i) \/ NodeDies(j, i)
      BY <2>2, FaultInv
    <2>3. CASE ReportGet(j, i)
      BY <2>3, ReportGetInv
    <2>4. ASSUME NEW saved \in SaveResults, SendFail(j, i, saved) PROVE DispatchInv'
      BY <1>1, <2>4, SendFailInv
    <2>5. ASSUME NEW saved \in SaveResults, ReportRunning(j, i, saved) PROVE DispatchInv'
      BY <1>1, <2>5, ReportRunningInv
    <2>6. ASSUME NEW saved \in SaveResults, ReportFinal(j, i, saved) PROVE DispatchInv'
      BY <1>1, <2>6, ReportFinalInv
    <2>7. ASSUME NEW first \in SaveResults, NEW second \in SaveResults,
                 ReportRetry(j, i, first, second)
          PROVE  DispatchInv'
      BY <1>1, <2>7, ReportRetryInv
    <2> QED
      BY <1>3, <2>1, <2>2, <2>3, <2>4, <2>5, <2>6, <2>7 DEF CoordinatorStep
  <1>4. ASSUME NEW j \in Jobs, NEW max \in RetryLimits, NEW saved \in SaveResults,
               ApiSubmit(j, max, saved)
        PROVE  DispatchInv'
    BY <1>1, <1>4, ApiSubmitInv
  <1>5. CASE ApiCancel
    BY <1>5, ApiCancelInv
  <1>6. CASE CoordinatorCrash
    BY <1>6, CrashInv
  <1>7. CASE UNCHANGED <<storeVars, tick, flights>>
    <2>1. StoreInv' /\ Recorded /\ flights' = flights /\ tick' = tick
      BY <1>7, SameRecorded DEF storeVars, DispatchInv, StoreInv
    <2> QED
      BY <2>1, TickKept, GroundKept
  <1>8. ASSUME NEW j \in Jobs, BackoffEnds(j) PROVE DispatchInv'
    BY <1>7, <1>8 DEF BackoffEnds
  <1>9. ASSUME NEW n \in Nodes, HealthFlips(n) PROVE DispatchInv'
    BY <1>7, <1>9 DEF HealthFlips
  <1>10. CASE UNCHANGED vars
    BY <1>7, <1>10 DEF vars, storeVars
  <1> QED
    BY <1>2, <1>3, <1>4, <1>5, <1>6, <1>8, <1>9, <1>10 DEF Next

\* The records and the flights stay in order throughout every execution.
THEOREM DispatchInvariant == Spec => []DispatchInv
  BY DispatchInit, DispatchNext, PTL DEF Spec

\* However many Dispatch RPCs time out and leave a run behind, fail-overs,
\* retries, failed saves and restarts included, two runs of a job never
\* overlap: ReportResult is the only way to RetryIfEligible.
THEOREM RunsNeverOverlap == Spec => []OneRunAtATime
  <1>1. ASSUME DispatchInv PROVE OneRunAtATime
    <2> SUFFICES ASSUME NEW j \in Jobs, NEW i \in DOMAIN flights[j],
                        NEW k \in DOMAIN flights[j],
                        flights[j][i].exec = "running", flights[j][k].exec = "running"
                 PROVE  i = k
      BY DEF OneRunAtATime
    <2>1. flights[j][i].report = "none" /\ flights[j][k].report = "none"
      BY <1>1, FlightTyped DEF RunFirst
    <2>2. i = Len(flights[j]) /\ k = Len(flights[j])
      BY <1>1, <2>1 DEF DispatchInv, FlightInv
    <2> QED
      BY <2>2
  <1> QED
    BY <1>1, DispatchInvariant, PTL

\* A completed job completed by the successful run of the attempt and the node
\* that its record names: the node check of ReportResult and the transition
\* table let no report of an earlier attempt through.
THEOREM CompletionIsByItsRun == Spec => []CompletedByItsRun
  <1>1. ASSUME DispatchInv PROVE CompletedByItsRun
    BY <1>1 DEF DispatchInv, FlightInv, ByItsRun, CompletedByItsRun
  <1> QED
    BY <1>1, DispatchInvariant, PTL

=============================================================================
