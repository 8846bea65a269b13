----------------------------- MODULE NodeAgent -----------------------------
(***************************************************************************)
(* What a node does with the jobs it is sent:                              *)
(*   internal/nodeserver/server.go   Dispatch, runAndReportService, Cancel *)
(*   internal/staging/staging.go     the working directory and artifacts   *)
(*   internal/runtime/go_runtime.go  Run and Cancel                        *)
(*   internal/runtime/rust_client.go Run, with the same use of devices     *)
(*   internal/runtime/gpu_alloc.go   the GPU devices                       *)
(* A call is one Dispatch request: a goroutine that stages the inputs,     *)
(* claims devices, runs the process, gives everything back and reports.    *)
(* Calls run concurrently; a step is a critical section of the allocator   *)
(* or of the runtime, or one operation on the file system.                 *)
(*                                                                         *)
(* The calls of one job are its attempts.  The coordinator sends a new one *)
(* only after the report of the last one (Dispatch.tla), which a node      *)
(* makes after it has given everything back.                               *)
(***************************************************************************)
EXTENDS Naturals, FiniteSets

CONSTANTS
    Jobs,      \* job IDs
    NoJobID,   \* owner of a free device
    Calls,     \* Dispatch requests
    NoCall,    \* no entry in the runtime's running map
    JobOf,     \* JobOf[c]: the job of request c
    Gpus,      \* Gpus[j]: devices the job asks for; bounded by the API (maxGPUs)
    Total,     \* devices of the node
    Wrap,      \* 2^32 in the code: the range of the uint32 sum in Allocate
    Outputs,   \* Outputs[j]: artifacts the job declares
    Staged,    \* jobs with a working directory or artifacts
    Services,  \* jobs with a service block
    Keep       \* HELION_KEEP_WORKDIR

ASSUME NodeAssumption ==
    /\ NoJobID \notin Jobs
    /\ NoCall \notin Calls
    /\ JobOf \in [Calls -> Jobs]
    /\ Gpus \in [Jobs -> Nat]
    /\ Total \in Nat
    /\ Wrap \in Nat
    /\ \A j \in Jobs : Total + Gpus[j] < Wrap
    /\ Staged \subseteq Jobs
    /\ Services \subseteq Jobs
    /\ Keep \in BOOLEAN

VARIABLES
    call,      \* call[c]: the goroutine of request c
    busy,      \* GPUAllocator.busy: device -> job that owns it
    running,   \* GoRuntime.running: job -> call whose context its Cancel ends
    dirs,      \* jobs whose working directory exists
    uploads,   \* uploads[j]: outputs of j in the artifact store
    count      \* Server.runningJobs

vars == <<call, busy, running, dirs, uploads, count>>

Devices == 0..(Total - 1)

PC == {"idle", "mint", "stage", "ack", "alloc", "start", "run", "leave", "release",
       "upload", "clean", "report", "reply", "done"}

\* ok:      the run has not failed
\* ctx:     the context of the request still lives
\* killed:  Cancel has ended the context of the process
\* counted: the request is in Server.runningJobs
\* sees:    CUDA_VISIBLE_DEVICES of the process
Call == [pc : PC, ok : BOOLEAN, ctx : BOOLEAN, killed : BOOLEAN, counted : BOOLEAN,
         sees : SUBSET Devices]

NewCall == [pc |-> "idle", ok |-> TRUE, ctx |-> TRUE, killed |-> FALSE, counted |-> FALSE,
            sees |-> {}]

Init ==
    /\ call = [c \in Calls |-> NewCall]
    /\ busy = [d \in Devices |-> NoJobID]
    /\ running = [j \in Jobs |-> NoCall]
    /\ dirs = {}
    /\ uploads = [j \in Jobs |-> {}]
    /\ count = 0

At(c, pc) == call[c].pc = pc

Go(c, pc) == call' = [call EXCEPT ![c].pc = pc]

Fail(c, pc) == call' = [call EXCEPT ![c].pc = pc, ![c].ok = FALSE]

Live(c) == call[c].pc \notin {"idle", "reply", "done"}

-----------------------------------------------------------------------------
(* Dispatch: the request, the working directory, the inputs.               *)

Receive(c) ==
    /\ At(c, "idle")
    /\ \A b \in Calls : JobOf[b] = JobOf[c] => ~Live(b)
    /\ call' = [call EXCEPT ![c].pc = IF JobOf[c] \in Staged THEN "mint" ELSE "ack",
                            ![c].counted = TRUE]
    /\ count' = count + 1
    /\ UNCHANGED <<busy, running, dirs, uploads>>

\* mintWorkDir: an existing directory is an error.
Mint(c) ==
    /\ At(c, "mint")
    /\ IF JobOf[c] \in dirs THEN Fail(c, "report") /\ UNCHANGED dirs
       ELSE Go(c, "stage") /\ dirs' = dirs \cup {JobOf[c]}
    /\ UNCHANGED <<busy, running, uploads, count>>

Cleanup(j) == dirs' = IF Keep THEN dirs ELSE dirs \ {j}

\* Prepare's rollback: a download fails or the context has ended.
StageFails(c) ==
    /\ At(c, "stage")
    /\ Fail(c, "report")
    /\ Cleanup(JobOf[c])
    /\ UNCHANGED <<busy, running, uploads, count>>

StageDone(c) ==
    /\ At(c, "stage")
    /\ call[c].ctx
    /\ Go(c, "ack")
    /\ UNCHANGED <<busy, running, dirs, uploads, count>>

\* A service is acked before it runs: Dispatch returns, and so does its count,
\* and a goroutine with a context of its own goes on.
Ack(c) ==
    /\ At(c, "ack")
    /\ IF JobOf[c] \in Services
       THEN /\ call' = [call EXCEPT ![c].pc = "alloc", ![c].counted = FALSE]
            /\ count' = count - 1
       ELSE Go(c, "alloc") /\ UNCHANGED count
    /\ UNCHANGED <<busy, running, dirs, uploads>>

-----------------------------------------------------------------------------
(* Run.                                                                    *)

Claimed == {d \in Devices : busy[d] # NoJobID}

Free == Devices \ Claimed

\* The loop of Allocate: the n lowest free indices.
Picked(n) == {d \in Free : Cardinality({e \in Free : e < d}) < n}

Insufficient(n) == (Cardinality(Claimed) + n) % Wrap > Total

\* The command is not allowed, or fewer devices are free than asked for.
RunRefused(c) ==
    /\ At(c, "alloc")
    /\ Fail(c, "upload")
    /\ UNCHANGED <<busy, running, dirs, uploads, count>>

\* Mutant: the check is off by one.
Allocate_OffByOne(c) ==
    LET n == Gpus[JobOf[c]]
        picked == Picked(n) IN
    /\ At(c, "alloc")
    /\ n = 0 \/ Cardinality(Claimed) + n <= Total + 1
    /\ call' = [call EXCEPT ![c].pc = "start", ![c].sees = picked]
    /\ busy' = [d \in Devices |-> IF d \in picked THEN JobOf[c] ELSE busy[d]]
    /\ UNCHANGED <<running, dirs, uploads, count>>

\* A CPU job claims nothing and sees nothing.
Allocate(c) ==
    LET n == Gpus[JobOf[c]]
        picked == Picked(n) IN
    /\ At(c, "alloc")
    /\ n = 0 \/ ~Insufficient(n)
    /\ call' = [call EXCEPT ![c].pc = "start", ![c].sees = picked]
    /\ busy' = [d \in Devices |-> IF d \in picked THEN JobOf[c] ELSE busy[d]]
    /\ UNCHANGED <<running, dirs, uploads, count>>

Start(c) ==
    /\ At(c, "start")
    /\ Go(c, "run")
    /\ running' = [running EXCEPT ![JobOf[c]] = c]
    /\ UNCHANGED <<busy, dirs, uploads, count>>

\* The process exits, is killed by its timeout or by a cancelled context.
Exit(c, ok) ==
    /\ At(c, "run")
    /\ call' = [call EXCEPT ![c].pc = "leave", ![c].ok = ok]
    /\ UNCHANGED <<busy, running, dirs, uploads, count>>

\* The deferred function of Run, in its two critical sections.
Leave(c) ==
    /\ At(c, "leave")
    /\ Go(c, "release")
    /\ running' = [running EXCEPT ![JobOf[c]] = NoCall]
    /\ UNCHANGED <<busy, dirs, uploads, count>>

\* Release frees every device the job owns.
Release(c) ==
    /\ At(c, "release")
    /\ call' = [call EXCEPT ![c].pc = "upload", ![c].sees = {}]
    /\ busy' = [d \in Devices |-> IF busy[d] = JobOf[c] THEN NoJobID ELSE busy[d]]
    /\ UNCHANGED <<running, dirs, uploads, count>>

-----------------------------------------------------------------------------
(* Finalize, the report and the reply.                                     *)

\* Mutant: the outputs of a failed run are uploaded too.
Upload_Always(c, sent) ==
    /\ At(c, "upload")
    /\ uploads' = [uploads EXCEPT ![JobOf[c]] = @ \cup sent]
    /\ Go(c, "clean")
    /\ UNCHANGED <<busy, running, dirs, count>>

\* The outputs of a successful run go to the store one by one; the first one
\* that fails ends the loop and makes the job a failed one.
Upload(c, sent) ==
    LET upload == JobOf[c] \in Staged /\ call[c].ok IN
    /\ At(c, "upload")
    /\ sent \subseteq Outputs[JobOf[c]]
    /\ (call[c].ctx /\ upload) \/ sent = {}
    /\ uploads' = IF upload THEN [uploads EXCEPT ![JobOf[c]] = @ \cup sent] ELSE uploads
    /\ IF upload /\ sent # Outputs[JobOf[c]] THEN Fail(c, "clean") ELSE Go(c, "clean")
    /\ UNCHANGED <<busy, running, dirs, count>>

Clean(c) ==
    /\ At(c, "clean")
    /\ Go(c, "report")
    /\ IF JobOf[c] \in Staged THEN Cleanup(JobOf[c]) ELSE UNCHANGED dirs
    /\ UNCHANGED <<busy, running, uploads, count>>

\* ReportResult with Success = ok.
Report(c) ==
    /\ At(c, "report")
    /\ Go(c, "reply")
    /\ UNCHANGED <<busy, running, dirs, uploads, count>>

\* Dispatch returns; that of a service that was acked has returned already.
Reply(c) ==
    /\ At(c, "reply")
    /\ call' = [call EXCEPT ![c].pc = "done", ![c].counted = FALSE]
    /\ count' = IF call[c].counted THEN count - 1 ELSE count
    /\ UNCHANGED <<busy, running, dirs, uploads>>

-----------------------------------------------------------------------------
(* The coordinator gives the RPC up, or calls Cancel.                      *)

RpcGivenUp(c) ==
    /\ JobOf[c] \notin Services
    /\ call[c].pc \notin {"idle", "done"}
    /\ call[c].ctx
    /\ call' = [call EXCEPT ![c].ctx = FALSE]
    /\ UNCHANGED <<busy, running, dirs, uploads, count>>

\* Without an entry Cancel does nothing.
Cancel(j) ==
    /\ running[j] # NoCall
    /\ ~call[running[j]].killed
    /\ call' = [call EXCEPT ![running[j]].killed = TRUE]
    /\ UNCHANGED <<busy, running, dirs, uploads, count>>

Step(c) ==
    \/ Mint(c) \/ StageFails(c) \/ StageDone(c) \/ Ack(c)
    \/ RunRefused(c) \/ Allocate(c) \/ Start(c) \/ Leave(c) \/ Release(c)
    \/ \E sent \in SUBSET Outputs[JobOf[c]] : Upload(c, sent)
    \/ Clean(c) \/ Report(c) \/ Reply(c)

Next ==
    \/ \E c \in Calls :
          Receive(c) \/ Step(c) \/ RpcGivenUp(c) \/ \E ok \in BOOLEAN : Exit(c, ok)
    \/ \E j \in Jobs : Cancel(j)

Spec == Init /\ [][Next]_vars

\* Goroutines run.  A process ends if its job has a timeout (services have
\* none) or once it is killed.
MustExit(c) == (JobOf[c] \notin Services \/ call[c].killed) /\ \E ok \in BOOLEAN : Exit(c, ok)

Fairness == \A c \in Calls : WF_vars(Step(c)) /\ WF_vars(MustExit(c))

FairSpec == Spec /\ Fairness

-----------------------------------------------------------------------------
(* Properties.                                                             *)

\* Types; Server.runningJobs counts exactly the requests it has not answered,
\* however they end, and so never falls below zero.
NodeTypeOK ==
    /\ call \in [Calls -> Call]
    /\ busy \in [Devices -> Jobs \cup {NoJobID}]
    /\ running \in [Jobs -> Calls \cup {NoCall}]
    /\ dirs \subseteq Staged
    /\ \A j \in Jobs : uploads[j] \subseteq Outputs[j]
    /\ count = Cardinality({c \in Calls : call[c].counted})

Holding(c) == call[c].pc \in {"start", "run", "leave", "release"}

\* Two processes never see the same device, and one sees as many devices as
\* its job asked for: Allocate never gives a part of a request, and Release,
\* which goes by the job ID, takes no device from a process that still runs.
DevicesExclusive ==
    \A c \in Calls : Holding(c) =>
        /\ Cardinality(call[c].sees) = Gpus[JobOf[c]]
        /\ \A b \in Calls \ {c} : Holding(b) => call[b].sees \cap call[c].sees = {}

\* No device leaks: the busy ones are those that the calls in Run see.
NoDeviceLeaks ==
    \A d \in Devices :
        busy[d] # NoJobID <=> \E c \in Calls : Holding(c) /\ d \in call[c].sees

\* What a node reports as a success is complete in the artifact store: every
\* declared output was uploaded before the report, whichever upload failed or
\* was cut off by the end of the RPC.
SuccessIsComplete ==
    \A c \in Calls :
        call[c].pc \in {"report", "reply", "done"} /\ call[c].ok /\ JobOf[c] \in Staged =>
            Outputs[JobOf[c]] = uploads[JobOf[c]]

\* staging.go:108 "On any failure Prepare rolls back: no partial workdir is
\* left behind so a retry sees a clean slate".
PrepareRollsBack ==
    [][\A c \in Calls :
          call[c].pc = "stage" /\ call'[c].pc = "report" => JobOf[c] \notin dirs']_vars

\* server.go:60 "RunningJobs returns the count of currently-executing jobs".
CountIsRunning ==
    Cardinality({c \in Calls : call[c].pc = "run"}) <= count

=============================================================================
