------------------------------ MODULE JobStore ------------------------------
(***************************************************************************)
(* internal/cluster/job*.go: the coordinator's store of jobs.             *)
(*                                                                         *)
(* jobs is the map JobStore.mu protects; disk is what SaveJob has written  *)
(* to BadgerDB under jobs/{id}.  One action is one critical section of     *)
(* JobStore.mu, the SaveJob calls made inside it included.  Every SaveJob  *)
(* either commits or fails without writing (a Badger transaction), so an   *)
(* action takes the outcome of its SaveJob as a parameter.                 *)
(*                                                                         *)
(* CancelJob releases the mutex between its decision and its effect, so it *)
(* is two actions; the calls in between are the set cancels.               *)
(*                                                                         *)
(* Dispatch.tla, Workflow.tla and Recovery.tla extend this module and call *)
(* its operations from the handlers and loops that call them in the code.  *)
(***************************************************************************)
EXTENDS Naturals

CONSTANTS
    Jobs,         \* job IDs
    Nodes,        \* node IDs
    NoNode,       \* the empty NodeID
    RetryLimits,  \* values of RetryPolicy.MaxAttempts; 0 stands for no policy
    Shares,       \* values of the Shares list
    NoShares,     \* the empty Shares list
    SaveResults,  \* the outcomes a SaveJob may have
    MayCrash      \* whether the coordinator may crash and restart

ASSUME StoreAssumption ==
    /\ NoNode \notin Nodes
    /\ RetryLimits \subseteq Nat
    /\ 0 \in RetryLimits
    /\ NoShares \in Shares
    /\ SaveResults \subseteq BOOLEAN
    /\ MayCrash \in BOOLEAN

VARIABLES jobs, disk, cancels

storeVars == <<jobs, disk, cancels>>

Status == {"pending", "scheduled", "dispatching", "running", "completed",
           "failed", "timeout", "lost", "retrying", "cancelled", "skipped"}

IsTerminal(s) ==
    s \in {"completed", "failed", "timeout", "lost", "cancelled", "skipped"}

\* Attempt is 0 and the status "absent" for an ID the store does not hold.
Job == [status  : Status \cup {"absent"},
        attempt : Nat,
        max     : RetryLimits,
        node    : Nodes \cup {NoNode},
        inputs  : {"declared", "resolved"},
        shares  : Shares]

NoJob == [status |-> "absent", attempt |-> 0, max |-> 0, node |-> NoNode,
          inputs |-> "declared", shares |-> NoShares]

NewJob(max) == [status |-> "pending", attempt |-> 1, max |-> max, node |-> NoNode,
                inputs |-> "declared", shares |-> NoShares]

Exists(j) == jobs[j].status # "absent"

-----------------------------------------------------------------------------
(* The transition table and the retry test.                               *)

allowedTransitions ==
    [pending     |-> {"scheduled", "dispatching", "cancelled", "skipped", "failed"},
     scheduled   |-> {"dispatching", "cancelled", "pending"},
     dispatching |-> {"running", "failed"},
     running     |-> {"completed", "failed", "timeout", "cancelled"},
     failed      |-> {"retrying"},
     timeout     |-> {"retrying"},
     retrying    |-> {"pending"},
     completed   |-> {}, lost |-> {}, cancelled |-> {}, skipped |-> {}, absent |-> {}]

isAllowed(from, to) == to \in allowedTransitions[from]

isRetryable(s) == s \in {"failed", "timeout"}

ShouldRetry(job) == job.max # 0 /\ job.attempt < job.max

\* The guard of Transition: the job exists, is not terminal, and the table
\* lists the pair.
CanTransition(j, to) ==
    /\ Exists(j)
    /\ ~IsTerminal(jobs[j].status)
    /\ isAllowed(jobs[j].status, to)

-----------------------------------------------------------------------------
(* SaveJob on a job whose in-memory record is now rec: when it fails the   *)
(* caller puts back undo, the fields its error path restores.              *)

SaveJob(j, rec, undo, saved) ==
    /\ jobs' = [jobs EXCEPT ![j] = IF saved THEN rec ELSE undo]
    /\ disk' = IF saved THEN [disk EXCEPT ![j] = rec] ELSE disk

Submit(j, max, saved) ==
    /\ ~Exists(j)
    /\ SaveJob(j, NewJob(max), NoJob, saved)

TransitionRollback(j, rec) == [rec EXCEPT !.status = jobs[j].status]

Transition(j, to, node, saved) ==
    /\ CanTransition(j, to)
    /\ LET rec == [jobs[j] EXCEPT
                     !.status = to,
                     !.node = IF to \in {"scheduled", "dispatching"} /\ node # NoNode
                              THEN node ELSE @]
       IN SaveJob(j, rec, TransitionRollback(j, rec), saved)

\* Mutant: the idempotence check is dropped.
MarkLost_Always(j, saved) ==
    /\ Exists(j)
    /\ SaveJob(j, [jobs[j] EXCEPT !.status = "lost"], jobs[j], saved)

MarkLost(j, saved) ==
    /\ Exists(j)
    /\ ~IsTerminal(jobs[j].status)
    /\ SaveJob(j, [jobs[j] EXCEPT !.status = "lost"], jobs[j], saved)

CanRetry(j) == Exists(j) /\ isRetryable(jobs[j].status) /\ ShouldRetry(jobs[j])

\* RetryIfEligible saves the job twice under one lock: as retrying, then as
\* pending with the next attempt.  The error path of the second save puts
\* back the status retrying, but the attempt and the node stay as set.
RetryIfEligible(j, first, second) ==
    /\ CanRetry(j)
    /\ LET marked == [jobs[j] EXCEPT !.status = "retrying"]
           next   == [jobs[j] EXCEPT !.status = "pending", !.attempt = @ + 1,
                                     !.node = NoNode]
       IN \/ /\ ~first
             /\ UNCHANGED <<jobs, disk>>
          \/ /\ first
             /\ jobs' = [jobs EXCEPT ![j] = IF second THEN next
                                            ELSE [next EXCEPT !.status = "retrying"]]
             /\ disk' = [disk EXCEPT ![j] = IF second THEN next ELSE marked]

UpdateResolvedInputs(j, saved) ==
    /\ Exists(j)
    /\ SaveJob(j, [jobs[j] EXCEPT !.inputs = "resolved"], jobs[j], saved)

\* No rollback: a failed SaveJob leaves the new list in memory.
UpdateShares(j, shares, saved) ==
    /\ Exists(j)
    /\ LET rec == [jobs[j] EXCEPT !.shares = shares]
       IN SaveJob(j, rec, rec, saved)

-----------------------------------------------------------------------------
(* CancelJob: the decision under the lock, then a second critical section  *)
(* inside Transition or MarkLost.                                          *)

CancelCalls == [job : Jobs, via : {"transition", "markLost"}]

CancelJob(j) ==
    /\ Exists(j)
    /\ ~IsTerminal(jobs[j].status)
    /\ cancels' = cancels \cup
         {[job |-> j, via |-> IF isAllowed(jobs[j].status, "cancelled")
                              THEN "transition" ELSE "markLost"]}
    /\ UNCHANGED <<jobs, disk>>

\* An error of Transition (the status has moved on) or an idempotent MarkLost
\* ends the call without an effect.
CancelAct(c, saved) ==
    /\ c \in cancels
    /\ cancels' = cancels \ {c}
    /\ \/ c.via = "transition" /\ Transition(c.job, "cancelled", NoNode, saved)
       \/ c.via = "markLost" /\ MarkLost(c.job, saved)
       \/ /\ IF c.via = "transition" THEN ~CanTransition(c.job, "cancelled")
                                     ELSE IsTerminal(jobs[c.job].status)
          /\ UNCHANGED <<jobs, disk>>

\* A crash loses the memory and the calls in progress; Restore loads every
\* record of the disk, in its persisted state.
CrashRestore ==
    /\ MayCrash
    /\ jobs' = disk
    /\ disk' = disk
    /\ cancels' = {}

-----------------------------------------------------------------------------
(* The store on its own: any caller, in any order.  The targets are the    *)
(* ones the coordinator's call sites of Transition name.                   *)

TransitionTargets == {"scheduled", "dispatching", "running", "completed",
                      "failed", "skipped"}

StoreInit ==
    /\ jobs = [j \in Jobs |-> NoJob]
    /\ disk = [j \in Jobs |-> NoJob]
    /\ cancels = {}

StoreStep(j, saved) ==
    \/ \E max \in RetryLimits : Submit(j, max, saved)
    \/ \E to \in TransitionTargets, n \in Nodes : Transition(j, to, n, saved)
    \/ MarkLost(j, saved)
    \/ \E second \in SaveResults : RetryIfEligible(j, saved, second)
    \/ UpdateResolvedInputs(j, saved)
    \/ \E s \in Shares : UpdateShares(j, s, saved)

StoreNext ==
    \/ \E j \in Jobs, saved \in SaveResults : StoreStep(j, saved) /\ UNCHANGED cancels
    \/ \E j \in Jobs : CancelJob(j)
    \/ \E c \in cancels, saved \in SaveResults : CancelAct(c, saved)
    \/ CrashRestore

StoreSpec == StoreInit /\ [][StoreNext]_storeVars

-----------------------------------------------------------------------------
(* Properties.                                                             *)

\* Both copies of every job are well formed, a stored job counts its attempts
\* from one (Submit), and every CancelJob in progress is between its two
\* critical sections.
StoreTypeOK ==
    /\ jobs \in [Jobs -> Job]
    /\ disk \in [Jobs -> Job]
    /\ \A j \in Jobs : jobs[j] = NoJob \/ (Exists(j) /\ jobs[j].attempt >= 1)
    /\ cancels \subseteq CancelCalls

\* Between two critical sections the status in memory is the status on disk,
\* whichever SaveJob failed: "callers do not observe a state that is not on
\* disk" (job_transition.go).  This is why a restart cannot take a status back.
StatusOnDisk ==
    \A j \in Jobs : jobs[j].status = disk[j].status

\* The attempts of a job never pass its RetryPolicy.MaxAttempts (one without a
\* policy), and memory counts ahead of the disk by one attempt at most, only
\* while the job is stuck in retrying after a failed second SaveJob.
AttemptsBounded ==
    \A j \in Jobs :
        /\ jobs[j].attempt <= IF jobs[j].max = 0 THEN 1 ELSE jobs[j].max
        /\ \/ jobs[j].attempt = disk[j].attempt
           \/ /\ jobs[j].attempt = disk[j].attempt + 1
              /\ jobs[j].status = "retrying"

\* An outcome other than failed is for ever, with its attempt and its node:
\* no late Transition, MarkLost, CancelJob, RetryIfEligible, failed SaveJob or
\* restart changes it.
FinalOutcome ==
    [][\A j \in Jobs :
          jobs[j].status \in {"completed", "lost", "cancelled", "skipped"} =>
             /\ jobs'[j].status = jobs[j].status
             /\ jobs'[j].attempt = jobs[j].attempt
             /\ jobs'[j].node = jobs[j].node]_storeVars

\* A failed job leaves that state only as a new attempt (RetryIfEligible), and
\* nothing else ever changes a job's attempt, but a restart that finds a job
\* stuck in retrying.
NewAttemptOnlyByRetry ==
    [][\A j \in Jobs :
          /\ jobs[j].status = "failed" /\ jobs'[j].status # "failed" =>
                /\ jobs'[j].status \in {"pending", "retrying"}
                /\ jobs'[j].attempt = jobs[j].attempt + 1
          /\ Exists(j) /\ jobs'[j].attempt # jobs[j].attempt =>
                \/ isRetryable(jobs[j].status)
                \/ jobs[j].status = "retrying" /\ jobs' = disk]_storeVars

\* What the disk says of a job follows the contract of JobContract through
\* failed saves, races of CancelJob and restarts.
Phase(s) == IF s = "absent" THEN "none" ELSE IF IsTerminal(s) THEN s ELSE "open"

DurableOutcome == [j \in Jobs |-> Phase(disk[j].status)]

Contract == INSTANCE JobContract WITH outcome <- DurableOutcome

ContractSpec == Contract!Spec

\* shares.go:11 "Persist before releasing the mutex so in-memory + on-disk
\* states stay consistent": the share list in memory is the one on disk.
SharesOnDisk ==
    \A j \in Jobs : jobs[j].shares = disk[j].shares

\* job_transition.go:87 "Roll back the in-memory mutation on persist failure
\* so callers do not observe a state that is not on disk", for the node that
\* the failed transition recorded.
NodeOnDisk ==
    \A j \in Jobs : jobs[j].node = disk[j].node

\* job_cancel.go:14 "CancelJob transitions a job to cancelled from any
\* non-terminal state": when a call that found the job non-terminal returns,
\* the job is terminal.
CancelTakesEffect ==
    [][\A c \in cancels \ cancels' : IsTerminal(jobs'[c.job].status)]_storeVars

=============================================================================
