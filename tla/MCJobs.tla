------------------------------- MODULE MCJobs -------------------------------
(***************************************************************************)
(* A job's record, for TLC: in the store (JobStore), in the hands of the   *)
(* recovery manager after a restart (Recovery, over a store of its own     *)
(* that may hold any job at first), as a step of a workflow of two jobs    *)
(* when everything may go wrong (Workflow), in the tables of the dashboard *)
(* (Summaries), and the delays between its attempts (Backoff).  A          *)
(* behaviour is of one part, the variables of the others keep their first  *)
(* value.                                                                  *)
(***************************************************************************)
EXTENDS JobStore

CONSTANTS
    Happens,                                                \* of Workflow
    NoJobID, RpcFails, CtxCancelled,                        \* of Recovery
    Priority, TableAttempts, MaxMarks, MaxQueue, MaxBackfills, Tables, Faults, \* of Summaries
    Strategy, InitialDelayMs, MaxDelayMs, DelayedAttempts   \* of Backoff

VARIABLES
    part,
    restored, saved, calls, run, runs, broken,
    steps, stepDisk, stepCalls, wf, wfDisk, submitted, lock, tick, reports, sends, outputs,
    job, out, queue, trail, back, backs, jobRow, nodeRow, rows, marks, unheard,
    attempt, wait, before

managerVars == <<restored, saved, calls, run, runs, broken>>
workflowVars == <<steps, stepDisk, stepCalls, wf, wfDisk, submitted, lock,
                  tick, reports, sends, outputs>>
summariesVars == <<job, out, queue, trail, back, backs, jobRow, nodeRow, rows, marks, unheard>>
backoffVars == <<attempt, wait, before>>
mcVars == <<part, storeVars, managerVars, workflowVars, summariesVars, backoffVars>>

R == INSTANCE Recovery WITH jobs <- restored, disk <- saved, cancels <- calls

\* The second job depends on the first, and may name an output of it.
Steps == {1, 2}

Chains ==
    {[dependsOn |-> [j \in Steps |-> IF j = 2 THEN {1} ELSE {}],
      condition |-> [j \in Steps |-> "on_success"],
      from      |-> [j \in Steps |-> IF j = 2 THEN refs ELSE {}]] :
        refs \in SUBSET {1}}

OneNode == {CHOOSE n \in Nodes : TRUE}

W == INSTANCE Workflow WITH Jobs <- Steps, Templates <- Chains, Nodes <- OneNode,
        jobs <- steps, disk <- stepDisk, cancels <- stepCalls

S == INSTANCE Summaries WITH MaxAttempts <- TableAttempts
B == INSTANCE Backoff WITH MaxAttempts <- DelayedAttempts

ASSUME R!RecoveryAssumption

\* What the manager finds matters to its own part alone.
MCInit ==
    /\ part \in {"store", "recovery", "workflow", "tables", "delays"}
    /\ StoreInit /\ R!Init /\ W!Init /\ S!SummariesInit /\ B!Init
    /\ part # "recovery" => restored = [j \in Jobs |-> NoJob]

MCNext ==
    \/ /\ part = "store" /\ StoreNext
       /\ UNCHANGED <<part, managerVars, workflowVars, summariesVars, backoffVars>>
    \/ /\ part = "recovery" /\ R!Next
       /\ UNCHANGED <<part, storeVars, workflowVars, summariesVars, backoffVars>>
    \/ /\ part = "workflow" /\ W!Next
       /\ UNCHANGED <<part, storeVars, managerVars, summariesVars, backoffVars>>
    \/ /\ part = "tables" /\ S!SummariesNext
       /\ UNCHANGED <<part, storeVars, managerVars, workflowVars, backoffVars>>
    \/ /\ part = "delays" /\ B!RetryIfEligible
       /\ UNCHANGED <<part, storeVars, managerVars, workflowVars, summariesVars>>

MCSpec == MCInit /\ [][MCNext]_mcVars

\* A job that has ended stays as it ended while the manager recovers (Recovery).
EndedStaysEnded ==
    [][\A j \in Jobs :
          restored[j].status \in {"completed", "lost", "cancelled", "skipped"} =>
             restored'[j] = restored[j]]_managerVars

\* Through failed saves and restarts, a job of a workflow starts only when what
\* it depends on has ended as its condition asks, and only a job below a failed
\* one is skipped (DependenciesMet and SkippedBelowFailure of Workflow).
OrderSurvives == W!DependenciesMet /\ W!SkippedBelowFailure

\* job_summary ends with how the job ended (Summaries).
OutcomeShown == S!OutcomeShown

\* The delay doubles with every attempt, up to the cap (Backoff).
DelayDoubles == B!DelayDoubles
=============================================================================
