----------------------------- MODULE JobContract -----------------------------
(***************************************************************************)
(* What the job store promises about the durable fate of a job, without    *)
(* memory, disk, retries or crashes: a submitted job is open until it gets *)
(* an outcome; every outcome but "failed" is for ever; a failed job may be *)
(* opened again (a retry).                                                 *)
(***************************************************************************)
CONSTANT Jobs

VARIABLE outcome

Outcomes == {"completed", "failed", "timeout", "lost", "cancelled", "skipped"}

\* Outcomes that RetryIfEligible may take back.
Reopenable == {"failed", "timeout"}

Init == outcome = [j \in Jobs |-> "none"]

Accept(j) ==
    /\ outcome[j] = "none"
    /\ outcome' = [outcome EXCEPT ![j] = "open"]

Close(j, o) ==
    /\ outcome[j] = "open"
    /\ outcome' = [outcome EXCEPT ![j] = o]

Reopen(j) ==
    /\ outcome[j] \in Reopenable
    /\ outcome' = [outcome EXCEPT ![j] = "open"]

Next == \E j \in Jobs : Accept(j) \/ Reopen(j) \/ \E o \in Outcomes : Close(j, o)

Spec == Init /\ [][Next]_outcome

=============================================================================
