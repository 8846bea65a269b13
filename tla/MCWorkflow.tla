----------------------------- MODULE MCWorkflow -----------------------------
(***************************************************************************)
(* Small instances of Workflow.  Jobs are numbers, so that every graph in  *)
(* which a job depends only on smaller ones can be listed: up to names     *)
(* these are all the acyclic graphs.                                       *)
(***************************************************************************)
EXTENDS Workflow

CONSTANT UseConditions  \* the conditions that jobs with dependencies may have

Before(j) == {k \in Jobs : k < j}

Last == CHOOSE j \in Jobs : Before(j) = Jobs \ {j}

Acyclic == {g \in [Jobs -> SUBSET Jobs] : \A j \in Jobs : g[j] \subseteq Before(j)}

ConditionsFor(g) ==
    {c \in [Jobs -> Conditions] :
        \A j \in Jobs : c[j] \in IF g[j] = {} THEN {"on_success"} ELSE UseConditions}

\* Every graph under every condition, no from reference.
PlainTemplates ==
    UNION {{[dependsOn |-> g, condition |-> c, from |-> [j \in Jobs |-> {}]] :
               c \in ConditionsFor(g)} : g \in Acyclic}

\* The same with every choice of from references for the last job; some name
\* a job that is no ancestor, or stand under a condition that cannot have them.
LinkedTemplates ==
    {[t EXCEPT !.from[Last] = refs] : t \in PlainTemplates, refs \in SUBSET Before(Last)}

\* The first and the last job depend on each other.
CyclicTemplates ==
    {[t EXCEPT !.dependsOn[Last] = @ \cup {1}, !.dependsOn[1] = {Last}] : t \in PlainTemplates}

AllTemplates == LinkedTemplates \cup CyclicTemplates

=============================================================================
