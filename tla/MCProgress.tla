----------------------------- MODULE MCProgress -----------------------------
(***************************************************************************)
(* What has to get on, for TLC: events on their way to PostgreSQL          *)
(* (EventPipeline), and jobs in the queue for a node (Placement; a job     *)
(* that asks for a GPU, a plain one of high priority and one that leaves   *)
(* its priority open; two nodes, one with a GPU).  The two share no state: *)
(* a behaviour is of one part, the variables of the other keep their first *)
(* value.                                                                  *)
(***************************************************************************)
EXTENDS EventPipeline

CONSTANTS Queued, Fleet, Policies, TopPriority, MidPriority, Aged \* of Placement

VARIABLES part, policy, now, created, placed, queue, healthy, reported, counters, served

placementVars == <<policy, now, created, placed, queue, healthy, reported, counters, served>>
mcVars == <<part, pipelineVars, placementVars>>

MCNeeds ==
    [j \in Queued |->
        CASE j = "train" -> [priority |-> 3, selector |-> {"gpu"}, gpus |-> 1]
          [] j = "serve" -> [priority |-> 3, selector |-> {}, gpus |-> 0]
          [] j = "batch" -> [priority |-> 0, selector |-> {}, gpus |-> 0]]

MCOffers ==
    [n \in Fleet |->
        CASE n = "big" -> [labels |-> {"gpu"}, gpus |-> 1, slots |-> 1, cpu |-> 2]
          [] n = "small" -> [labels |-> {}, gpus |-> 0, slots |-> 0, cpu |-> 1]]

P == INSTANCE Placement WITH Jobs <- Queued, Nodes <- Fleet, Needs <- MCNeeds, Offers <- MCOffers

ASSUME P!PlacementAssumption

MCInit ==
    /\ part \in {"pipeline", "placement"}
    /\ PipelineInit /\ P!Init
    /\ part = "pipeline" => policy = "least" /\ healthy = {}

MCNext ==
    \/ part = "pipeline" /\ PipelineNext /\ UNCHANGED <<part, placementVars>>
    \/ part = "placement" /\ P!Next /\ UNCHANGED <<part, pipelineVars>>

\* The fairness of EventPipeline and of Placement.
MCFairness ==
    /\ SF_pipelineVars(part = "pipeline" /\ ReceiveEvent) /\ SF_pipelineVars(part = "pipeline" /\ Tick)
    /\ SF_pipelineVars(part = "pipeline" /\ FlushCommit)
    /\ WF_pipelineVars(part = "pipeline" /\ Stop)
    /\ WF_pipelineVars(part = "pipeline" /\ \E ok \in BOOLEAN : FinalFlush(ok))
    /\ WF_placementVars(part = "placement" /\ P!Tick)

MCSpec == MCInit /\ [][MCNext]_mcVars /\ MCFairness

\* An old job is tried before every younger one (Placement).
OldFirst == P!OldFirst

\* The job of the lowest priority is placed if the small node stays healthy
\* (PlaceableIsPlaced of Placement, for the two that have most in their way).
LowestIsPlaced == P!PlacedOn("batch", "small")
=============================================================================
