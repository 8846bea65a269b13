------------------------------ MODULE MCNodes ------------------------------
(***************************************************************************)
(* What the coordinator believes of its nodes, for TLC: their health and   *)
(* records (NodeRegistry; the first node may move), who may be a node      *)
(* (NodeIdentity), and the readiness of the service a node runs (Service). *)
(* The three share no state: a behaviour is of one part, the variables of  *)
(* the others keep their first value.                                      *)
(***************************************************************************)
EXTENDS MCNodeRegistry, NodeIdentity

CONSTANTS
    NoNode, MaxAttempts, ServiceFaults, \* of Service
    k1                                  \* a certificate

VARIABLES
    part,
    job, proc, prober, endpoint, amiss

serviceVars == <<job, proc, prober, endpoint, amiss>>
mcVars == <<part, vars, serviceVars, identityVars>>

S == INSTANCE Service WITH Faults <- ServiceFaults

MCPinned == (n1 :> k1)

ASSUME S!ServiceAssumption

MCInit ==
    /\ part \in {"registry", "identity", "service"}
    /\ Init /\ IdentityInit /\ S!Init
    /\ part # "service" => job.max = 1

MCNext ==
    \/ part = "registry" /\ Next /\ UNCHANGED <<part, serviceVars, identityVars>>
    \/ part = "identity" /\ IdentityNext /\ UNCHANGED <<part, vars, serviceVars>>
    \/ part = "service" /\ S!Next /\ UNCHANGED <<part, vars, identityVars>>

\* The fairness of NodeRegistry and of Service.
MCFairness ==
    /\ WF_vars(part = "registry" /\ Interval)
    /\ WF_vars(part = "registry" /\ \E s \in saves : SaveNode(s) \/ SaveFails(s))
    /\ \A n \in Nodes : WF_vars(part = "registry" /\ HandleHeartbeat(n))
    /\ WF_serviceVars(part = "service" /\ S!Coordinator)
    /\ \A a \in 1..MaxAttempts :
          /\ WF_serviceVars(part = "service" /\ S!Lifecycle(a))
          /\ WF_serviceVars(part = "service" /\ S!ProberStep(a))

MCSpec == MCInit /\ [][MCNext]_mcVars /\ MCFairness

\* At most one process of a service is alive (Service).
OneProcess == S!OneProcess

\* A service that answers for good is shown as ready in the end, and one that
\* fails to answer for good as not ready (Service).
ReadinessConverges == S!ReadinessConverges

=============================================================================
