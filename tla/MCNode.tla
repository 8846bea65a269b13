------------------------------- MODULE MCNode ------------------------------
(***************************************************************************)
(* The node's side of a job, for TLC: the calls of NodeAgent, and the way  *)
(* of an output to the job that reads it, of Artifacts, over either store. *)
(* The two share no state: a behaviour is of one part, the variables of    *)
(* the other keep their first value.                                       *)
(***************************************************************************)
EXTENDS MCNodeAgent, Artifacts

CONSTANTS k1, k2

VARIABLES part

mcVars == <<part, vars, artifactVars>>

ASSUME Backend = "local"

Remote == INSTANCE Artifacts WITH Backend <- "s3"

\* c3 reads the output of j2, the others that of j1.
MCFrom == [c \in Consumers |-> IF c = c3 THEN j2 ELSE j1]

MCKeyOf == (j1 :> k1) @@ (j2 :> k2)

\* Two jobs whose sanitized keys coincide.
SharedKeyOf == (j1 :> k1) @@ (j2 :> k1)

MCInit == part \in {"agent", "local", "s3"} /\ Init /\ ArtifactsInit

MCNext ==
    \/ part = "agent" /\ Next /\ UNCHANGED <<part, artifactVars>>
    \/ part = "local" /\ ArtifactsNext /\ UNCHANGED <<part, vars>>
    \/ part = "s3" /\ Remote!ArtifactsNext /\ UNCHANGED <<part, vars>>

MCSpec == MCInit /\ [][MCNext]_mcVars

=============================================================================
