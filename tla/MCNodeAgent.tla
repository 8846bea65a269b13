---------------------------- MODULE MCNodeAgent ----------------------------
(* NodeAgent.tla for TLC.                                                  *)
EXTENDS NodeAgent, TLC

CONSTANTS j1, j2, j3, c1, c2, c3, c4

\* j1 asks for two devices and may be sent twice; j2 is a service on one
\* device; j3 runs on the CPU.
JobOfCall == (c1 :> j1) @@ (c2 :> j1) @@ (c3 :> j2) @@ (c4 :> j3)

MCJobOf == [c \in Calls |-> JobOfCall[c]]

MCGpus == (j1 :> 2) @@ (j2 :> 1) @@ (j3 :> 0)

MCOutputs == (j1 :> {"model", "log"}) @@ (j2 :> {}) @@ (j3 :> {"log"})

=============================================================================
