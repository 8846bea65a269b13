--------------------------- MODULE MCNodeRegistry ---------------------------
(* NodeRegistry.tla for TLC: the first node may move.                      *)
EXTENDS NodeRegistry, TLC

CONSTANTS n1, n2

MCAddressesOf == (n1 :> {1, 2}) @@ (n2 :> {3})
=============================================================================
