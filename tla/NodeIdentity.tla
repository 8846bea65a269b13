---------------------------- MODULE NodeIdentity ----------------------------
(***************************************************************************)
(* Who may be a node, and how a node is thrown out:                        *)
(*   internal/cluster/registry_register.go  Register: revocation, pinning  *)
(*   internal/cluster/registry_revoke.go    RevokeNode                     *)
(*   internal/cluster/certpin.go            the pins                       *)
(*   internal/grpcserver/interceptors.go, streams.go, handlers.go          *)
(*                                          the RPCs and their streams     *)
(*   cmd/helion-coordinator/main.go         the pins of HELION_NODE_PINS   *)
(* Each RPC runs in a goroutine of its own, and none of the maps they      *)
(* share (revoked, nodes, pins, streams) is locked over two of them.       *)
(* Addresses, labels, health and records are in NodeRegistry.tla.          *)
(***************************************************************************)
EXTENDS Naturals

CONSTANTS
    NodeIDs,   \* node IDs of the right form
    Certs,     \* certificates a node may present
    NoCert,    \* none, as the node agent of this repository sends
    Unsigned,  \* the certificates VerifyNodeCertMLDSA refuses
    Pinned,    \* Pinned[n]: the certificate of HELION_NODE_PINS, or NoCert
    Calls,     \* goroutines of Register
    Streams,   \* goroutines of Heartbeat
    NoStream,
    Restarts   \* the coordinator may restart

\* NoStream and NoCert are none of what they stand beside.
ASSUME IdentityAssumption ==
    /\ NoStream \notin Streams
    /\ NoCert \notin Certs
    /\ Pinned \in [NodeIDs -> Certs \cup {NoCert}]

VARIABLES
    revoked,   \* Registry.revoked
    nodes,     \* the keys of Registry.nodes
    known,     \* nodes with a record on disk, which RevokeNode leaves
    pins,      \* pins[n]: MemCertPinner.pins
    reg,       \* reg[c]: a Register call
    rev,       \* rev[n]: how far RevokeNode(n) is
    streams,   \* streams[n]: Server.streams, the stream whose channel is kept
    hb,        \* hb[s]: a Heartbeat handler and its done channel
    accepted,  \* history: accepted[n]: certificates n registered with
    gone       \* history: nodes whose revocation has returned and left nothing

identityVars == <<revoked, nodes, known, pins, reg, rev, streams, hb, accepted, gone>>

NoCall == [at |-> "idle"]

Call == [at : {"pin", "setpin", "insert"}, node : NodeIDs, cert : Certs \cup {NoCert}]

Closed == [at |-> "off"]

Stream == [at : {"recv", "check", "handle", "leave"}, node : NodeIDs, done : BOOLEAN]

IdentityInit ==
    /\ revoked = {} /\ nodes = {} /\ known = {}
    /\ pins = Pinned
    /\ reg = [c \in Calls |-> NoCall]
    /\ rev = [n \in NodeIDs |-> "idle"]
    /\ streams = [n \in NodeIDs |-> NoStream]
    /\ hb = [s \in Streams |-> Closed]
    /\ accepted = [n \in NodeIDs |-> {}]
    /\ gone = {}

-----------------------------------------------------------------------------
(* Register.                                                               *)

\* Mutant: only the interceptor's requests without a node ID pass.
IsRevoked_Never(n) == FALSE

\* Asked by the interceptor and once more by Register.
IsRevoked(n) == n \in revoked

RegisterCall(c, n, k) ==
    /\ reg[c].at = "idle"
    /\ ~IsRevoked(n)
    /\ reg' = [reg EXCEPT ![c] = [at |-> "pin", node |-> n, cert |-> k]]
    /\ UNCHANGED <<revoked, nodes, known, pins, rev, streams, hb, accepted, gone>>

\* ML-DSA signatures are kept for the certificates the CA of this process
\* has issued.
VerifyNodeCertMLDSA(k) == k \notin Unsigned

PinAllows(n, k) == pins[n] \in {NoCert, k}

\* The certificate is looked at when there is one: its signature, then the
\* fingerprint of the node's pin, if one is stored.
GetPin(c) ==
    LET r == reg[c] IN
    /\ r.at = "pin"
    /\ reg' = [reg EXCEPT ![c] =
         IF r.cert = NoCert THEN [r EXCEPT !.at = "insert"]
         ELSE IF ~VerifyNodeCertMLDSA(r.cert) \/ ~PinAllows(r.node, r.cert) THEN NoCall
         ELSE IF pins[r.node] = NoCert THEN [r EXCEPT !.at = "setpin"]
         ELSE [r EXCEPT !.at = "insert"]]
    /\ UNCHANGED <<revoked, nodes, known, pins, rev, streams, hb, accepted, gone>>

SetPin(c) ==
    /\ reg[c].at = "setpin"
    /\ pins' = [pins EXCEPT ![reg[c].node] = reg[c].cert]
    /\ reg' = [reg EXCEPT ![c].at = "insert"]
    /\ UNCHANGED <<revoked, nodes, known, rev, streams, hb, accepted, gone>>

\* The entry is made or renewed, its record written, and the answer sent.
RegisterInsert(c) ==
    LET r == reg[c] IN
    /\ r.at = "insert"
    /\ nodes' = nodes \cup {r.node}
    /\ known' = known \cup {r.node}
    /\ reg' = [reg EXCEPT ![c] = NoCall]
    /\ accepted' = [accepted EXCEPT ![r.node] = @ \cup ({r.cert} \ {NoCert})]
    /\ UNCHANGED <<revoked, pins, rev, streams, hb, gone>>

-----------------------------------------------------------------------------
(* The heartbeat stream.                                                   *)

\* A node ID keeps one channel: a stream that was there is closed.
registerStream(s, n) ==
    /\ streams' = [streams EXCEPT ![n] = s]
    /\ hb' = [t \in Streams |->
         IF t = s THEN [at |-> "check", node |-> n, done |-> FALSE]
         ELSE IF t = streams[n] THEN [hb[t] EXCEPT !.done = TRUE]
         ELSE hb[t]]

\* The first message of a stream; streams pass no interceptor.
HeartbeatFirst(s, n) ==
    /\ hb[s].at = "off"
    /\ registerStream(s, n)
    /\ UNCHANGED <<revoked, nodes, known, pins, reg, rev, accepted, gone>>

HeartbeatRecv(s) ==
    /\ hb[s].at = "recv"
    /\ \E at \in {"check", "leave"} : hb' = [hb EXCEPT ![s].at = at]
    /\ UNCHANGED <<revoked, nodes, known, pins, reg, rev, streams, accepted, gone>>

\* A closed channel ends the stream, and so does the rate limiter, whose
\* tokens are left out.
HeartbeatCheck(s) ==
    /\ hb[s].at = "check"
    /\ \E at \in IF hb[s].done THEN {"leave"} ELSE {"handle", "leave"} :
          hb' = [hb EXCEPT ![s].at = at]
    /\ UNCHANGED <<revoked, nodes, known, pins, reg, rev, streams, accepted, gone>>

\* A node that is in the map is seen and its record is written; the others
\* have to register first.
HeartbeatHandle(s) ==
    LET n == hb[s].node IN
    /\ hb[s].at = "handle"
    /\ hb' = [hb EXCEPT ![s].at = IF n \in nodes THEN "recv" ELSE "leave"]
    /\ known' = IF n \in nodes THEN known \cup {n} ELSE known
    /\ UNCHANGED <<revoked, nodes, pins, reg, rev, streams, accepted, gone>>

\* Mutant: the channel of a newer stream goes with the old one.
unregisterStream_Any(s) ==
    /\ hb[s].at = "leave"
    /\ streams' = [streams EXCEPT ![hb[s].node] = NoStream]
    /\ hb' = [hb EXCEPT ![s] = Closed]
    /\ UNCHANGED <<revoked, nodes, known, pins, reg, rev, accepted, gone>>

\* Deferred to the end of the handler: only its own channel is removed.
unregisterStream(s) ==
    LET n == hb[s].node IN
    /\ hb[s].at = "leave"
    /\ streams' = IF streams[n] = s THEN [streams EXCEPT ![n] = NoStream] ELSE streams
    /\ hb' = [hb EXCEPT ![s] = Closed]
    /\ UNCHANGED <<revoked, nodes, known, pins, reg, rev, accepted, gone>>

-----------------------------------------------------------------------------
(* RevokeNode, one critical section after the other.                       *)

RevokeMark(n) ==
    /\ rev[n] = "idle"
    /\ revoked' = revoked \cup {n}
    /\ rev' = [rev EXCEPT ![n] = "remove"]
    /\ UNCHANGED <<nodes, known, pins, reg, streams, hb, accepted, gone>>

RevokeRemove(n) ==
    /\ rev[n] = "remove"
    /\ nodes' = nodes \ {n}
    /\ rev' = [rev EXCEPT ![n] = "cancel"]
    /\ UNCHANGED <<revoked, known, pins, reg, streams, hb, accepted, gone>>

CancelStream(n) ==
    /\ rev[n] = "cancel"
    /\ hb' = [s \in Streams |-> IF s = streams[n] THEN [hb[s] EXCEPT !.done = TRUE] ELSE hb[s]]
    /\ streams' = [streams EXCEPT ![n] = NoStream]
    /\ rev' = [rev EXCEPT ![n] = "unpin"]
    /\ UNCHANGED <<revoked, nodes, known, pins, reg, accepted, gone>>

\* A Register of n that was let in has not come to its end.
UnderWay(n) == \E c \in Calls : reg[c] # NoCall /\ reg[c].node = n

\* Pins of the configuration are removed too; then the call is answered.
DeletePin(n) ==
    /\ rev[n] = "unpin"
    /\ pins' = [pins EXCEPT ![n] = NoCert]
    /\ rev' = [rev EXCEPT ![n] = "idle"]
    /\ gone' = IF n \in nodes \/ UnderWay(n) THEN gone ELSE gone \cup {n}
    /\ UNCHANGED <<revoked, nodes, known, reg, streams, hb, accepted>>

\* The revoked set is in memory only, and records that have not expired are
\* restored.
Restart ==
    /\ Restarts
    /\ revoked' = {}
    /\ nodes' \in SUBSET known
    /\ known' = nodes'
    /\ pins' = Pinned
    /\ reg' = [c \in Calls |-> NoCall]
    /\ rev' = [n \in NodeIDs |-> "idle"]
    /\ streams' = [n \in NodeIDs |-> NoStream]
    /\ hb' = [s \in Streams |-> Closed]
    /\ accepted' = [n \in NodeIDs |-> {}]
    /\ gone' = {}

IdentityNext ==
    \/ \E c \in Calls :
          \/ \E n \in NodeIDs, k \in Certs \cup {NoCert} : RegisterCall(c, n, k)
          \/ GetPin(c) \/ SetPin(c) \/ RegisterInsert(c)
    \/ \E s \in Streams :
          \/ \E n \in NodeIDs : HeartbeatFirst(s, n)
          \/ HeartbeatRecv(s) \/ HeartbeatCheck(s) \/ HeartbeatHandle(s) \/ unregisterStream(s)
    \/ \E n \in NodeIDs : RevokeMark(n) \/ RevokeRemove(n) \/ CancelStream(n) \/ DeletePin(n)
    \/ Restart

IdentitySpec == IdentityInit /\ [][IdentityNext]_identityVars

-----------------------------------------------------------------------------
(* Properties.                                                             *)

\* Types; a kept channel belongs to a stream of that node.
IdentityTypeOK ==
    /\ revoked \subseteq NodeIDs /\ nodes \subseteq known /\ known \subseteq NodeIDs
    /\ pins \in [NodeIDs -> Certs \cup {NoCert}]
    /\ \A c \in Calls : reg[c] = NoCall \/ reg[c] \in Call
    /\ rev \in [NodeIDs -> {"idle", "remove", "cancel", "unpin"}]
    /\ \A s \in Streams : hb[s] = Closed \/ hb[s] \in Stream
    /\ \A n \in NodeIDs : streams[n] # NoStream => hb[streams[n]] \in Stream /\ hb[streams[n]].node = n
    /\ accepted \in [NodeIDs -> SUBSET Certs]
    /\ gone \subseteq revoked

\* Every heartbeat stream that has not been closed is the one CancelStream
\* would find: however streams of a node come, go and overtake each other, the
\* map registerStream and unregisterStream share never loses a live stream.
CancelFindsStream ==
    \A s \in Streams :
        hb[s].at \in {"recv", "check", "handle"} => hb[s].done \/ streams[hb[s].node] = s

\* Once RevokeNode has returned, and no Register that was let in before it is
\* left, the node stays out until the coordinator restarts: no order of calls,
\* heartbeats and further revocations brings its entry back (RegisterInsert,
\* HeartbeatHandle, RevokeNode).
RevokedStaysOut ==
    gone \cap nodes = {}

\* A node whose certificate is pinned by the configuration registers with no
\* other one, as long as it has not been revoked (GetPin, SetPin, DeletePin).
ConfiguredPinHolds ==
    \A n \in NodeIDs : Pinned[n] # NoCert /\ n \notin revoked => accepted[n] \subseteq {Pinned[n]}

\* registry_revoke.go:22 "Remove from active nodes map so it won't be
\* scheduled": a revoked node has no entry once RevokeNode has returned.
RevokedNotScheduled ==
    \A n \in revoked : rev[n] = "idle" => n \notin nodes

\* registry.go:132 "the first registration stores the pin, subsequent ones
\* must present the same cert or be rejected".
OneCertPerNode ==
    \A n \in NodeIDs \ revoked : \A j, k \in accepted[n] : j = k

=============================================================================
