---------------------------- MODULE NodeRegistry ----------------------------
(***************************************************************************)
(* Which nodes the coordinator believes in:                                *)
(*   internal/cluster/registry*.go, prune_loop.go  the registry            *)
(*   internal/cluster/persistence_nodes.go         its records on disk     *)
(*   internal/grpcserver/handlers.go               Register and Heartbeat  *)
(*   cmd/helion-node/main.go                       the node agent          *)
(*   internal/grpcclient/client.go                 its heartbeats          *)
(* Time passes in units of the heartbeat interval.  Register and a         *)
(* heartbeat change memory at once and write the record in a goroutine,    *)
(* so writes are applied in any order; records expire by themselves.       *)
(* Revocation, pinning and the certificate of the answer are left out.     *)
(***************************************************************************)
EXTENDS Naturals

CONSTANTS
    Nodes,        \* node IDs
    Addresses,    \* numbers, in the order of the keys nodes/{address}
    AddressesOf,  \* AddressesOf[n]: where n may listen
    Labels,       \* label sets a node may report
    NoLabels,     \* the empty one
    Faults        \* what may go wrong, among FaultKinds

\* coordinator: it stops and starts again
\* node:        a node agent stops; it may start again elsewhere
\* save:        a SaveNode fails or times out
FaultKinds == {"coordinator", "node", "save"}

ASSUME RegistryAssumption ==
    /\ Addresses \subseteq Nat
    /\ AddressesOf \in [Nodes -> SUBSET Addresses]
    /\ NoLabels \in Labels
    /\ Faults \subseteq FaultKinds

VARIABLES
    agent,    \* agent[n]: the node agent
    due,      \* agents whose next heartbeat is due, or that may start
    serving,  \* the coordinator is up
    entry,    \* entry[n]: Registry.nodes
    swept,    \* PruneStaleNodes has run in this interval
    saves,    \* the SaveNode goroutines
    disk,     \* disk[a]: the record nodes/{a}
    heard,    \* history: nodes this coordinator has heard, alive since
    unsaved   \* history: addresses whose last SaveNode failed

vars == <<agent, due, serving, entry, swept, saves, disk, heard, unsaved>>

\* Mutant: one missed heartbeat is enough.
StaleAfter_One == 1

\* Registry.staleAfter, in heartbeat intervals.
StaleAfter == 2

\* The TTL of a record, in heartbeat intervals.
RecordTTL == 2

NoEntry == [addr |-> 0, labels |-> NoLabels, age |-> StaleAfter]

\* age: intervals since lastSeen; StaleAfter also stands for a lastSeen of
\* zero, which the code treats alike.
Entry == [addr : Addresses, labels : Labels, age : 0 .. StaleAfter]

Snapshot(n, e) == [node |-> n, addr |-> e.addr, labels |-> e.labels]

NoRecord == [ttl |-> 0]

Agent == [pc : {"off", "register", "up"}, addr : Addresses \cup {0}, labels : Labels]

Off == [pc |-> "off", addr |-> 0, labels |-> NoLabels]

Init ==
    /\ agent = [n \in Nodes |-> Off]
    /\ due = Nodes
    /\ serving = TRUE
    /\ entry = [n \in Nodes |-> NoEntry]
    /\ swept = FALSE
    /\ saves = {}
    /\ disk = [a \in Addresses |-> NoRecord]
    /\ heard = {} /\ unsaved = {}

isHealthy(n) == entry[n] # NoEntry /\ entry[n].age < StaleAfter

-----------------------------------------------------------------------------
(* The node agent, and the coordinator's answers to it.                    *)

\* Bound: an agent starts once in an interval at most.
AgentStart(n, a, l) ==
    /\ agent[n].pc = "off"
    /\ n \in due
    /\ a \in AddressesOf[n]
    /\ \A m \in Nodes : agent[m].addr # a
    /\ agent' = [agent EXCEPT ![n] = [pc |-> "register", addr |-> a, labels |-> l]]
    /\ due' = due \ {n}
    /\ UNCHANGED <<serving, entry, swept, saves, disk, heard, unsaved>>

\* The one registration of an agent: the address and the labels are replaced,
\* the node has been seen, and the record is on its way to the disk.
Register(n) ==
    LET e == [addr |-> agent[n].addr, labels |-> agent[n].labels, age |-> 0] IN
    /\ agent[n].pc = "register"
    /\ serving
    /\ entry' = [entry EXCEPT ![n] = e]
    /\ saves' = saves \cup {Snapshot(n, e)}
    /\ agent' = [agent EXCEPT ![n].pc = "up"]
    /\ heard' = heard \cup {n}
    /\ UNCHANGED <<due, serving, swept, disk, unsaved>>

\* Mutant: a node found stale has to register again.
HandleHeartbeat_StaleRefused(n) ==
    LET e == [entry[n] EXCEPT !.age = 0] IN
    /\ agent[n].pc = "up"
    /\ n \in due
    /\ serving
    /\ due' = due \ {n}
    /\ IF ~isHealthy(n) THEN UNCHANGED <<entry, saves, heard>>
       ELSE /\ entry' = [entry EXCEPT ![n] = e]
            /\ saves' = saves \cup {Snapshot(n, e)}
            /\ heard' = heard \cup {n}
    /\ UNCHANGED <<agent, serving, swept, disk, unsaved>>

\* A node without an entry is refused and its stream ended; the agent opens
\* another and never registers again.
HandleHeartbeat(n) ==
    LET e == [entry[n] EXCEPT !.age = 0] IN
    /\ agent[n].pc = "up"
    /\ n \in due
    /\ serving
    /\ due' = due \ {n}
    /\ IF entry[n] = NoEntry THEN UNCHANGED <<entry, saves, heard>>
       ELSE /\ entry' = [entry EXCEPT ![n] = e]
            /\ saves' = saves \cup {Snapshot(n, e)}
            /\ heard' = heard \cup {n}
    /\ UNCHANGED <<agent, serving, swept, disk, unsaved>>

\* The agent is stopped, or its registration timed out.
AgentStop(n) ==
    /\ "node" \in Faults
    /\ agent[n].pc # "off"
    /\ agent' = [agent EXCEPT ![n] = Off]
    /\ due' = due \ {n}
    /\ heard' = heard \ {n}
    /\ UNCHANGED <<serving, entry, swept, saves, disk, unsaved>>

-----------------------------------------------------------------------------
(* The coordinator.                                                        *)

\* The stale entries stay, and their records are written once more.
PruneStaleNodes ==
    /\ serving
    /\ ~swept
    /\ swept' = TRUE
    /\ saves' = saves \cup {Snapshot(n, entry[n]) :
                               n \in {m \in Nodes : entry[m] # NoEntry /\ ~isHealthy(m)}}
    /\ UNCHANGED <<agent, due, serving, entry, disk, heard, unsaved>>

\* Writes under way that would write the same are one.
SaveNode(s) ==
    /\ s \in saves
    /\ saves' = saves \ {s}
    /\ disk' = [disk EXCEPT ![s.addr] = [node |-> s.node, labels |-> s.labels, ttl |-> RecordTTL]]
    /\ unsaved' = unsaved \ {s.addr}
    /\ UNCHANGED <<agent, due, serving, entry, swept, heard>>

SaveFails(s) ==
    /\ "save" \in Faults
    /\ s \in saves
    /\ saves' = saves \ {s}
    /\ unsaved' = unsaved \cup {s.addr}
    /\ UNCHANGED <<agent, due, serving, entry, swept, disk, heard>>

CoordinatorStop ==
    /\ "coordinator" \in Faults
    /\ serving
    /\ serving' = FALSE
    /\ entry' = [n \in Nodes |-> NoEntry]
    /\ saves' = {} /\ heard' = {} /\ unsaved' = {}
    /\ UNCHANGED <<agent, due, swept, disk>>

RecordsOf(n) == {a \in Addresses : disk[a] # NoRecord /\ disk[a].node = n}

\* LoadAllNodes goes through the records in the order of their keys, so the
\* last record of a node stands.  Its labels are not put back.
Restore ==
    /\ ~serving
    /\ serving' = TRUE
    /\ entry' = [n \in Nodes |->
         IF RecordsOf(n) = {} THEN NoEntry
         ELSE [addr |-> CHOOSE a \in RecordsOf(n) : \A b \in RecordsOf(n) : b <= a,
               labels |-> NoLabels, age |-> StaleAfter]]
    /\ UNCHANGED <<agent, due, swept, saves, disk, heard, unsaved>>

\* One interval passes.  A SaveNode takes less, and a node the coordinator
\* hears sends its heartbeat in time.
Interval ==
    /\ saves = {}
    /\ due \cap heard = {}
    /\ entry' = [n \in Nodes |-> IF entry[n].age < StaleAfter
                                 THEN [entry[n] EXCEPT !.age = @ + 1] ELSE entry[n]]
    /\ disk' = [a \in Addresses |-> IF disk[a].ttl <= 1 THEN NoRecord
                                    ELSE [disk[a] EXCEPT !.ttl = @ - 1]]
    /\ due' = {n \in Nodes : agent[n].pc # "register"}
    /\ swept' = FALSE
    /\ UNCHANGED <<agent, serving, saves, heard, unsaved>>

Next ==
    \/ \E n \in Nodes :
          \/ \E a \in Addresses, l \in Labels : AgentStart(n, a, l)
          \/ Register(n) \/ HandleHeartbeat(n) \/ AgentStop(n)
    \/ \E s \in saves : SaveNode(s) \/ SaveFails(s)
    \/ PruneStaleNodes \/ CoordinatorStop \/ Restore \/ Interval

Spec == Init /\ [][Next]_vars

\* Time passes, heartbeats are sent and answered, and goroutines run.
Fairness ==
    /\ WF_vars(Interval)
    /\ WF_vars(\E s \in saves : SaveNode(s) \/ SaveFails(s))
    /\ \A n \in Nodes : WF_vars(HandleHeartbeat(n))

FairSpec == Spec /\ Fairness

-----------------------------------------------------------------------------
(* Properties.                                                             *)

\* Types; a record names a node that may listen there.
RegistryTypeOK ==
    /\ agent \in [Nodes -> Agent]
    /\ due \subseteq Nodes /\ heard \subseteq Nodes /\ unsaved \subseteq Addresses
    /\ serving \in BOOLEAN /\ swept \in BOOLEAN
    /\ \A n \in Nodes : entry[n] = NoEntry \/ entry[n] \in Entry
    /\ \A s \in saves : s.addr \in AddressesOf[s.node]
    /\ \A a \in Addresses : disk[a] = NoRecord \/
          (a \in AddressesOf[disk[a].node] /\ disk[a].ttl \in 1 .. RecordTTL)

\* A node that runs and that this coordinator has heard is healthy: heartbeats
\* that come in time never let isHealthy, the scheduler's filter, flap.
LiveStaysHealthy ==
    \A n \in heard : isHealthy(n)

\* After the last restarts of both, a running node that the coordinator knows
\* is healthy for good: its heartbeats alone bring it back.
KnownNodeHeals ==
    \A n \in Nodes :
        <>[](agent[n].pc = "up" /\ serving) => <>[](isHealthy(n) \/ entry[n] = NoEntry)

\* components.md:80 "waits 15 s (configurable grace period) for nodes to
\* re-register": a running node is known again after a restart.
LiveNodeHeals ==
    \A n \in Nodes : <>[](agent[n].pc = "up" /\ serving) => <>[](isHealthy(n))

\* persistence_labels_test.go:11 "label persistence across coordinator
\* restarts": a healthy running node has the labels it registered with.
LabelsKept ==
    \A n \in heard : entry[n].labels = agent[n].labels

\* registry_heartbeat.go:27 "The address is set at Register time and never
\* changes unless the node re-registers": a healthy running node is where the
\* registry says.
AddressKept ==
    \A n \in heard : entry[n].addr = agent[n].addr

=============================================================================
