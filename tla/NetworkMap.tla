----------------------------- MODULE NetworkMap -----------------------------
(***************************************************************************)
(* NetworkMapManager: the nodes of the local network, in memory and in the *)
(* table network_nodes.  Every method holds the manager's lock, across the *)
(* broadcast it awaits too, so a step is a method; start_monitor(), which  *)
(* takes no lock, replaces the memory by what the table holds.  A node is  *)
(* its id and the time it expires: type, address and metadata only go from *)
(* one place to another.  Connected clients hear of additions, updates and *)
(* removals, not of heartbeats and clean-ups; what they make of it is not  *)
(* modelled (the page has no handler for network_update).                  *)
(***************************************************************************)
EXTENDS ServerClock, FiniteSets

CONSTANTS
    Nodes,     \* node ids
    NodeTTL,   \* NODE_TTL_SECONDS
    MaxNodes   \* MAX_NODES

ASSUME NetworkMapAssumption == NodeTTL \in Nat \ {0} /\ MaxNodes \in Nat

VARIABLES
    nodes,     \* _nodes: when the node of an id expires, or NoNode
    table,     \* network_nodes
    running,   \* _running: the monitor has been started
    alive,     \* history: last heartbeat or first addition of a node
    removed    \* history: removed by remove_node() and not heard of since

mapVars == <<nodes, table, running, alive, removed>>

NoNode == 0    \* no node expires at 0: its TTL is positive
Known == {n \in Nodes : nodes[n] # NoNode}

NetworkMapInit ==
    /\ nodes = [n \in Nodes |-> NoNode]
    /\ table = [n \in Nodes |-> NoNode]
    /\ running = FALSE
    /\ alive = [n \in Nodes |-> 0]
    /\ removed = {}

\* _save_node() after a change in memory.
Store(n, expires) ==
    /\ nodes' = [nodes EXCEPT ![n] = expires]
    /\ table' = [table EXCEPT ![n] = expires]

\* A node is heard of: it is added anew or beats.
Beats(n) == alive' = [alive EXCEPT ![n] = now] /\ removed' = removed \ {n}

\* A node that is known keeps its expiry, though it may have passed.
AddNode(n) ==
    /\ Cardinality(Known) < MaxNodes \/ n \in Known
    /\ IF n \in Known
       THEN Store(n, nodes[n]) /\ UNCHANGED <<alive, removed>>
       ELSE Store(n, now + NodeTTL) /\ Beats(n)
    /\ UNCHANGED <<running, now>>

RemoveNode(n) ==
    /\ n \in Known
    /\ Store(n, NoNode)
    /\ removed' = removed \union {n}
    /\ UNCHANGED <<running, alive, now>>

\* The heartbeat is not saved.
UpdateHeartbeat_mut(n) ==
    /\ n \in Known
    /\ nodes' = [nodes EXCEPT ![n] = now + NodeTTL]
    /\ Beats(n)
    /\ UNCHANGED <<table, running, now>>

\* A node that has expired and is not cleaned up is active again.
UpdateHeartbeat(n) ==
    /\ n \in Known
    /\ Store(n, now + NodeTTL)
    /\ Beats(n)
    /\ UNCHANGED <<running, now>>

\* A node is dropped before its time.
Expired_mut == {n \in Known : now + 1 >= nodes[n]}
Expired == {n \in Known : now >= nodes[n]}

\* Rows of nodes that are not in memory stay.
CleanupExpired ==
    /\ nodes' = [n \in Nodes |-> IF n \in Expired THEN NoNode ELSE nodes[n]]
    /\ table' = [n \in Nodes |-> IF n \in Expired THEN NoNode ELSE table[n]]
    /\ UNCHANGED <<running, alive, removed, now>>

\* Called by the loop that start_monitor() starts, and by hand.
MonitorCleanup == Expired # {} /\ CleanupExpired

StartMonitor ==
    /\ ~running
    /\ running' = TRUE
    /\ nodes' = table
    /\ UNCHANGED <<table, alive, removed, now>>

StopMonitor == running /\ running' = FALSE /\ UNCHANGED <<nodes, table, alive, removed, now>>

\* The process ends and starts again.
MapRestart ==
    /\ nodes' = [n \in Nodes |-> NoNode]
    /\ running' = FALSE
    /\ UNCHANGED <<table, alive, removed, now>>

MapTick == Tick /\ UNCHANGED mapVars

NetworkMapNext ==
    \/ \E n \in Nodes : AddNode(n) \/ RemoveNode(n) \/ UpdateHeartbeat(n)
    \/ MonitorCleanup
    \/ StartMonitor
    \/ StopMonitor
    \/ MapRestart
    \/ MapTick

NetworkMapSpec ==
    NetworkMapInit /\ now = 0 /\ [][NetworkMapNext]_<<mapVars, now>>

-----------------------------------------------------------------------------
NetworkMapTypeOK ==
    /\ nodes \in [Nodes -> Nat] /\ table \in [Nodes -> Nat]
    /\ running \in BOOLEAN
    /\ alive \in [Nodes -> Nat]
    /\ removed \subseteq Nodes

\* What is in memory is in the table with the same expiry, so that no crash
\* or restart of the monitor loses a heartbeat.
MapStored == \A n \in Known : table[n] = nodes[n]

\* A node that announced itself within its lifetime leaves the map by a call
\* of remove_node() or with the process, and comes back at its next start.
BeatingStays ==
    [][\A n \in Known :
          now < alive[n] + NodeTTL /\ nodes'[n] = NoNode => RemoveNode(n) \/ MapRestart
      ]_<<mapVars, now>>

\* The table, which outlives the process and is what the next one starts
\* from, is a table of leases: what is in memory, the restarts, the clean-ups
\* and the saving of what did not change never lengthen the time of a node
\* nor, unless it is removed by name, cut it.
TableLease == INSTANCE Leases WITH
    Holders <- Nodes, Term <- NodeTTL, Releasable <- Nodes, Volatile <- FALSE,
    lease <- table, given <- removed
TableLeases == TableLease!Spec
=============================================================================
