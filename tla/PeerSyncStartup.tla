--------------------------- MODULE PeerSyncStartup --------------------------
(***************************************************************************)
(* Start-up of the peer-sync compute server on a topology read from the   *)
(* configuration file (PeerComputeServer.py, __main__): the constructor   *)
(* sizes the loop matrix, start() precomputes the projection, and the     *)
(* first offset calculation propagates times from the master.  The edge   *)
(* list is any list of distinct-endpoint pairs over the node list that    *)
(* the JSON file can hold; the threads that follow start() are the         *)
(* PeerSyncDispatcher module.                                              *)
(***************************************************************************)
EXTENDS Integers, Sequences, SequencesExt, PeerSyncGraph

LOCAL DG == INSTANCE Graphs

CONSTANTS
    NodeList,   \* node_list, in file order; node_list[0] is node index 0
    Master,     \* master
    MaxEdges    \* bound: length of edge_list

Nodes == ToSet(NodeList)

ASSUME IsInjective(NodeList) /\ Master \in Nodes /\ MaxEdges \in Nat

\* The pairs an edge of the file can name.
Pairs == {p \in Nodes \X Nodes : p[1] # p[2]}

VARIABLES
    edgeList,   \* edge_list as loaded from the configuration
    phase       \* where start-up is, or the exception it ended with

vars == <<edgeList, phase>>

Failures == {"ValueError", "KeyError", "IndexError", "NameError"}

Init ==
    /\ edgeList \in UNION {[1..n -> Pairs] : n \in 0..MaxEdges}
    /\ phase = "config"

\* PeerSyncCompute(edge_list, node_list, master, ...), lines 87-134.
construct ==
    /\ phase = "config"
    /\ phase' = ConstructResult(edgeList, NodeList)
    /\ UNCHANGED edgeList

\* start(), lines 348-362: _precompute_matrices, then the threads.
start ==
    /\ phase = "constructed"
    /\ phase' = IF PrecomputeResult(edgeList, NodeList) = "ok"
                THEN "running" ELSE PrecomputeResult(edgeList, NodeList)
    /\ UNCHANGED edgeList

\* _dispatch_offset_calc's first calculation, in a cycle where the master
\* reported as client so that its preliminary time is set (lines 176-178):
\* it returns, or its propagation loop spins with the lock held.
first_calculation ==
    /\ phase = "running"
    /\ phase' = IF PrelimLoop(edgeList, Len(NodeList), <<{Master}, 1>>)
                THEN "serving" ELSE "spinning"
    /\ UNCHANGED edgeList

Next == construct \/ start \/ first_calculation

Spec == Init /\ [][Next]_vars

-----------------------------------------------------------------------------
(* Properties.                                                             *)

\* Every node is joined to every other by edges of the list.
Connected(el) ==
    Components([node |-> Nodes, edge |-> SyncGraph(el).edge]) = {Nodes}

\* The list names each undirected edge once.
Simple(el) == \A i, j \in 1..Len(el) : i # j => {el[i][1], el[i][2]} # {el[j][1], el[j][2]}

\* Spec 4.H: every loop of the cycle basis sums to zero.  Whatever loop
\* nx.cycle_basis returns and whatever the edge list, the row
\* _compute_loop_matrix builds from edge_map is a closed walk: reading
\* column c as the directed pair edge_map gives it, every node has as much
\* flow in as out.  This ties the +1 steps, the -1 closing step and the
\* overwriting of edge_map by the reverse pass together.
LoopRowsClosed ==
    LET m == EdgeMap(edgeList)
        Flow(row, x) ==
            MapThenSumSet(LAMBDA p : (IF p[1] = x THEN row[m[p]] ELSE 0)
                                     - (IF p[2] = x THEN row[m[p]] ELSE 0),
                          DOMAIN m)
    IN  \A loop \in Cycles(edgeList) :
            \A x \in Nodes : Flow(LoopRow(edgeList, loop), x) = 0

\* A well-formed topology (connected, each edge listed once) gets through
\* the constructor and start(): num_loops of __init__ equals the number of
\* loops cycle_basis returns and the matrix M M^T is invertible.
WellFormedTopologyStarts ==
    Connected(edgeList) /\ Simple(edgeList) => phase \notin Failures

\* The first calculation returns exactly when every node is reachable from
\* the master along the edges in their listed direction: the propagation
\* loop of lines 216-223 (and 249-257) never follows an edge backwards.
CalculationReturnsIffReachable ==
    phase \in {"serving", "spinning"} =>
        ((phase = "serving") <=>
            Nodes \subseteq {Master} \cup DG!Descendants([node |-> Nodes, edge |-> ToSet(edgeList)], Master))

\* Spec 4.H: a degenerate topology is a fatal error at start-up.  The
\* engine runs only on a connected topology, the one its offset
\* propagation can complete.
StartedOnlyWhenConnected ==
    phase \in {"running", "serving", "spinning"} => Connected(edgeList)

=============================================================================
