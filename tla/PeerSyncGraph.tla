--------------------------- MODULE PeerSyncGraph ---------------------------
(***************************************************************************)
(* The topology computations of the peer-sync compute server               *)
(* (sync/huygens/PeerComputeServer.py), as pure operators over an edge     *)
(* list el (a sequence of <<edge[0], edge[1]>> pairs) and a node list.     *)
(* Nodes are kept by name; the code's node index 0 is nodeList[1].         *)
(* Columns keep the code's 0-based numbering: 0..E-1 forward, E..2E-1      *)
(* reverse.  Only the shape of the loop matrix is modelled, not the        *)
(* floating-point offsets it is applied to.                                *)
(***************************************************************************)
EXTENDS Integers, Sequences, SequencesExt

\* Faulty variant: the spanning tree's edge count taken as N rather than N - 1.
NumLoops_tree_n(el, numNodes) == Len(el) - numNodes

\* __init__, line 98: num_loops = num_edges - num_nodes + 1, the number of
\* rows np.zeros gives the loop matrix.
NumLoops(el, numNodes) == Len(el) - numNodes + 1

\* __init__, lines 117-132: the forward pass maps <<edge[0], edge[1]>> to
\* the edge's position, the reverse pass maps <<edge[1], edge[0]>> to E
\* plus it; a later assignment overwrites an earlier one, so a pair listed
\* twice keeps its last position and the reverse pass wins over both.
EdgeMap(el) ==
    LET n        == Len(el)
        Fwd(p)   == {i - 1 : i \in {i \in 1..n : el[i] = p}}
        Rev(p)   == {n + i - 1 : i \in {i \in 1..n : el[i] = <<p[2], p[1]>>}}
        pairs    == {el[i] : i \in 1..n} \cup {<<el[i][2], el[i][1]>> : i \in 1..n}
    IN  [p \in pairs |-> IF Rev(p) # {} THEN Max(Rev(p)) ELSE Max(Fwd(p))]

\* _compute_loop_matrix, lines 275-278: the edge list as an nx.Graph, which
\* keeps one undirected edge per pair and only the nodes that have one.
SyncGraph(el) ==
    [node |-> {el[i][1] : i \in 1..Len(el)} \cup {el[i][2] : i \in 1..Len(el)},
     edge |-> {{el[i][1], el[i][2]} : i \in 1..Len(el)}]

\* The nodes joined to S by edges of the undirected [node, edge] graph G.
RECURSIVE Reach(_, _)
Reach(G, S) ==
    LET next == S \cup {v \in G.node : \E u \in S : {u, v} \in G.edge}
    IN  IF next = S THEN S ELSE Reach(G, next)

\* The connected components of G.
Components(G) == {Reach(G, {u}) : u \in G.node}

\* Line 283: nx.cycle_basis(sync_graph, 0) returns a basis of the cycle
\* space, one loop per edge beyond a spanning forest.
CycleBasisSize(el) ==
    LET G == SyncGraph(el) IN
    Cardinality(G.edge) - Cardinality(G.node) + Cardinality(Components(G))

\* The loops cycle_basis can return: simple cycles of the graph, each a
\* node list whose consecutive nodes, and last and first, are adjacent.
Cycles(el) ==
    LET G == SyncGraph(el) IN
    UNION {{p \in [1..k -> G.node] :
                /\ IsInjective(p)
                /\ \A j \in 1..k : {p[j], p[(j % k) + 1]} \in G.edge}
           : k \in 3..Cardinality(G.node)}

\* Faulty variant: the closing edge looked up in the order it is walked.
LoopRow_closing_walked(el, loop) ==
    LET m == EdgeMap(el)
        k == Len(loop)
        Entry(j) == IF j = k THEN <<m[<<loop[k], loop[1]>>], -1>>
                    ELSE <<m[<<loop[j], loop[j + 1]>>], 1>>
    IN  [c \in 0..(2 * Len(el) - 1) |->
            LET at == {j \in 1..k : Entry(j)[1] = c} IN
            IF at = {} THEN 0 ELSE Entry(Max(at))[2]]

\* Lines 286-301: one row of the loop matrix.  Each step loop[j] ->
\* loop[j+1] puts +1 in column edge_map[loop[j]][loop[j+1]]; the closing
\* step puts -1 in edge_map[loop[0]][loop[-1]], the column of the
\* opposite direction.  A later write to a column overwrites an earlier.
LoopRow(el, loop) ==
    LET m == EdgeMap(el)
        k == Len(loop)
        Entry(j) == IF j = k THEN <<m[<<loop[1], loop[k]>>], -1>>
                    ELSE <<m[<<loop[j], loop[j + 1]>>], 1>>
    IN  [c \in 0..(2 * Len(el) - 1) |->
            LET at == {j \in 1..k : Entry(j)[1] = c} IN
            IF at = {} THEN 0 ELSE Entry(Max(at))[2]]

\* What __init__ (lines 87-134) does with the lists: np.zeros raises
\* ValueError for a negative row count.  An endpoint missing from
\* node_list (KeyError at line 120) is outside the inputs considered.
ConstructResult(el, nodeList) ==
    IF NumLoops(el, Len(nodeList)) < 0 THEN "ValueError" ELSE "constructed"

\* _precompute_matrices (lines 305-318) with _compute_loop_matrix.
\* cycle_basis looks root 0 up in the graph (KeyError unless the graph is
\* empty or has it); more loops than num_loops rows fail writing row
\* num_loops (IndexError); fewer leave a zero row, so M M^T is singular,
\* np.linalg.inv raises LinAlgError and the except clause, which names
\* numpy where the module imported it as np, raises NameError.  The
\* return -1 of that clause is never reached.  Basis rows are linearly
\* independent, so with exactly num_loops of them M M^T is invertible.
PrecomputeResult(el, nodeList) ==
    LET G    == SyncGraph(el)
        k    == CycleBasisSize(el)
        rows == NumLoops(el, Len(nodeList))
    IN  CASE G.edge # {} /\ nodeList[1] \notin G.node -> "KeyError"
          [] k > rows -> "IndexError"
          [] k < rows -> "NameError"
          [] OTHER    -> "ok"

-----------------------------------------------------------------------------
(* _calculate_preliminary_offsets, lines 216-223: passes over the edge    *)
(* list, each setting edge[1]'s time when edge[0]'s is set and edge[1]'s  *)
(* is not, until set_counter (started at 1 for the master) reaches N.     *)
(* A pass that sets nothing while set_counter < N repeats forever.        *)
(* _calculate_final_time (lines 249-257) runs the same loop.               *)

\* Faulty variant: edge[1] set again, and counted, when it already is.
PrelimPass_no_unset_check(el, st) ==
    FoldLeft(LAMBDA a, e : IF e[1] \in a[1]
                           THEN <<a[1] \cup {e[2]}, a[2] + 1>> ELSE a,
             st, el)

\* One pass over the edge list from <<times set, set_counter>>.
PrelimPass(el, st) ==
    FoldLeft(LAMBDA a, e : IF e[1] \in a[1] /\ e[2] \notin a[1]
                           THEN <<a[1] \cup {e[2]}, a[2] + 1>> ELSE a,
             st, el)

\* The while loop: TRUE when it ends, FALSE when a pass changes nothing
\* while set_counter < N, so that it would repeat forever.
RECURSIVE PrelimLoop(_, _, _)
PrelimLoop(el, numNodes, st) ==
    IF st[2] >= numNodes THEN TRUE
    ELSE LET next == PrelimPass(el, st) IN
         IF next = st THEN FALSE ELSE PrelimLoop(el, numNodes, next)

=============================================================================
