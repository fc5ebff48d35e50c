------------------------ MODULE PeerSyncDispatcher -------------------------
(***************************************************************************)
(* The peer-sync compute server (sync/huygens/PeerComputeServer.py,       *)
(* class PeerSyncCompute) after start() has returned.                     *)
(*                                                                         *)
(* Three threads share one threading.Condition:                            *)
(*  - the NATS thread runs an asyncio loop; message_handler is a callback *)
(*    of that loop, so while it waits for the lock the loop is blocked;   *)
(*  - the processing thread (_dispatch_offset_calc) waits on the          *)
(*    condition and then runs the offset calculation holding the lock;    *)
(*  - the main thread calls stop().                                        *)
(* The numeric content of a measurement is abstracted away: what is kept *)
(* is which (server, client) pairs were received, whether the master's    *)
(* preliminary time is set (it is the only one the handler sets), and     *)
(* whether the propagation loops of the calculation terminate.            *)
(***************************************************************************)
EXTENDS Integers, Sequences, SequencesExt

CONSTANTS
    Nodes,      \* node_list
    EdgeList,   \* edge_list: a sequence of <<edge[0], edge[1]>> pairs
    Master,     \* master
    Reports,    \* <<server, client>> pairs the peer clients publish
    NoValue     \* model value: no message being handled

ASSUME Master \in Nodes
ASSUME \A i \in DOMAIN EdgeList : EdgeList[i][1] \in Nodes /\ EdgeList[i][2] \in Nodes

Graph == INSTANCE PeerSyncGraph

NumEdges == Len(EdgeList)
NumNodes == Cardinality(Nodes)

\* _edge_map has an entry for both orientations of every listed edge.
IsEdge(u, v) == \E i \in DOMAIN EdgeList : EdgeList[i] \in {<<u, v>>, <<v, u>>}

VARIABLES
    running,    \* _nats_thread_running
    lock,       \* owner of the condition's lock: "free", "proc", "leaked"
    flags,      \* keys of _recv_flags_dict, as <<server, client>> pairs
    masterSet,  \* _preliminary_time[master] # 0
    natsPc,     \* NATS thread: "loop", "handler" (callback waiting for the lock), "closed"
    pending,    \* the message the blocked callback is handling
    procPc,     \* processing thread
    mainPc,     \* main thread: "serving" until stop() is called
    cycle       \* ghost: pairs received since the last completed calculation

vars == <<running, lock, flags, masterSet, natsPc, pending, procPc, mainPc, cycle>>

-----------------------------------------------------------------------------
\* The calculation returns: the preliminary loop terminates from the times
\* set (only the master's can be), and _calculate_final_time's loop, which
\* starts from the master alone over the same edges, terminates with it.
CalculationTerminates ==
    Graph!PrelimLoop(EdgeList, NumNodes, <<IF masterSet THEN {Master} ELSE {}, 1>>)

-----------------------------------------------------------------------------
(* NATS thread: the subscription delivers a message; the callback blocks *)
(* the loop until it holds the lock.                                       *)

nats_receive ==
    /\ natsPc = "loop"
    /\ \E r \in Reports :
         /\ natsPc' = "handler" /\ pending' = r
    /\ UNCHANGED <<running, lock, flags, masterSet, procPc, mainPc, cycle>>

\* Faulty variant: the master's time taken from a message where the
\* master is the server.
message_handler_server_time ==
    LET server == pending[1]
        client == pending[2]
        keys   == flags \cup {pending} IN
    /\ natsPc = "handler" /\ lock = "free"
    /\ IF IsEdge(server, client)
       THEN /\ flags' = keys
            /\ cycle' = cycle \cup {pending}
            /\ masterSet' = (masterSet \/ server = Master)
            /\ procPc' = IF Cardinality(keys) = NumEdges /\ procPc = "wait"
                         THEN "woken" ELSE procPc
            /\ UNCHANGED lock
       ELSE /\ lock' = "leaked"
            /\ UNCHANGED <<flags, cycle, masterSet, procPc>>
    /\ natsPc' = "loop" /\ pending' = NoValue
    /\ UNCHANGED <<running, mainPc>>

\* Faulty variant: notify only when the message adds the last missing key.
message_handler_notify_on_new ==
    LET server == pending[1]
        client == pending[2]
        keys   == flags \cup {pending} IN
    /\ natsPc = "handler" /\ lock = "free"
    /\ IF IsEdge(server, client)
       THEN /\ flags' = keys
            /\ cycle' = cycle \cup {pending}
            /\ masterSet' = (masterSet \/ client = Master)
            /\ procPc' = IF Cardinality(keys) = NumEdges /\ pending \notin flags
                            /\ procPc = "wait"
                         THEN "woken" ELSE procPc
            /\ UNCHANGED lock
       ELSE /\ lock' = "leaked"
            /\ UNCHANGED <<flags, cycle, masterSet, procPc>>
    /\ natsPc' = "loop" /\ pending' = NoValue
    /\ UNCHANGED <<running, mainPc>>

\* message_handler: under the lock, store both directed measurements, set
\* the master's preliminary time if the client is the master, mark the
\* (server, client) key, and notify once the dict has num_edges keys.  A
\* pair that is not an edge raises KeyError at line 168 with the lock held.
message_handler ==
    LET server == pending[1]
        client == pending[2]
        keys   == flags \cup {pending} IN
    /\ natsPc = "handler" /\ lock = "free"
    /\ IF IsEdge(server, client)
       THEN /\ flags' = keys
            /\ cycle' = cycle \cup {pending}
            /\ masterSet' = (masterSet \/ client = Master)
            /\ procPc' = IF Cardinality(keys) = NumEdges /\ procPc = "wait"
                         THEN "woken" ELSE procPc
            /\ UNCHANGED lock
       ELSE /\ lock' = "leaked"
            /\ UNCHANGED <<flags, cycle, masterSet, procPc>>
    /\ natsPc' = "loop" /\ pending' = NoValue
    /\ UNCHANGED <<running, mainPc>>

\* The while loop of _nats_run sees the flag unset and closes the client.
nats_close ==
    /\ natsPc = "loop" /\ ~running
    /\ natsPc' = "closed"
    /\ UNCHANGED <<running, lock, flags, masterSet, pending, procPc, mainPc, cycle>>

-----------------------------------------------------------------------------
(* Processing thread: _dispatch_offset_calc.                               *)

proc_loop ==
    /\ procPc = "loop"
    /\ procPc' = IF running THEN "acquire" ELSE "done"
    /\ UNCHANGED <<running, lock, flags, masterSet, natsPc, pending, mainPc, cycle>>

\* acquire, then wait() releases the lock until notified (no predicate).
proc_acquire_wait ==
    /\ procPc = "acquire" /\ lock = "free"
    /\ procPc' = "wait"
    /\ UNCHANGED <<running, lock, flags, masterSet, natsPc, pending, mainPc, cycle>>

\* A notified wait() returns once it has re-acquired the lock.
proc_wake ==
    /\ procPc = "woken" /\ lock = "free"
    /\ lock' = "proc" /\ procPc' = "check"
    /\ UNCHANGED <<running, flags, masterSet, natsPc, pending, mainPc, cycle>>

\* Faulty variant: the break path does not release the lock.
proc_break_unreleased ==
    /\ procPc = "check" /\ ~running
    /\ procPc' = "done"
    /\ UNCHANGED <<running, lock, flags, masterSet, natsPc, pending, mainPc, cycle>>

proc_break ==
    /\ procPc = "check" /\ ~running
    /\ lock' = "free" /\ procPc' = "done"
    /\ UNCHANGED <<running, flags, masterSet, natsPc, pending, mainPc, cycle>>

\* Faulty variant: the flags dict is not cleared after a calculation.
proc_calculate_keep_flags ==
    /\ procPc = "check" /\ running
    /\ IF CalculationTerminates
       THEN /\ cycle' = {} /\ masterSet' = FALSE
            /\ lock' = "free" /\ procPc' = "loop"
            /\ UNCHANGED flags
       ELSE /\ procPc' = "spin"
            /\ UNCHANGED <<flags, cycle, masterSet, lock>>
    /\ UNCHANGED <<running, natsPc, pending, mainPc>>

\* Faulty variant: the lock is not released after a calculation.
proc_calculate_unreleased ==
    /\ procPc = "check" /\ running
    /\ IF CalculationTerminates
       THEN /\ flags' = {} /\ cycle' = {} /\ masterSet' = FALSE
            /\ procPc' = "loop"
            /\ UNCHANGED lock
       ELSE /\ procPc' = "spin"
            /\ UNCHANGED <<flags, cycle, masterSet, lock>>
    /\ UNCHANGED <<running, natsPc, pending, mainPc>>

\* The three calculations, then the preliminary and final times reset to 0
\* (lines 268-269), the flags dict cleared and the lock released; or the
\* propagation never ends and the lock is never released.
proc_calculate ==
    /\ procPc = "check" /\ running
    /\ IF CalculationTerminates
       THEN /\ flags' = {} /\ cycle' = {} /\ masterSet' = FALSE
            /\ lock' = "free" /\ procPc' = "loop"
       ELSE /\ procPc' = "spin"
            /\ UNCHANGED <<flags, cycle, masterSet, lock>>
    /\ UNCHANGED <<running, natsPc, pending, mainPc>>

-----------------------------------------------------------------------------
(* Main thread: stop().                                                    *)

stop_begin ==
    /\ mainPc = "serving"
    /\ running' = FALSE /\ mainPc' = "join_nats"
    /\ UNCHANGED <<lock, flags, masterSet, natsPc, pending, procPc, cycle>>

stop_join_nats ==
    /\ mainPc = "join_nats" /\ natsPc = "closed"
    /\ mainPc' = "notify"
    /\ UNCHANGED <<running, lock, flags, masterSet, natsPc, pending, procPc, cycle>>

\* acquire, notify, release: wakes the thread only if it is in wait().
stop_notify ==
    /\ mainPc = "notify" /\ lock = "free"
    /\ procPc' = IF procPc = "wait" THEN "woken" ELSE procPc
    /\ mainPc' = "join_proc"
    /\ UNCHANGED <<running, lock, flags, masterSet, natsPc, pending, cycle>>

stop_join_proc ==
    /\ mainPc = "join_proc" /\ procPc = "done"
    /\ mainPc' = "done"
    /\ UNCHANGED <<running, lock, flags, masterSet, natsPc, pending, procPc, cycle>>

-----------------------------------------------------------------------------
(* start() has returned: both threads are started; _nats_run either is    *)
(* subscribed or has returned on ErrNoServers.                             *)

Init ==
    /\ running = TRUE /\ lock = "free"
    /\ flags = {} /\ masterSet = FALSE /\ cycle = {}
    /\ natsPc \in {"loop", "closed"} /\ pending = NoValue
    /\ procPc = "loop" /\ mainPc = "serving"

Next ==
    \/ nats_receive \/ message_handler \/ nats_close
    \/ proc_loop \/ proc_acquire_wait \/ proc_wake \/ proc_break \/ proc_calculate
    \/ stop_begin \/ stop_join_nats \/ stop_notify \/ stop_join_proc

Spec == Init /\ [][Next]_vars

\* Every thread is scheduled; a delivered message is handled.  Neither the
\* arrival of messages nor the call of stop() is assumed.  _nats_run's loop
\* re-checks the running flag after every sleep (lines 196-200), between
\* deliveries, so a stopped loop closes even while messages keep arriving:
\* nats_close is strongly fair, as it is disabled while a delivery is
\* handled.
FairSpec ==
    /\ Spec
    /\ WF_vars(message_handler) /\ SF_vars(nats_close)
    /\ WF_vars(proc_loop) /\ WF_vars(proc_acquire_wait) /\ WF_vars(proc_wake)
    /\ WF_vars(proc_break) /\ WF_vars(proc_calculate)
    /\ WF_vars(stop_join_nats) /\ WF_vars(stop_notify) /\ WF_vars(stop_join_proc)

\* FairSpec, and the peer clients keep publishing: each measures its edge
\* every period, so a message is always eventually delivered while the
\* subscription is open.
LiveSpec ==
    /\ FairSpec
    /\ WF_vars(nats_receive)

-----------------------------------------------------------------------------
(* Properties.                                                             *)

\* Every edge of the graph has a measurement since the last calculation.
AllEdgesReported ==
    \A i \in DOMAIN EdgeList :
        \E r \in cycle : {r[1], r[2]} = {EdgeList[i][1], EdgeList[i][2]}

TypeOK ==
    /\ running \in BOOLEAN
    /\ lock \in {"free", "proc", "leaked"}
    /\ flags \subseteq Reports /\ cycle \subseteq Reports
    /\ masterSet \in BOOLEAN
    /\ natsPc \in {"loop", "handler", "closed"}
    /\ (natsPc = "handler") = (pending # NoValue)
    /\ procPc \in {"loop", "acquire", "wait", "woken", "check", "spin", "done"}
    /\ (lock = "proc") = (procPc \in {"check", "spin"})
    /\ mainPc \in {"serving", "join_nats", "notify", "join_proc", "done"}

\* Spec 4.I: the calculation runs only when every edge of the graph has a
\* measurement received since the last calculation.  message_handler
\* counts (server, client) keys of _recv_flags_dict against num_edges and
\* _dispatch_offset_calc clears the dict after each calculation.
FreshCycleAtCompute ==
    procPc = "check" /\ running => AllEdgesReported

\* The offset calculation always returns and releases the lock: the
\* propagation loops of _calculate_preliminary_offsets and
\* _calculate_final_time reach every node from the master.
ComputeTerminates == procPc # "spin"

\* A report delivered on qot.peer.params is eventually handled: the
\* callback, which blocks the NATS loop, gets the condition's lock, so
\* every path that takes the lock (the processing thread's calculation,
\* the handler itself, stop()) gives it back.
ReportEventuallyHandled == (natsPc = "handler") ~> (natsPc # "handler")

\* Spec 4.I: once every edge has a measurement, the compute thread runs a
\* calculation (or the server is stopped).  message_handler notifies
\* only when the dict's key count equals num_edges; a notify sent while
\* the thread is not in wait() is lost, and only a later message whose
\* key is already present notifies again (line 184).
CycleEventuallyComputed ==
    (running /\ AllEdgesReported) ~> (cycle = {} \/ ~running)

\* Spec 5 (cancellation): once stop() has been called it returns; it
\* unsets the running flag, joins the NATS thread, notifies the condition
\* and joins the processing thread.
StopReturns == (mainPc = "join_nats") ~> (mainPc = "done")

=============================================================================
