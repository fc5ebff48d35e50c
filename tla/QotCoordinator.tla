--------------------------- MODULE QotCoordinator ---------------------------
(***************************************************************************)
(* One replica of the QoT coordination service (coordination_service/).   *)
(*                                                                         *)
(* The business operations of api/coordinator/business.py run on Flask    *)
(* request threads.  Each thread executes one operation as a sequence of  *)
(* atomic steps: a query of the SQL store (database/models.py), a call to *)
(* the ZooKeeper client wrapper (zookeeper/zk_logic.py), a commit of the  *)
(* SQLAlchemy session, or a publish on NATS (zookeeper/nats_pub.py).      *)
(* Steps of different threads interleave; a query reads committed state,  *)
(* a commit writes the columns the session changed, with the values the   *)
(* thread computed from what it read earlier.  An exception in any step   *)
(* (NoResultFound, StaleDataError, a kazoo error) ends the request and    *)
(* rolls back the session; ZooKeeper changes already made stay.           *)
(*                                                                         *)
(* The ZooKeeper state modelled here is this replica's own ephemeral      *)
(* entry /timelines/<t>/nodes/<group> per timeline (its QoT info); the    *)
(* ZooKeeper session may be suspended and may expire, which drops the     *)
(* ephemeral entries.  The NATS bus keeps the last delivered membership   *)
(* snapshot per timeline on topic coordination.timelines.<t>.local.       *)
(***************************************************************************)
EXTENDS Integers, Sequences, SequencesExt

CONSTANTS
    Timelines,     \* timeline names used by the clients
    NodeNames,     \* node names used by the clients
    Threads,       \* Flask request-handling threads
    AccIn,         \* accuracy values (ns) clients send
    ResIn,         \* resolution values (ns) clients send
    MetaIn,        \* meta_data values clients send
    NoValue,       \* model value: no row / no entry / no message
    MaxNum,        \* bound: value of Timeline.num_nodes
    ZkFaults,      \* TRUE: the ZooKeeper session may be suspended / expire
    NatsFaults     \* TRUE: the NATS connection may be down

ASSUME Threads # {} /\ MaxNum \in Nat \ {0}
ASSUME ZkFaults \in BOOLEAN /\ NatsFaults \in BOOLEAN

(* Defaults hard-coded in models.py (Timeline.__init__) and in            *)
(* business.get_newtlqot.                                                  *)
DefaultAccuracy   == 1000000000
DefaultResolution == 100
DefaultMeta       == "NULL"
NewQotStart       == 1000000000

Qot         == [acc : AccIn, res : ResIn]
AccVals     == AccIn \cup {DefaultAccuracy, NewQotStart}
ResVals     == ResIn \cup {DefaultResolution, NewQotStart}
TimelineQot == [acc : AccVals, res : ResVals]
TimelineRow == [num : 0..MaxNum, acc : AccVals, res : ResVals, meta : MetaIn \cup {DefaultMeta}]
Snapshot    == [NodeNames -> Qot \cup {NoValue}]

VARIABLES
    tlRow,      \* Timeline table: tlRow[t] is the row named t, or NoValue
    nodeRows,   \* Node table: nodeRows[t][n] lists the rows (t, n) in insertion order
    zkEntry,    \* /timelines/t/nodes/<group>: its QoT info, or NoValue
    zkState,    \* kazoo connection state: "CONNECTED" or "SUSPENDED"
    natsUp,     \* NATS client connected (publish_data drops otherwise)
    pubLocal,   \* last snapshot delivered on coordination.timelines.t.local
    req         \* req[h]: the request thread h is executing, with its locals

vars == <<tlRow, nodeRows, zkEntry, zkState, natsUp, pubLocal, req>>

Idle == [pc |-> "idle", op |-> "none", t |-> NoValue, n |-> NoValue,
         q |-> NoValue, tl |-> NoValue, nq |-> NoValue, snap |-> NoValue]

-----------------------------------------------------------------------------
(* Helpers over the tables.                                                *)

NodeCount(t) == SumFunction([n \in NodeNames |-> Len(nodeRows[t][n])])

\* Membership snapshot built by publish_cluster_node_publisher: one entry
\* per node name; with duplicate rows the last row read wins.
NodeSnapshot(t) ==
    [n \in NodeNames |-> IF nodeRows[t][n] = <<>> THEN NoValue ELSE Last(nodeRows[t][n])]

\* Faulty variants of update_timeline's check: comparison reversed, the
\* demand written whatever it is, the resolution never tightened.
Tighten_reversed(cur, acc, res) ==
    [acc |-> IF acc # 0 /\ cur.acc < acc THEN acc ELSE cur.acc,
     res |-> IF res # 0 /\ cur.res < res THEN res ELSE cur.res]
Tighten_assign(cur, acc, res) ==
    [acc |-> IF acc # 0 THEN acc ELSE cur.acc,
     res |-> IF res # 0 THEN res ELSE cur.res]
Tighten_acc_only(cur, acc, res) ==
    [acc |-> IF acc # 0 /\ cur.acc > acc THEN acc ELSE cur.acc,
     res |-> cur.res]

\* update_timeline: tighten only, and only for a non-zero demand.
Tighten(cur, acc, res) ==
    [acc |-> IF acc # 0 /\ cur.acc > acc THEN acc ELSE cur.acc,
     res |-> IF res # 0 /\ cur.res > res THEN res ELSE cur.res]

\* get_newtlqot: minimum over the given rows, starting from 1e9 for both.
get_newtlqot(rows) ==
    [acc |-> Min({NewQotStart} \cup {r.acc : r \in rows}),
     res |-> Min({NewQotStart} \cup {r.res : r \in rows})]

\* The rows of t that delete_node's session sees after flushing the
\* deletion of the first row (t, n).
RowsAfterDelete(t, n) ==
    UNION {Range(IF m = n /\ nodeRows[t][m] # <<>> THEN Tail(nodeRows[t][m]) ELSE nodeRows[t][m])
             : m \in NodeNames}

\* zk_logic.update_timeline: zk.set inside try/except, errors are swallowed.
ZkSet(t, info) ==
    zkEntry' = IF zkState = "CONNECTED" /\ zkEntry[t] # NoValue
               THEN [zkEntry EXCEPT ![t] = info] ELSE zkEntry

\* zk_logic.delete_timeline: zk.delete of the own entry raises when the
\* session is suspended or the entry is missing (NoNodeError).
ZkDeleteOk(t) == zkState = "CONNECTED" /\ zkEntry[t] # NoValue

Goto(h, pc)    == req' = [req EXCEPT ![h].pc = pc]
Finish(h)      == req' = [req EXCEPT ![h] = Idle]

-----------------------------------------------------------------------------
(* A request thread picks up a request.  The REST layer passes the path   *)
(* and body values through unchanged.                                      *)

StartRequest(h) ==
    /\ req[h].pc = "idle"
    /\ \E t \in Timelines, n \in NodeNames, a \in AccIn, r \in ResIn :
         \/ req' = [req EXCEPT ![h] = [Idle EXCEPT !.pc = "ct_read", !.op = "ct", !.t = t]]
         \/ req' = [req EXCEPT ![h] = [Idle EXCEPT !.pc = "cn_read", !.op = "cn", !.t = t, !.n = n,
                                                    !.q = [acc |-> a, res |-> r]]]
         \/ req' = [req EXCEPT ![h] = [Idle EXCEPT !.pc = "uq_read", !.op = "uq", !.t = t, !.n = n,
                                                    !.q = [acc |-> a, res |-> r]]]
         \/ req' = [req EXCEPT ![h] = [Idle EXCEPT !.pc = "dn_read", !.op = "dn", !.t = t, !.n = n]]
         \/ req' = [req EXCEPT ![h] = [Idle EXCEPT !.pc = "dt_read", !.op = "dt", !.t = t]]
    /\ UNCHANGED <<tlRow, nodeRows, zkEntry, zkState, natsUp, pubLocal>>

-----------------------------------------------------------------------------
(* create_timeline(data)                                                   *)

create_timeline_query(h) ==
    /\ req[h].pc = "ct_read"
    /\ IF tlRow[req[h].t] = NoValue THEN Goto(h, "ct_zk") ELSE Finish(h)
    /\ UNCHANGED <<tlRow, nodeRows, zkEntry, zkState, natsUp, pubLocal>>

\* zk_logic.create_timeline: ensure_path, then create the ephemeral entry
\* with the default info; NodeExistsError or a lost connection raise.
create_timeline_zk(h) ==
    LET t == req[h].t IN
    /\ req[h].pc = "ct_zk"
    /\ IF zkState = "CONNECTED" /\ zkEntry[t] = NoValue
       THEN /\ zkEntry' = [zkEntry EXCEPT ![t] = [acc |-> DefaultAccuracy, res |-> DefaultResolution]]
            /\ Goto(h, "ct_commit")
       ELSE /\ Finish(h)
            /\ UNCHANGED zkEntry
    /\ UNCHANGED <<tlRow, nodeRows, zkState, natsUp, pubLocal>>

\* The insert fails on the unique name if another thread inserted first.
create_timeline_commit(h) ==
    LET t == req[h].t IN
    /\ req[h].pc = "ct_commit"
    /\ tlRow' = IF tlRow[t] = NoValue
                THEN [tlRow EXCEPT ![t] = [num |-> 0, acc |-> DefaultAccuracy,
                                           res |-> DefaultResolution, meta |-> DefaultMeta]]
                ELSE tlRow
    /\ Finish(h)
    /\ UNCHANGED <<nodeRows, zkEntry, zkState, natsUp, pubLocal>>

-----------------------------------------------------------------------------
(* create_node(data, timeline_name, ip)                                    *)

\* Faulty variant: the (timeline, name) count check dropped.
create_node_query_nodup(h) ==
    LET t == req[h].t IN
    /\ req[h].pc = "cn_read"
    /\ tlRow[t] # NoValue => tlRow[t].num < MaxNum
    /\ IF tlRow[t] # NoValue
       THEN req' = [req EXCEPT ![h].pc = "cn_commit", ![h].tl = tlRow[t]]
       ELSE Finish(h)
    /\ UNCHANGED <<tlRow, nodeRows, zkEntry, zkState, natsUp, pubLocal>>

\* Timeline .one() raises NoResultFound when the timeline is missing; an
\* existing (timeline, name) row makes the call a no-op.
create_node_query(h) ==
    LET t == req[h].t IN
    /\ req[h].pc = "cn_read"
    /\ tlRow[t] # NoValue => tlRow[t].num < MaxNum
    /\ IF tlRow[t] # NoValue /\ nodeRows[t][req[h].n] = <<>>
       THEN req' = [req EXCEPT ![h].pc = "cn_commit", ![h].tl = tlRow[t]]
       ELSE Finish(h)
    /\ UNCHANGED <<tlRow, nodeRows, zkEntry, zkState, natsUp, pubLocal>>

\* Faulty variant: num_nodes not incremented.
create_node_commit_noinc(h) ==
    LET t == req[h].t
        n == req[h].n IN
    /\ req[h].pc = "cn_commit"
    /\ IF tlRow[t] # NoValue
       THEN /\ nodeRows' = [nodeRows EXCEPT ![t][n] = Append(@, req[h].q)]
            /\ Goto(h, "pub_query")
            /\ UNCHANGED tlRow
       ELSE /\ Finish(h)
            /\ UNCHANGED <<tlRow, nodeRows>>
    /\ UNCHANGED <<zkEntry, zkState, natsUp, pubLocal>>

\* Commits num_nodes = (value read) + 1 and inserts the node row; the
\* UPDATE of a timeline row deleted meanwhile raises StaleDataError.
create_node_commit(h) ==
    LET t == req[h].t
        n == req[h].n IN
    /\ req[h].pc = "cn_commit"
    /\ IF tlRow[t] # NoValue
       THEN /\ tlRow' = [tlRow EXCEPT ![t].num = req[h].tl.num + 1]
            /\ nodeRows' = [nodeRows EXCEPT ![t][n] = Append(@, req[h].q)]
            /\ Goto(h, "pub_query")
       ELSE /\ Finish(h)
            /\ UNCHANGED <<tlRow, nodeRows>>
    /\ UNCHANGED <<zkEntry, zkState, natsUp, pubLocal>>

-----------------------------------------------------------------------------
(* publish_cluster_node_publisher(timeline_name, event): query the nodes, *)
(* then hand the JSON to the NATS loop (dropped when not connected).       *)

publish_query(h) ==
    /\ req[h].pc = "pub_query"
    /\ req' = [req EXCEPT ![h].pc = "pub_send", ![h].snap = NodeSnapshot(req[h].t)]
    /\ UNCHANGED <<tlRow, nodeRows, zkEntry, zkState, natsUp, pubLocal>>

\* Faulty variant: only node_joined events reach NATS.
publish_send_joins_only(h) ==
    /\ req[h].pc = "pub_send"
    /\ pubLocal' = IF natsUp /\ req[h].op = "cn"
                   THEN [pubLocal EXCEPT ![req[h].t] = req[h].snap] ELSE pubLocal
    /\ IF req[h].op = "cn" THEN Goto(h, "ut_read") ELSE Finish(h)
    /\ UNCHANGED <<tlRow, nodeRows, zkEntry, zkState, natsUp>>

publish_send(h) ==
    /\ req[h].pc = "pub_send"
    /\ pubLocal' = IF natsUp THEN [pubLocal EXCEPT ![req[h].t] = req[h].snap] ELSE pubLocal
    /\ IF req[h].op = "cn" THEN Goto(h, "ut_read") ELSE Finish(h)
    /\ UNCHANGED <<tlRow, nodeRows, zkEntry, zkState, natsUp>>

-----------------------------------------------------------------------------
(* update_timeline(timeline_name, acc_ns, res_ns), called by create_node  *)
(* and by updateqot_node.                                                  *)

\* Faulty variant: the demand is compared with the defaults rather than
\* with the timeline's current QoT.
update_timeline_query_from_default(h) ==
    LET t == req[h].t IN
    /\ req[h].pc = "ut_read"
    /\ IF tlRow[t] # NoValue
       THEN req' = [req EXCEPT ![h].pc = "ut_zk", ![h].tl = tlRow[t],
                               ![h].nq = Tighten([acc |-> DefaultAccuracy, res |-> DefaultResolution],
                                                 req[h].q.acc, req[h].q.res)]
       ELSE Finish(h)
    /\ UNCHANGED <<tlRow, nodeRows, zkEntry, zkState, natsUp, pubLocal>>

update_timeline_query(h) ==
    LET t == req[h].t IN
    /\ req[h].pc = "ut_read"
    /\ IF tlRow[t] # NoValue
       THEN req' = [req EXCEPT ![h].pc = "ut_zk", ![h].tl = tlRow[t],
                               ![h].nq = Tighten(tlRow[t], req[h].q.acc, req[h].q.res)]
       ELSE Finish(h)
    /\ UNCHANGED <<tlRow, nodeRows, zkEntry, zkState, natsUp, pubLocal>>

update_timeline_zk(h) ==
    /\ req[h].pc = "ut_zk"
    /\ ZkSet(req[h].t, req[h].nq)
    /\ Goto(h, "ut_commit")
    /\ UNCHANGED <<tlRow, nodeRows, zkState, natsUp, pubLocal>>

\* The session writes the timeline columns it changed and, for
\* updateqot_node, the node row; an UPDATE of a row deleted meanwhile
\* raises StaleDataError and nothing is written.
update_timeline_commit(h) ==
    LET t     == req[h].t
        n     == req[h].n
        r     == req[h]
        dirty == r.nq # [acc |-> r.tl.acc, res |-> r.tl.res]
        ok    == /\ dirty => tlRow[t] # NoValue
                 /\ r.op = "uq" => nodeRows[t][n] # <<>>
    IN
    /\ r.pc = "ut_commit"
    /\ IF ok
       THEN /\ tlRow' = IF dirty
                        THEN [tlRow EXCEPT ![t].acc = IF r.nq.acc # r.tl.acc THEN r.nq.acc ELSE @,
                                           ![t].res = IF r.nq.res # r.tl.res THEN r.nq.res ELSE @]
                        ELSE tlRow
            /\ nodeRows' = IF r.op = "uq" THEN [nodeRows EXCEPT ![t][n][1] = r.q] ELSE nodeRows
            /\ IF r.op = "uq" THEN Goto(h, "pub_query") ELSE Finish(h)
       ELSE /\ Finish(h)
            /\ UNCHANGED <<tlRow, nodeRows>>
    /\ UNCHANGED <<zkEntry, zkState, natsUp, pubLocal>>

-----------------------------------------------------------------------------
(* updateqot_node(data, timeline_name, node_name)                          *)

\* Node .one(): exactly one row, else NoResultFound/MultipleResultsFound.
updateqot_node_query(h) ==
    /\ req[h].pc = "uq_read"
    /\ IF Len(nodeRows[req[h].t][req[h].n]) = 1 THEN Goto(h, "ut_read") ELSE Finish(h)
    /\ UNCHANGED <<tlRow, nodeRows, zkEntry, zkState, natsUp, pubLocal>>

-----------------------------------------------------------------------------
(* delete_node(timeline_name, node_name)                                   *)

delete_node_query(h) ==
    LET t == req[h].t IN
    /\ req[h].pc = "dn_read"
    /\ IF Len(nodeRows[t][req[h].n]) = 1 /\ tlRow[t] # NoValue /\ tlRow[t].num > 0
       THEN req' = [req EXCEPT ![h].tl = tlRow[t],
                               ![h].pc = IF tlRow[t].num - 1 = 0 THEN "dn_zk_delete" ELSE "dn_min"]
       ELSE Finish(h)
    /\ UNCHANGED <<tlRow, nodeRows, zkEntry, zkState, natsUp, pubLocal>>

\* get_newtlqot: query the remaining nodes (the session's own deletion is
\* flushed first), then zk.set the result.
get_newtlqot_query(h) ==
    /\ req[h].pc = "dn_min"
    /\ req' = [req EXCEPT ![h].pc = "dn_zk_set",
                          ![h].nq = get_newtlqot(RowsAfterDelete(req[h].t, req[h].n))]
    /\ UNCHANGED <<tlRow, nodeRows, zkEntry, zkState, natsUp, pubLocal>>

\* Faulty variant: the recomputed QoT is not written to ZooKeeper.
get_newtlqot_zk_skipped(h) ==
    /\ req[h].pc = "dn_zk_set"
    /\ Goto(h, "dn_commit")
    /\ UNCHANGED <<tlRow, nodeRows, zkEntry, zkState, natsUp, pubLocal>>

get_newtlqot_zk(h) ==
    /\ req[h].pc = "dn_zk_set"
    /\ ZkSet(req[h].t, req[h].nq)
    /\ Goto(h, "dn_commit")
    /\ UNCHANGED <<tlRow, nodeRows, zkState, natsUp, pubLocal>>

\* zk_coordinator.delete_timeline when num_nodes drops to 0 (also used by
\* delete_timeline); a raise ends the request with nothing committed.
zk_delete_timeline(h) ==
    LET t == req[h].t IN
    /\ req[h].pc \in {"dn_zk_delete", "dt_zk"}
    /\ IF ZkDeleteOk(t)
       THEN /\ zkEntry' = [zkEntry EXCEPT ![t] = NoValue]
            /\ Goto(h, IF req[h].pc = "dt_zk" THEN "dt_commit" ELSE "dn_commit")
       ELSE /\ Finish(h)
            /\ UNCHANGED zkEntry
    /\ UNCHANGED <<tlRow, nodeRows, zkState, natsUp, pubLocal>>

\* Deleting a timeline row while node rows still name it either fails the
\* commit (the ORM nulls Node.timeline_name, declared NOT NULL) or leaves
\* the rows behind; which one the installed SQLAlchemy does is left open.
RowsLeft(t, rows) == \E m \in NodeNames : rows[t][m] # <<>>

\* Commit: delete the node row, then either delete the timeline (count
\* reached 0) or write num_nodes = (value read) - 1 and the new QoT.
delete_node_commit(h) ==
    LET t      == req[h].t
        n      == req[h].n
        r      == req[h]
        newnum == r.tl.num - 1
        rows   == IF nodeRows[t][n] = <<>> THEN nodeRows
                  ELSE [nodeRows EXCEPT ![t][n] = Tail(@)]
    IN
    /\ r.pc = "dn_commit"
    /\ \/ /\ newnum = 0
          /\ tlRow' = [tlRow EXCEPT ![t] = NoValue]
          /\ nodeRows' = rows
          /\ Goto(h, "pub_query")
       \/ /\ newnum # 0 /\ tlRow[t] # NoValue
          /\ tlRow' = [tlRow EXCEPT ![t].num = newnum,
                                    ![t].acc = IF r.nq.acc # r.tl.acc THEN r.nq.acc ELSE @,
                                    ![t].res = IF r.nq.res # r.tl.res THEN r.nq.res ELSE @]
          /\ nodeRows' = rows
          /\ Goto(h, "pub_query")
       \/ /\ \/ newnum = 0 /\ RowsLeft(t, rows)
             \/ newnum # 0 /\ tlRow[t] = NoValue
          /\ Finish(h)
          /\ UNCHANGED <<tlRow, nodeRows>>
    /\ UNCHANGED <<zkEntry, zkState, natsUp, pubLocal>>

-----------------------------------------------------------------------------
(* delete_timeline(timeline_name): only when no node row names it.        *)

\* Faulty variant: the node count check dropped.
delete_timeline_query_nocheck(h) ==
    LET t == req[h].t IN
    /\ req[h].pc = "dt_read"
    /\ IF tlRow[t] # NoValue THEN Goto(h, "dt_zk") ELSE Finish(h)
    /\ UNCHANGED <<tlRow, nodeRows, zkEntry, zkState, natsUp, pubLocal>>

delete_timeline_query(h) ==
    LET t == req[h].t IN
    /\ req[h].pc = "dt_read"
    /\ IF tlRow[t] # NoValue /\ NodeCount(t) = 0 THEN Goto(h, "dt_zk") ELSE Finish(h)
    /\ UNCHANGED <<tlRow, nodeRows, zkEntry, zkState, natsUp, pubLocal>>

delete_timeline_commit(h) ==
    LET t == req[h].t IN
    /\ req[h].pc = "dt_commit"
    /\ \/ tlRow' = [tlRow EXCEPT ![t] = NoValue]
       \/ RowsLeft(t, nodeRows) /\ UNCHANGED tlRow
    /\ Finish(h)
    /\ UNCHANGED nodeRows
    /\ UNCHANGED <<zkEntry, zkState, natsUp, pubLocal>>

-----------------------------------------------------------------------------
(* update_timeline_metadata(data, timeline_name): one query and a commit  *)
(* of meta_data alone, so no other request can be overtaken by it.        *)

update_timeline_metadata(h) ==
    /\ req[h].pc = "idle"
    /\ \E t \in Timelines, m \in MetaIn :
         /\ tlRow[t] # NoValue
         /\ tlRow' = [tlRow EXCEPT ![t].meta = m]
    /\ UNCHANGED <<nodeRows, zkEntry, zkState, natsUp, pubLocal, req>>

-----------------------------------------------------------------------------
(* Environment: the kazoo connection listener (zookeeper_listener) and    *)
(* the NATS client connection.  On expiry kazoo opens a new session; the  *)
(* ephemeral entries of the old one are gone and nothing re-creates them. *)

ZkSuspend ==
    /\ ZkFaults /\ zkState = "CONNECTED"
    /\ zkState' = "SUSPENDED"
    /\ UNCHANGED <<tlRow, nodeRows, zkEntry, natsUp, pubLocal, req>>

ZkReconnect ==
    /\ zkState = "SUSPENDED"
    /\ zkState' = "CONNECTED"
    /\ UNCHANGED <<tlRow, nodeRows, zkEntry, natsUp, pubLocal, req>>

ZkSessionExpire ==
    /\ zkState = "SUSPENDED"
    /\ zkState' = "CONNECTED"
    /\ zkEntry' = [t \in Timelines |-> NoValue]
    /\ UNCHANGED <<tlRow, nodeRows, natsUp, pubLocal, req>>

NatsDisconnect ==
    /\ NatsFaults /\ natsUp
    /\ natsUp' = FALSE
    /\ UNCHANGED <<tlRow, nodeRows, zkEntry, zkState, pubLocal, req>>

NatsReconnect ==
    /\ ~natsUp
    /\ natsUp' = TRUE
    /\ UNCHANGED <<tlRow, nodeRows, zkEntry, zkState, pubLocal, req>>

-----------------------------------------------------------------------------
(* Database reset at start-up (app.initialize_app: drop_all, create_all). *)

Init ==
    /\ tlRow    = [t \in Timelines |-> NoValue]
    /\ nodeRows = [t \in Timelines |-> [n \in NodeNames |-> <<>>]]
    /\ zkEntry  = [t \in Timelines |-> NoValue]
    /\ zkState  = "CONNECTED"
    /\ natsUp   = TRUE
    /\ pubLocal = [t \in Timelines |-> NoValue]
    /\ req      = [h \in Threads |-> Idle]

ThreadStep(h) ==
    \/ StartRequest(h)
    \/ create_timeline_query(h) \/ create_timeline_zk(h) \/ create_timeline_commit(h)
    \/ create_node_query(h) \/ create_node_commit(h)
    \/ publish_query(h) \/ publish_send(h)
    \/ update_timeline_query(h) \/ update_timeline_zk(h) \/ update_timeline_commit(h)
    \/ updateqot_node_query(h)
    \/ delete_node_query(h) \/ get_newtlqot_query(h) \/ get_newtlqot_zk(h)
    \/ zk_delete_timeline(h) \/ delete_node_commit(h)
    \/ delete_timeline_query(h) \/ delete_timeline_commit(h)
    \/ update_timeline_metadata(h)

Next ==
    \/ \E h \in Threads : ThreadStep(h)
    \/ ZkSuspend \/ ZkReconnect \/ ZkSessionExpire
    \/ NatsDisconnect \/ NatsReconnect

Spec == Init /\ [][Next]_vars

-----------------------------------------------------------------------------
(* Properties.                                                             *)

TypeOK ==
    /\ tlRow \in [Timelines -> TimelineRow \cup {NoValue}]
    /\ \A t \in Timelines, n \in NodeNames :
         /\ nodeRows[t][n] \in Seq(Qot)
         /\ Len(nodeRows[t][n]) <= Cardinality(Threads)
    /\ zkEntry \in [Timelines -> TimelineQot \cup {NoValue}]
    /\ zkState \in {"CONNECTED", "SUSPENDED"}
    /\ natsUp \in BOOLEAN
    /\ pubLocal \in [Timelines -> Snapshot \cup {NoValue}]
    /\ \A h \in Threads : req[h].pc = "idle" <=> req[h] = Idle

\* No request is part-way through (every thread waits for a request).
Quiescent == \A h \in Threads : req[h].pc = "idle"

\* Spec section 8, invariant 1, with the foreign key: a timeline's
\* num_nodes equals the number of node rows naming it, and no node row
\* names a missing timeline.  create_node and delete_node keep the counter
\* by writing back (value read) +/- 1.
NumNodesMatches ==
    \A t \in Timelines :
        IF tlRow[t] = NoValue THEN NodeCount(t) = 0 ELSE tlRow[t].num = NodeCount(t)

\* Between requests, no member of a timeline is under-served: the
\* timeline's accuracy (resolution) is at most every non-zero accuracy
\* (resolution) its node rows demand.  It depends on update_timeline
\* tightening after create_node/updateqot_node and on get_newtlqot
\* recomputing over the remaining rows in delete_node.
QoTCoversMembers ==
    Quiescent =>
      \A t \in Timelines : tlRow[t] # NoValue =>
        \A n \in NodeNames : \A r \in Range(nodeRows[t][n]) :
            /\ r.acc # 0 => tlRow[t].acc <= r.acc
            /\ r.res # 0 => tlRow[t].res <= r.res

\* Between requests the ZooKeeper mirror agrees with the store: a
\* timeline row exists exactly when this replica's entry under
\* /timelines/t/nodes does, and the entry carries the row's QoT (each
\* handler does its ZooKeeper call before the commit it mirrors).
MirrorMatchesDB ==
    Quiescent =>
      \A t \in Timelines :
        zkEntry[t] = IF tlRow[t] = NoValue THEN NoValue
                     ELSE [acc |-> tlRow[t].acc, res |-> tlRow[t].res]

\* Between requests, the last membership snapshot delivered on
\* coordination.timelines.t.local is the current node table of t (no
\* snapshot yet counts as the empty one).
PublishedMatchesDB ==
    Quiescent =>
      \A t \in Timelines :
        (IF pubLocal[t] = NoValue THEN [n \in NodeNames |-> NoValue] ELSE pubLocal[t])
          = NodeSnapshot(t)

=============================================================================
