--------------------------- MODULE ServerRegistry ---------------------------
(***************************************************************************)
(* NTP server registration of one coordinator replica: the server         *)
(* operations of api/coordinator/business.py, the Server and              *)
(* TimelineServer tables of database/models.py, the ZooKeeper entries     *)
(* /servers/<s> and /timelines/<t>/servers/<s> of zookeeper/zk_logic.py,  *)
(* and the remote_servers cache its servers ChildrenWatch keeps.          *)
(*                                                                         *)
(* Flask serves each request on its own thread.  A registration is three *)
(* steps of its thread: the count query, the zk.create of a global        *)
(* server, the commit; two registrations of one name interleave between   *)
(* them.  A delete is one step: it needs the committed row, and a second  *)
(* delete of the same row ends in NoNodeError as it would in sequence.    *)
(* Other coordinator groups register and                                  *)
(* leave their own entries under /timelines/<t>/servers; the watch runs  *)
(* on kazoo's thread, some time after the children changed, with the     *)
(* children set current at that time.                                      *)
(***************************************************************************)
EXTENDS Integers, FiniteSets

CONSTANTS
    Threads,       \* Flask request threads of this replica
    ServerNames,   \* server names used by the clients (own and remote)
    Timelines,     \* timeline names
    NoValue,       \* model value: no row / no cache entry
    ZkFaults       \* TRUE: the ZooKeeper session may be suspended / expire

ASSUME ZkFaults \in BOOLEAN

\* Server.server_type / TimelineServer.server_type.
Types == {"global", "local"}

\* A TimelineServer row: its tl_name and server_type (stratum abstracted).
TimelineServerRow(t, type) == [tl |-> t, type |-> type]

VARIABLES
    srvRow,        \* Server table: srvRow[s] is the server_type of row s, or NoValue
    tsRow,         \* TimelineServer table: [tl, type] of row s (name is unique), or NoValue
    zkServers,     \* own ephemeral entries /servers/<s>
    zkTlOwn,       \* own ephemeral entries /timelines/<t>/servers/<s>
    zkTlRemote,    \* other groups' entries /timelines/<t>/servers/<s>
    zkState,       \* "CONNECTED" or "SUSPENDED"
    remoteServers, \* remote_servers[t], or NoValue before the first create_timeline(t)
    member,        \* this replica's entry /timelines/t/nodes/<group> exists
    watchLive,     \* a servers ChildrenWatch of this replica on t is running
    watchPending,  \* the children of /timelines/t/servers changed since the last callback
    req            \* req[th]: the registration thread th is in, or NoValue

vars == <<srvRow, tsRow, zkServers, zkTlOwn, zkTlRemote, zkState, remoteServers,
          watchPending, req, member, watchLive>>

-----------------------------------------------------------------------------
\* Children of /timelines/t/servers, whoever created them.
Children(t) == zkTlOwn[t] \cup zkTlRemote[t]

Connected == zkState = "CONNECTED"

\* The watch has a pending callback for each timeline it watches whose
\* children differ after the step.
Changed(before) ==
    watchPending' = [t \in Timelines |->
        watchPending[t] \/ (watchLive[t] /\ before[t] # Children(t)')]

Children2(own, remote) == [t \in Timelines |-> own[t] \cup remote[t]]

-----------------------------------------------------------------------------
(* A registration in flight: the operation, the name, the type, the      *)
(* timeline (NoValue for register_server) and the next step.             *)
Request(o, s, type, t) ==
    [op |-> o, s |-> s, type |-> type, tl |-> t,
     step |-> IF type = "global" THEN "zk" ELSE "commit"]

(* register_server(data): Server.query...count() finds no row; a global   *)
(* server goes on to zk_coordinator.register_server, a local one to the   *)
(* commit.  A row already there ends the request with nothing done.       *)
register_server(th, s, type) ==
    /\ req[th] = NoValue /\ srvRow[s] = NoValue
    /\ req' = [req EXCEPT ![th] = Request("srv", s, type, NoValue)]
    /\ UNCHANGED <<srvRow, tsRow, zkServers, zkTlOwn, zkTlRemote, zkState,
                   remoteServers, watchPending, member, watchLive>>

(* zk.create of the ephemeral /servers/<s>: NodeExistsError when another  *)
(* thread created it, ConnectionLoss while suspended; either ends the     *)
(* request before the commit.                                              *)
rs_zk(th) ==
    LET r == req[th] IN
    /\ r # NoValue /\ r.op = "srv" /\ r.step = "zk"
    /\ IF Connected /\ r.s \notin zkServers
       THEN /\ zkServers' = zkServers \cup {r.s}
            /\ req' = [req EXCEPT ![th].step = "commit"]
       ELSE /\ req' = [req EXCEPT ![th] = NoValue]
            /\ UNCHANGED zkServers
    /\ UNCHANGED <<srvRow, tsRow, zkTlOwn, zkTlRemote, zkState, remoteServers, watchPending, member, watchLive>>

(* db.session.add(server); commit: IntegrityError on the primary key when *)
(* another thread committed the name since the query; the ZooKeeper entry *)
(* created before stays.                                                   *)
rs_commit(th) ==
    LET r == req[th] IN
    /\ r # NoValue /\ r.op = "srv" /\ r.step = "commit"
    /\ srvRow' = IF srvRow[r.s] = NoValue THEN [srvRow EXCEPT ![r.s] = r.type] ELSE srvRow
    /\ req' = [req EXCEPT ![th] = NoValue]
    /\ UNCHANGED <<tsRow, zkServers, zkTlOwn, zkTlRemote, zkState, remoteServers, watchPending, member, watchLive>>

(* delete_server(name): .one(), then zk.delete("/servers/" + name) for    *)
(* every type, then the delete is committed.  NoNodeError (a local server *)
(* has no entry) or a lost connection ends the request.                   *)
delete_server(s) ==
    /\ srvRow[s] # NoValue
    /\ IF Connected /\ s \in zkServers
       THEN /\ zkServers' = zkServers \ {s}
            /\ srvRow' = [srvRow EXCEPT ![s] = NoValue]
       ELSE UNCHANGED <<zkServers, srvRow>>
    /\ UNCHANGED <<tsRow, zkTlOwn, zkTlRemote, zkState, remoteServers, watchPending, req, member, watchLive>>

(* register_timeline_server(data, t): the count is by (name, timeline);  *)
(* a global server goes on to the zk.create, a local one to the commit.   *)
register_timeline_server(th, s, t, type) ==
    /\ req[th] = NoValue
    /\ ~(tsRow[s] # NoValue /\ tsRow[s].tl = t)
    /\ req' = [req EXCEPT ![th] = Request("tls", s, type, t)]
    /\ UNCHANGED <<srvRow, tsRow, zkServers, zkTlOwn, zkTlRemote, zkState,
                   remoteServers, watchPending, member, watchLive>>

(* zk.create of /timelines/t/servers/<s> (after ensure_path): fails when  *)
(* any group created it, or while suspended.                              *)
rts_zk(th) ==
    LET r == req[th] IN
    /\ r # NoValue /\ r.op = "tls" /\ r.step = "zk"
    /\ IF Connected /\ r.s \notin Children(r.tl)
       THEN /\ zkTlOwn' = [zkTlOwn EXCEPT ![r.tl] = @ \cup {r.s}]
            /\ req' = [req EXCEPT ![th].step = "commit"]
       ELSE /\ req' = [req EXCEPT ![th] = NoValue]
            /\ UNCHANGED zkTlOwn
    /\ UNCHANGED <<srvRow, tsRow, zkServers, zkTlRemote, zkState, remoteServers, member, watchLive>>
    /\ Changed(Children2(zkTlOwn, zkTlRemote))

(* The commit fails on the unique name when s is already a TimelineServer *)
(* row, of this or another timeline.                                       *)
rts_commit(th) ==
    LET r == req[th] IN
    /\ r # NoValue /\ r.op = "tls" /\ r.step = "commit"
    /\ tsRow' = IF tsRow[r.s] = NoValue
                THEN [tsRow EXCEPT ![r.s] = TimelineServerRow(r.tl, r.type)] ELSE tsRow
    /\ req' = [req EXCEPT ![th] = NoValue]
    /\ UNCHANGED <<srvRow, zkServers, zkTlOwn, zkTlRemote, zkState, remoteServers, watchPending, member, watchLive>>

(* delete_timeline_server(s, t): .one(), zk.delete of the path for every *)
(* type (whoever created the entry), then the commit.                     *)
delete_timeline_server(s, t) ==
    /\ tsRow[s] # NoValue /\ tsRow[s].tl = t
    /\ IF Connected /\ s \in Children(t)
       THEN /\ zkTlOwn' = [zkTlOwn EXCEPT ![t] = @ \ {s}]
            /\ zkTlRemote' = [zkTlRemote EXCEPT ![t] = @ \ {s}]
            /\ tsRow' = [tsRow EXCEPT ![s] = NoValue]
       ELSE UNCHANGED <<zkTlOwn, zkTlRemote, tsRow>>
    /\ UNCHANGED <<srvRow, zkServers, zkState, remoteServers, req, member, watchLive>>
    /\ Changed(Children2(zkTlOwn, zkTlRemote))

-----------------------------------------------------------------------------
(* zk_logic.create_timeline(t): ensure_path of the three nodes, zk.create *)
(* of this replica's entry (NodeExistsError ends it first), then          *)
(* remote_servers[t] = {} and a new servers ChildrenWatch, whose first    *)
(* call reads the children at once.  Each call adds one more watch; the   *)
(* watches of one replica all store the same children.                    *)
create_timeline(t) ==
    /\ Connected /\ ~member[t]
    /\ member' = [member EXCEPT ![t] = TRUE]
    /\ remoteServers' = [remoteServers EXCEPT ![t] = {}]
    /\ watchLive' = [watchLive EXCEPT ![t] = TRUE]
    /\ watchPending' = [watchPending EXCEPT ![t] = TRUE]
    /\ UNCHANGED <<srvRow, tsRow, zkServers, zkTlOwn, zkTlRemote, zkState, req>>

(* delete_timeline(t), first step: zk.delete of this replica's entry.     *)
delete_timeline(t) ==
    /\ Connected /\ member[t]
    /\ member' = [member EXCEPT ![t] = FALSE]
    /\ UNCHANGED <<srvRow, tsRow, zkServers, zkTlOwn, zkTlRemote, zkState,
                   remoteServers, watchLive, watchPending, req>>

(* The last group on t leaves: its delete_timeline finds nodes/ empty and *)
(* deletes servers/ recursively (zk_logic.py:194), this replica's entries *)
(* and the other groups' alike.  kazoo's ChildrenWatch then gets          *)
(* NoNodeError and stops for good; remote_servers[t] keeps its value.     *)
(* Any group, this replica included, may be the last.                     *)
LastLeave(t) ==
    /\ Connected /\ ~member[t]
    /\ zkTlOwn' = [zkTlOwn EXCEPT ![t] = {}]
    /\ zkTlRemote' = [zkTlRemote EXCEPT ![t] = {}]
    /\ watchLive' = [watchLive EXCEPT ![t] = FALSE]
    /\ watchPending' = [watchPending EXCEPT ![t] = FALSE]
    /\ UNCHANGED <<srvRow, tsRow, zkServers, zkState, remoteServers, req, member>>

\* Faulty variant: the callback adds the children to the cache.
watch_tlservers_merge(t) ==
    /\ watchLive[t] /\ watchPending[t] /\ Connected
    /\ remoteServers' = [remoteServers EXCEPT ![t] = @ \cup Children(t)]
    /\ watchPending' = [watchPending EXCEPT ![t] = FALSE]
    /\ UNCHANGED <<srvRow, tsRow, zkServers, zkTlOwn, zkTlRemote, zkState, req, member, watchLive>>

\* watch_tlservers: reads every child and stores the result only when it
\* is non-empty.
watch_tlservers(t) ==
    /\ watchLive[t] /\ watchPending[t] /\ Connected
    /\ remoteServers' = IF Children(t) # {}
                        THEN [remoteServers EXCEPT ![t] = Children(t)] ELSE remoteServers
    /\ watchPending' = [watchPending EXCEPT ![t] = FALSE]
    /\ UNCHANGED <<srvRow, tsRow, zkServers, zkTlOwn, zkTlRemote, zkState, req, member, watchLive>>

\* get_remote_timeline_server: the first server of remote_servers[t] in
\* dict order (any of them); KeyError while t has no cache entry.
get_remote_timeline_server(t) ==
    IF remoteServers[t] = NoValue THEN {} ELSE remoteServers[t]

-----------------------------------------------------------------------------
(* Other coordinator groups register and remove timeline servers: their  *)
(* replicas run the same zk_logic.register_timeline_server (zk.create,    *)
(* NodeExistsError on an existing path) and delete_timeline_server.       *)

\* Faulty variant: the create does not fail on an existing path.
RemoteRegister_unchecked(t, s) ==
    /\ zkTlRemote' = [zkTlRemote EXCEPT ![t] = @ \cup {s}]
    /\ UNCHANGED <<srvRow, tsRow, zkServers, zkTlOwn, zkState, remoteServers, req, member, watchLive>>
    /\ Changed(Children2(zkTlOwn, zkTlRemote))

RemoteRegister(t, s) ==
    /\ s \notin Children(t)
    /\ zkTlRemote' = [zkTlRemote EXCEPT ![t] = @ \cup {s}]
    /\ UNCHANGED <<srvRow, tsRow, zkServers, zkTlOwn, zkState, remoteServers, req, member, watchLive>>
    /\ Changed(Children2(zkTlOwn, zkTlRemote))

RemoteLeave(t, s) ==
    /\ s \in zkTlRemote[t]
    /\ zkTlRemote' = [zkTlRemote EXCEPT ![t] = @ \ {s}]
    /\ UNCHANGED <<srvRow, tsRow, zkServers, zkTlOwn, zkState, remoteServers, req, member, watchLive>>
    /\ Changed(Children2(zkTlOwn, zkTlRemote))

(* The kazoo session: suspension, reconnection, expiry.  Expiry deletes  *)
(* this replica's ephemeral entries; the listener does not re-create them.*)

ZkSuspend ==
    /\ ZkFaults /\ Connected
    /\ zkState' = "SUSPENDED"
    /\ UNCHANGED <<srvRow, tsRow, zkServers, zkTlOwn, zkTlRemote, remoteServers, watchPending, req, member, watchLive>>

ZkReconnect ==
    /\ zkState = "SUSPENDED"
    /\ zkState' = "CONNECTED"
    /\ UNCHANGED <<srvRow, tsRow, zkServers, zkTlOwn, zkTlRemote, remoteServers, watchPending, req, member, watchLive>>

ZkSessionExpire ==
    /\ zkState = "SUSPENDED"
    /\ zkState' = "CONNECTED"
    /\ zkServers' = {}
    /\ zkTlOwn' = [t \in Timelines |-> {}]
    /\ UNCHANGED <<srvRow, tsRow, zkTlRemote, remoteServers, req, watchLive>>
    /\ member' = [t \in Timelines |-> FALSE]
    /\ Changed(Children2(zkTlOwn, zkTlRemote))

-----------------------------------------------------------------------------
Init ==
    /\ srvRow = [s \in ServerNames |-> NoValue]
    /\ tsRow = [s \in ServerNames |-> NoValue]
    /\ zkServers = {}
    /\ zkTlOwn = [t \in Timelines |-> {}]
    /\ zkTlRemote = [t \in Timelines |-> {}]
    /\ zkState = "CONNECTED"
    /\ remoteServers = [t \in Timelines |-> NoValue]
    /\ watchPending = [t \in Timelines |-> FALSE]
    /\ member = [t \in Timelines |-> FALSE]
    /\ watchLive = [t \in Timelines |-> FALSE]
    /\ req = [th \in Threads |-> NoValue]

Next ==
    \/ \E th \in Threads, s \in ServerNames, type \in Types : register_server(th, s, type)
    \/ \E th \in Threads : rs_zk(th) \/ rs_commit(th) \/ rts_zk(th) \/ rts_commit(th)
    \/ \E th \in Threads, s \in ServerNames, t \in Timelines, type \in Types :
          register_timeline_server(th, s, t, type)
    \/ \E s \in ServerNames : delete_server(s)
    \/ \E s \in ServerNames, t \in Timelines : delete_timeline_server(s, t)
    \/ \E t \in Timelines : \/ create_timeline(t) \/ delete_timeline(t) \/ LastLeave(t)
                          \/ watch_tlservers(t)
    \/ \E t \in Timelines, s \in ServerNames : RemoteRegister(t, s) \/ RemoteLeave(t, s)
    \/ ZkSuspend \/ ZkReconnect \/ ZkSessionExpire

Spec == Init /\ [][Next]_vars

\* kazoo keeps reconnecting a suspended session, and runs a pending watch
\* callback once it is connected often enough; a request thread runs its
\* request to the end.
FairSpec ==
    /\ Spec /\ WF_vars(ZkReconnect)
    /\ \A th \in Threads : /\ WF_vars(rs_zk(th)) /\ WF_vars(rs_commit(th))
                          /\ WF_vars(rts_zk(th)) /\ WF_vars(rts_commit(th))
    /\ \A t \in Timelines : SF_vars(watch_tlservers(t))

-----------------------------------------------------------------------------
(* Properties.                                                             *)

TypeOK ==
    /\ srvRow \in [ServerNames -> Types \cup {NoValue}]
    /\ tsRow \in [ServerNames -> [tl : Timelines, type : Types] \cup {NoValue}]
    /\ zkServers \subseteq ServerNames
    /\ zkTlOwn \in [Timelines -> SUBSET ServerNames]
    /\ zkTlRemote \in [Timelines -> SUBSET ServerNames]
    /\ \A t \in Timelines : zkTlOwn[t] \cap zkTlRemote[t] = {}
    /\ zkState \in {"CONNECTED", "SUSPENDED"}
    /\ remoteServers \in [Timelines -> SUBSET ServerNames \cup {NoValue}]
    /\ watchPending \in [Timelines -> BOOLEAN]
    /\ member \in [Timelines -> BOOLEAN] /\ watchLive \in [Timelines -> BOOLEAN]
    /\ \A th \in Threads : req[th] = NoValue \/ req[th].s \in ServerNames

\* While a servers watch of this replica runs on a timeline whose servers
\* are a non-empty set C, and C stays, get_remote_timeline_server
\* eventually chooses among exactly C: kazoo delivers the children after
\* each change, and watch_tlservers stores a non-empty set in
\* remote_servers, also over one that create_timeline reset to {}.
WatchedCacheCatchesUp ==
    \A t \in Timelines, C \in SUBSET ServerNames \ {{}} :
        (watchLive[t] /\ Children(t) = C)
            ~> (get_remote_timeline_server(t) = C \/ Children(t) # C \/ ~watchLive[t])

=============================================================================
