-------------------------- MODULE CoordinatorCluster --------------------------
(***************************************************************************)
(* Several coordinator groups (app.py --coordinator_group) sharing one     *)
(* ZooKeeper tree, for one timeline t.  Each group is a replica with its   *)
(* own SQL store and the ZKCoordinator of zookeeper/zk_logic.py; it serves *)
(* one request at a time here, so its SQL steps are atomic and only the    *)
(* ZooKeeper calls of different groups interleave.                         *)
(*                                                                         *)
(* The tree is /timelines/t with its children nodes/ and servers/ and the *)
(* ephemeral entries /timelines/t/nodes/<group>.  A group's SQL state is  *)
(* whether its Timeline row exists and how many Node rows it has (names   *)
(* and QoT are QotCoordinator's business).  Each ZooKeeper call is one    *)
(* atomic step; kazoo raises NoNodeError on a missing path and            *)
(* NotEmptyError on a non-recursive delete of a node with children, and   *)
(* the exception ends the request with the SQL session rolled back.       *)
(* The ChildrenWatch on nodes/ that create_timeline registers reads the   *)
(* children on kazoo's event thread and publishes them on .global.        *)
(***************************************************************************)
EXTENDS Naturals, FiniteSets

CONSTANTS
    Groups,     \* coordinator groups (replicas), one per process
    MaxNodes,   \* bound: Node rows of one group on the timeline
    NoValue     \* model value: nothing published yet

ASSUME MaxNodes \in Nat \ {0}

VARIABLES
    tlDir,      \* /timelines/t exists
    nodesDir,   \* /timelines/t/nodes exists
    serversDir, \* /timelines/t/servers exists
    entries,    \* the groups with an entry /timelines/t/nodes/<group>
    row,        \* row[g]: group g's store has the Timeline row t
    nodeCnt,    \* nodeCnt[g]: Node rows on t in group g's store
    pc,         \* pc[g]: the step of group g's current request
    watch,      \* watch[g]: g's ChildrenWatch on nodes/ is registered
    fired,      \* fired[g]: nodes/ changed since g's watch last read it
    wread,      \* wread[g]: children g's callback read, not yet published
    pubGlobal   \* last snapshot published on coordination.timelines.t.global

tree  == <<tlDir, nodesDir, serversDir, entries>>
local == <<row, nodeCnt, pc>>
wvars == <<watch, fired, wread, pubGlobal>>
vars  == <<tree, local, wvars>>

-----------------------------------------------------------------------------
(* Helpers.                                                                *)

\* kazoo's ChildrenWatch: every watch registered on nodes/ fires when its
\* children change or it is deleted.
Fire == [g \in Groups |-> fired[g] \/ watch[g]]

\* The end of a request: an exception, or the return after the commit.
Done(g) == pc' = [pc EXCEPT ![g] = "idle"]

Goto(g, s) == pc' = [pc EXCEPT ![g] = s]

-----------------------------------------------------------------------------
(* Start-up (app.py main).                                                 *)

\* zookeeper_bootstrap ensures /timelines, /coordinators and /servers;
\* run_for_master's Election.run calls elected_master, which returns at
\* once, so the election is released and every group goes on serving.
run_for_master(g) ==
    /\ pc[g] = "boot"
    /\ Done(g)
    /\ UNCHANGED <<tree, row, nodeCnt, wvars>>

-----------------------------------------------------------------------------
(* business.create_timeline: if no row, zk create_timeline, then commit.  *)

create_timeline(g) ==
    /\ pc[g] = "idle" /\ ~row[g]
    /\ Goto(g, "ct_tl")
    /\ UNCHANGED <<tree, row, nodeCnt, wvars>>

\* ensure_path("/timelines/t").
ct_ensure_tl(g) ==
    /\ pc[g] = "ct_tl"
    /\ tlDir' = TRUE
    /\ Goto(g, "ct_nodes")
    /\ UNCHANGED <<nodesDir, serversDir, entries, row, nodeCnt, wvars>>

\* ensure_path("/timelines/t/nodes") creates the missing parents too.
ct_ensure_nodes(g) ==
    /\ pc[g] = "ct_nodes"
    /\ tlDir' = TRUE /\ nodesDir' = TRUE
    /\ Goto(g, "ct_servers")
    /\ UNCHANGED <<serversDir, entries, row, nodeCnt, wvars>>

ct_ensure_servers(g) ==
    /\ pc[g] = "ct_servers"
    /\ tlDir' = TRUE /\ serversDir' = TRUE
    /\ Goto(g, "ct_create")
    /\ UNCHANGED <<nodesDir, entries, row, nodeCnt, wvars>>

\* zk.create of the ephemeral entry (NoNodeError without nodes/,
\* NodeExistsError if present); then the two ChildrenWatch registrations,
\* whose first call reads the children at once.
ct_create(g) ==
    /\ pc[g] = "ct_create"
    /\ IF nodesDir /\ g \notin entries
       THEN /\ entries' = entries \cup {g}
            /\ watch' = [watch EXCEPT ![g] = TRUE]
            /\ fired' = [Fire EXCEPT ![g] = TRUE]
            /\ Goto(g, "ct_commit")
       ELSE /\ Done(g)
            /\ UNCHANGED <<entries, watch, fired>>
    /\ UNCHANGED <<tlDir, nodesDir, serversDir, row, nodeCnt, wread, pubGlobal>>

\* db.session.add(timeline); commit.
ct_commit(g) ==
    /\ pc[g] = "ct_commit"
    /\ row' = [row EXCEPT ![g] = TRUE]
    /\ nodeCnt' = [nodeCnt EXCEPT ![g] = 0]
    /\ Done(g)
    /\ UNCHANGED <<tree, wvars>>

-----------------------------------------------------------------------------
(* business.create_node (a new node name): num_nodes += 1, commit, then   *)
(* update_timeline, whose zk.set only changes the entry's data (and is    *)
(* swallowed without the entry).  Timeline.query...one() needs the row.   *)

create_node(g) ==
    /\ pc[g] = "idle" /\ row[g] /\ nodeCnt[g] < MaxNodes
    /\ nodeCnt' = [nodeCnt EXCEPT ![g] = @ + 1]
    /\ UNCHANGED <<tree, row, pc, wvars>>

\* Faulty variant: without the "num_nodes <= 0: return" guard.
delete_node_noguard(g) ==
    /\ pc[g] = "idle" /\ row[g]
    /\ IF nodeCnt[g] = 1
       THEN /\ Goto(g, "dt_own")
            /\ UNCHANGED nodeCnt
       ELSE /\ nodeCnt' = [nodeCnt EXCEPT ![g] = @ - 1]
            /\ UNCHANGED pc
    /\ UNCHANGED <<tree, row, wvars>>

(* business.delete_node: the last node's delete runs zk delete_timeline  *)
(* before the commit that deletes the node and the timeline row; any      *)
(* other node's delete only recomputes the QoT (zk.set) and commits.      *)
delete_node(g) ==
    /\ pc[g] = "idle" /\ row[g] /\ nodeCnt[g] > 0
    /\ IF nodeCnt[g] = 1
       THEN /\ Goto(g, "dt_own")
            /\ UNCHANGED nodeCnt
       ELSE /\ nodeCnt' = [nodeCnt EXCEPT ![g] = @ - 1]
            /\ UNCHANGED pc
    /\ UNCHANGED <<tree, row, wvars>>

\* business.delete_timeline: only a timeline without nodes.
delete_timeline(g) ==
    /\ pc[g] = "idle" /\ row[g] /\ nodeCnt[g] = 0
    /\ Goto(g, "dt_own")
    /\ UNCHANGED <<tree, row, nodeCnt, wvars>>

-----------------------------------------------------------------------------
(* ZKCoordinator.delete_timeline: delete the own entry; if nodes/ then    *)
(* has no children, delete nodes/, servers/ (recursive) and /timelines/t. *)
(* Then the business function deletes the row and commits.               *)

\* zk.delete("/timelines/t/nodes/<group>"): NoNodeError if it is gone.
dt_delete_own(g) ==
    /\ pc[g] = "dt_own"
    /\ IF g \in entries
       THEN /\ entries' = entries \ {g}
            /\ fired' = Fire
            /\ Goto(g, "dt_children")
       ELSE /\ Done(g)
            /\ UNCHANGED <<entries, fired>>
    /\ UNCHANGED <<tlDir, nodesDir, serversDir, row, nodeCnt, watch, wread, pubGlobal>>

\* children = zk.get_children(".../nodes"); if len(children) == 0: ...
dt_get_children(g) ==
    /\ pc[g] = "dt_children"
    /\ IF ~nodesDir THEN Done(g)
       ELSE Goto(g, IF entries = {} THEN "dt_nodes" ELSE "dt_commit")
    /\ UNCHANGED <<tree, row, nodeCnt, wvars>>

\* zk.delete(".../nodes"): NoNodeError, or NotEmptyError if a group has
\* created its entry since get_children.
dt_delete_nodes(g) ==
    /\ pc[g] = "dt_nodes"
    /\ IF nodesDir /\ entries = {}
       THEN /\ nodesDir' = FALSE
            /\ fired' = Fire
            /\ Goto(g, "dt_servers")
       ELSE /\ Done(g)
            /\ UNCHANGED <<nodesDir, fired>>
    /\ UNCHANGED <<tlDir, serversDir, entries, row, nodeCnt, watch, wread, pubGlobal>>

\* zk.delete(".../servers", recursive=True): kazoo returns quietly when
\* the node is already gone.
dt_delete_servers(g) ==
    /\ pc[g] = "dt_servers"
    /\ serversDir' = FALSE
    /\ Goto(g, "dt_tl")
    /\ UNCHANGED <<tlDir, nodesDir, entries, row, nodeCnt, wvars>>

\* zk.delete("/timelines/t"): NoNodeError, or NotEmptyError if another
\* group's ensure_path has re-created nodes/ or servers/.
dt_delete_tl(g) ==
    /\ pc[g] = "dt_tl"
    /\ IF tlDir /\ ~nodesDir /\ ~serversDir
       THEN /\ tlDir' = FALSE
            /\ Goto(g, "dt_commit")
       ELSE /\ Done(g)
            /\ UNCHANGED tlDir
    /\ UNCHANGED <<nodesDir, serversDir, entries, row, nodeCnt, wvars>>

\* db.session.delete(node), delete(timeline); commit.
dt_commit(g) ==
    /\ pc[g] = "dt_commit"
    /\ row' = [row EXCEPT ![g] = FALSE]
    /\ nodeCnt' = [nodeCnt EXCEPT ![g] = 0]
    /\ Done(g)
    /\ UNCHANGED <<tree, wvars>>

-----------------------------------------------------------------------------
(* watch_tlchildren on kazoo's event thread of group g: get_children     *)
(* (re-arming the watch), zk.get of each child, then publish_data on     *)
(* .global if the result is non-empty.  A NoNodeError on nodes/ stops    *)
(* the ChildrenWatch for good.                                            *)

\* Faulty variant: a one-shot get_children watch in place of the
\* ChildrenWatch recipe, never re-armed after its first read.
watch_read_oneshot(g) ==
    /\ watch[g] /\ fired[g] /\ wread[g] = NoValue
    /\ fired' = [fired EXCEPT ![g] = FALSE]
    /\ watch' = [watch EXCEPT ![g] = FALSE]
    /\ wread' = IF nodesDir THEN [wread EXCEPT ![g] = entries] ELSE wread
    /\ UNCHANGED <<tree, local, pubGlobal>>

watch_read(g) ==
    /\ watch[g] /\ fired[g] /\ wread[g] = NoValue
    /\ fired' = [fired EXCEPT ![g] = FALSE]
    /\ IF nodesDir
       THEN /\ wread' = [wread EXCEPT ![g] = entries]
            /\ UNCHANGED watch
       ELSE /\ watch' = [watch EXCEPT ![g] = FALSE]
            /\ UNCHANGED wread
    /\ UNCHANGED <<tree, local, pubGlobal>>

watch_publish(g) ==
    /\ wread[g] # NoValue
    /\ pubGlobal' = IF wread[g] # {} THEN wread[g] ELSE pubGlobal
    /\ wread' = [wread EXCEPT ![g] = NoValue]
    /\ UNCHANGED <<tree, local, watch, fired>>

-----------------------------------------------------------------------------
Init ==
    /\ tlDir = FALSE /\ nodesDir = FALSE /\ serversDir = FALSE
    /\ entries = {}
    /\ row = [g \in Groups |-> FALSE]
    /\ nodeCnt = [g \in Groups |-> 0]
    /\ pc = [g \in Groups |-> "boot"]
    /\ watch = [g \in Groups |-> FALSE]
    /\ fired = [g \in Groups |-> FALSE]
    /\ wread = [g \in Groups |-> NoValue]
    /\ pubGlobal = NoValue

Next ==
    \E g \in Groups :
        \/ run_for_master(g)
        \/ create_timeline(g) \/ ct_ensure_tl(g) \/ ct_ensure_nodes(g)
        \/ ct_ensure_servers(g) \/ ct_create(g) \/ ct_commit(g)
        \/ create_node(g) \/ delete_node(g) \/ delete_timeline(g)
        \/ dt_delete_own(g) \/ dt_get_children(g) \/ dt_delete_nodes(g)
        \/ dt_delete_servers(g) \/ dt_delete_tl(g) \/ dt_commit(g)
        \/ watch_read(g) \/ watch_publish(g)

Spec == Init /\ [][Next]_vars

-----------------------------------------------------------------------------
(* Properties.                                                             *)

Steps == {"boot", "idle", "ct_tl", "ct_nodes", "ct_servers", "ct_create",
          "ct_commit", "dt_own", "dt_children", "dt_nodes", "dt_servers",
          "dt_tl", "dt_commit"}

TypeOK ==
    /\ {tlDir, nodesDir, serversDir} \subseteq BOOLEAN
    /\ entries \subseteq Groups
    /\ row \in [Groups -> BOOLEAN]
    /\ nodeCnt \in [Groups -> 0..MaxNodes]
    /\ pc \in [Groups -> Steps]
    /\ watch \in [Groups -> BOOLEAN] /\ fired \in [Groups -> BOOLEAN]
    /\ wread \in [Groups -> SUBSET Groups \cup {NoValue}]
    /\ pubGlobal \in SUBSET Groups \cup {NoValue}

\* Once every nodes watch has read and published the latest change, the
\* last .global snapshot is the current membership, as long as that is
\* not empty (watch_tlchildren publishes only non-empty sets).
QuietGlobalIsCurrent ==
    /\ \A g \in Groups : ~fired[g] /\ wread[g] = NoValue
    /\ entries # {}
    => pubGlobal = entries

\* The ZooKeeper mirror: between requests, a group has its entry exactly
\* when its store has the timeline (spec: ZooKeeper mirrors the commits,
\* and a failed ZooKeeper write never rolls the store back).
GroupEntryMatchesRow ==
    \A g \in Groups : pc[g] = "idle" => (row[g] <=> g \in entries)

=============================================================================
