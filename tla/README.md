# TLA+ models of the QoT coordination and synchronization services

This directory holds TLA+ models of the Python sources in `src/`. TLC checks them.
Paths below are relative to `src/src/`.

## The system and its parts

| Part | Source | State | Concurrency |
|---|---|---|---|
| Coordinator business logic | `micro-services/coordination-service/coordination_service/api/coordinator/business.py` | Timeline and Node rows (SQLAlchemy), ZooKeeper entries, NATS publishes | Flask request threads (`app.run` is threaded by default) sharing one database |
| SQL models | `.../database/models.py` | `Timeline(name, num_nodes, accuracy, resolution, meta_data)`, `Node(name, accuracy, resolution, timeline_name)`, `Server`, `TimelineServer` | committed by each request's session |
| ZooKeeper adapter | `.../zookeeper/zk_logic.py` | ephemeral `/timelines/<t>/nodes/<group>` with the group's QoT, `/timelines/<t>/servers/*`, `/servers/*`, children watches, `remote_servers` cache, election | kazoo session states CONNECTED / SUSPENDED / LOST; watch callbacks on kazoo's thread |
| NATS publisher | `.../zookeeper/nats_pub.py` | last message on each topic | asyncio loop thread; `publish_data` drops while disconnected |
| REST endpoints | `.../api/coordinator/endpoints/*.py` | none | one Flask thread per request |
| Bootstrap | `.../app.py` | drops and creates the tables, connects ZooKeeper and NATS, runs for master | main thread |
| Peer-sync compute server | `micro-services/sync-service/sync/huygens/PeerComputeServer.py` | received measurements, flags dict, preliminary/final times | NATS callback thread, processing thread, main thread; one `Condition` |
| Client library | `examples/python/sherlock_qot_transform.py` | `RingBuffer` of clock parameters (transform mode); UNIX stream socket to the local timeline daemon and the mapped clock segment (app mode) | NATS subscriber thread appends; application thread reads and calls the daemon |
| Examples, protobuf, packaging | `examples/python/*`, `lib/datastream_pb2.py`, `setup.py` | none of interest | none |

How the parts interact:
- A node agent binds to a timeline through the REST API.
- The coordinator inserts the node and tightens the timeline's QoT. It mirrors the QoT into this group's ephemeral ZooKeeper entry and publishes the membership snapshot on `coordination.timelines.<t>.local`.
- Other coordinator groups watch `/timelines/<t>/nodes` and republish on `.global`.
- The peer-sync server reads per-edge measurements from `qot.peer.params`. It publishes per-node offsets on `qot.peer.offsets`.

## Modules

### `QotCoordinator` (one coordinator replica)

It models the timeline and node operations of `business.py`, with the ZooKeeper and NATS calls they make.

**State variables:**
- `tlRow[t]`: the Timeline row, or `NoValue`.
- `nodeRows[t][n]`: the Node rows for (t, n), as a sequence. Duplicates can arise when two requests race past the existence check.
- `zkEntry[t]`: this group's ephemeral entry.
- `zkState`: the kazoo connection state.
- `natsUp`: whether NATS is connected.
- `pubLocal[t]`: the last snapshot delivered on the `.local` topic.
- `req[h]`: the program counter and locals of request thread `h`.

**How requests are split into steps.** Each request is a sequence of atomic steps, at the points where the code talks to another system:
- a query, which reads committed rows;
- a ZooKeeper call;
- a commit, which writes the columns the session changed, using the values read earlier;
- the membership query and the publish.

For example, `create_node` runs as `create_node_query`, `create_node_commit`, `publish_query`, `publish_send`, then `update_timeline_query`, `update_timeline_zk` and `update_timeline_commit`.

**Failures.** An exception ends the request with nothing committed:
- `NoResultFound` or `MultipleResultsFound` from `.one()`;
- `StaleDataError` on an UPDATE of a row that was deleted meanwhile;
- kazoo errors from `create` or `delete`.

**ZooKeeper writes are not rolled back.** `zk.set` errors are swallowed, as in `update_timeline`.

**Deleting a timeline that still has node rows** is nondeterministic in the model. Either the commit fails (`Node.timeline_name` is NOT NULL and the ORM nulls it), or the rows stay behind. Which of the two happens depends on the installed SQLAlchemy.

**The environment:**
- ZooKeeper suspension, reconnection, and session expiry. Expiry drops the ephemeral entries.
- NATS disconnect and reconnect.

These fault actions are switched on by `ZkFaults` and `NatsFaults`.

**Properties:**
- `NumNodesMatches`: spec invariant 1, together with the foreign key.
- `QoTCoversMembers`: between requests, no node is served a looser QoT than it demands.
- `MirrorMatchesDB`: the ZooKeeper entry equals the row's QoT.
- `PublishedMatchesDB`: the last snapshot on the bus equals the node table.

### `ServerRegistry` (NTP server registration of one replica)

It models `register_server`, `delete_server`, `register_timeline_server`, `delete_timeline_server` and `get_remote_timeline_server` of `business.py`, with the ZooKeeper calls they make and the servers `ChildrenWatch` of `zk_logic.create_timeline`.

**State variables:**
- `srvRow[s]`: the `Server` row's `server_type`, or `NoValue`.
- `tsRow[s]`: the `TimelineServer` row of name `s` (`tl_name`, `server_type`). The table is keyed by name because `TimelineServer.name` is `unique=True`.
- `zkServers`, `zkTlOwn[t]`: this replica's ephemeral entries `/servers/<s>` and `/timelines/<t>/servers/<s>`.
- `zkTlRemote[t]`: other groups' entries under `/timelines/<t>/servers`.
- `remoteServers[t]`: the `remote_servers` cache, or `NoValue` before `create_timeline` ran for `t`.
- `member[t]`: this replica's entry under `/timelines/<t>/nodes` exists.
- `watchLive[t]`: a servers `ChildrenWatch` of this replica runs on `t`.
- `watchPending[t]`: the children changed since the watch's last callback.
- `req[th]`: the registration request thread `th` is in, with its next step.

**Steps.** Flask serves each request on its own thread (`Threads`). A registration is three steps of its thread:
- the count query (`register_server`, `register_timeline_server`);
- the `zk.create` of a global server (`rs_zk`, `rts_zk`);
- the commit (`rs_commit`, `rts_commit`), which raises IntegrityError when another thread committed the name since the query.

A delete is one step, because it needs a committed row. A second delete of the same row ends in NoNodeError, as it would in sequence. A NodeExistsError, a NoNodeError or a lost connection ends the request with nothing committed. A ZooKeeper write that precedes a failing commit stays. The watch callback (`watch_tlservers`) runs later, on kazoo's thread, with the children current at that time. Other groups run the same `register_timeline_server` and `delete_timeline_server` against the shared tree (`RemoteRegister`, `RemoteLeave`). Session faults (`ZkSuspend`, `ZkReconnect`, `ZkSessionExpire`) are switched on by `ZkFaults`.

**Timeline membership:**
- `create_timeline` (zk_logic.py:133-164) creates this replica's node entry, resets `remote_servers[t]` to `{}` and adds one more servers watch.
- `delete_timeline` removes the entry.
- `LastLeave` is the recursive delete of `servers/` by whichever group leaves last (line 194). kazoo's watch then gets NoNodeError and stops for good, and `remote_servers[t]` keeps its value.

**Properties:**
- `WatchedCacheCatchesUp`: while a servers watch of this replica runs, a stable non-empty server set eventually is the cache's content, the set `get_remote_timeline_server` chooses from.

The two stronger statements fail:
- **"Every entry this replica owns has a global row."** It fails with two request threads. Suppose a global and a local registration of one name interleave, and the local one commits first. Then the global commit fails after its `zk.create`.
- **"The cache catches up, watch or not."** It fails once the last group has deleted `servers/`.

Both are listed under further disagreements below.

### `PeerSyncDispatcher` (the peer-sync compute server after `start()`)

**Threads modelled:**
- the NATS thread: `nats_receive`, `message_handler`, `nats_close`;
- the processing thread: `proc_loop`, `proc_acquire_wait`, `proc_wake`, `proc_break`, `proc_calculate`;
- `stop()` on the main thread: `stop_begin`, `stop_join_nats`, `stop_notify`, `stop_join_proc`.

The condition's lock is a variable. The callback runs inside the asyncio loop, so the loop is blocked while the callback waits for the lock.

**What is abstracted.** The measurements' numbers are dropped. The model keeps:
- the set of `(server, client)` keys in `_recv_flags_dict`;
- whether the master's preliminary time is set. The handler sets only that one.

**The propagation loops** of `_calculate_preliminary_offsets` and `_calculate_final_time` are the RECURSIVE operator `PrelimLoop`. It is a pass over the edge list in order, repeated until `set_counter` reaches N. It returns FALSE when a pass sets nothing, which in the code is a loop that never ends.

**Ghost variable.** `cycle` is the set of pairs received since the last calculation. It is used only by `FreshCycleAtCompute`.

**Properties:**
- `FreshCycleAtCompute`: spec 4.I. Every edge has been measured since the last calculation.
- `ComputeTerminates`: the calculation returns and releases the lock.
- `ReportEventuallyHandled`: a report's callback, which blocks the NATS loop, eventually gets the lock.
- `CycleEventuallyComputed`: spec 4.I. Once every edge has a measurement, a calculation follows, unless the server stops first. A notify sent while the thread is not in `wait()` is lost (line 184). This property checks that the next message, whose key is already present, notifies again.
- `StopReturns`: spec 5. Once `stop()` is called, it returns.

### `ClockParamCache` (the client library's clock-parameter cache, transform mode)

It models `TimelineBinding` of `examples/python/sherlock_qot_transform.py` as used by `main`.

**Threads modelled:**
- the NATS thread: `dispatch_create` and `dispatch_init` (`_dispatch_nats` creates the `RingBuffer` and appends the zero parameters), `nats_connect` (`run_until_complete` of `_nats_subscribe`; on a closed loop it raises RuntimeError and the thread ends as `"dead"`), `message_handler` (one published set appended), `nats_close`;
- the application thread: `timeline_bind`, `find_get` / `find_iter` / `find_scan` (`_find_clkparams` called from `timeline_core2rem`), `timeline_unbind` / `timeline_unbind_join`.

**What is abstracted.** A parameter set is its `last` field, the only field `_find_clkparams` compares. The zero set has `last = 0`; published sets have increasing `last` from `Segments`. The float arithmetic of the translation is left out.

**The buffer** `buf` is a record `[data, cur, full]`. `full` is the class switch to `__Full`. `RingAppend` and `RingGet` take the branch of the class the buffer has: `FullAppend` / `GrowAppend` and `FullGet` / the plain `data`. Each is atomic under the buffer's mutex. The scan is one step per element, because before the buffer is full `get()` returns `data` itself, and the scan then reads the list the NATS thread keeps appending to. `reversed()` fixes the start index when the iterator is created (`find_iter`).

**Ghost state.** `rd.answers` collects the correct answer (`Answer`, the newest set with `t > last`) for each history the buffer had while a scan of the live list was running. `appended` is the argument of the latest append.

**Properties:**
- `ReadIsLinearizable`: a finished scan returns an answer that was correct at some instant during the call.
- `BoundedHistorySpec`: the refinement below.

### `TimelineBindingApp` (app-mode binding and the local timeline daemon)

It models the app-mode branches of `TimelineBinding` (`examples/python/sherlock_qot_transform.py`), as `helloworld_app.main_func` uses them: `timeline_bind`, `timeline_set_accuracy` / `timeline_set_resolution`, and `timeline_unbind`. Each call sends one JSON request with `_send_timeline_msg` and reads the reply.

**Actions:**
- `bind_refused` / `bind_connect`: a new socket replaces the old one. Its connect either fails (CONN_ERR) or succeeds, and then TIMELINE_CREATE is sent.
- `bind_created`, `bind_bound`, `bind_shm_recv`: the CREATE, BIND and SHM_CLOCK steps of lines 441-480, with their retval checks.
  - `bind_bound` stores `binding.id` from the reply.
  - `bind_shm_recv` is `_recv_fds(20, 1)`. An empty descriptor list raises IndexError.
- `update_send`, `unbind_send`, `call_done`: the other calls.
  - Before any bind, a call raises AttributeError, because `_tl_type` / `_tl_msg` do not exist yet.
  - On a socket whose connect failed, `send` raises OSError.
- `recv_chunk` is one iteration of the recv loop. `reply_undecodable` is `json.loads` raising.

**The byte stream.** A byte is `<<k, i>>`, byte i of the reply to request k on this connection. `Parse` succeeds exactly when the bytes read are one whole frame. A recv returns `Min(MaxBuf, available)` bytes.

**The daemon** (`daemon_reply`) is not in the repository. It is modelled from spec section 6 and marked `spec_modelled`:
- it answers requests in order, one frame each, with OK or ERR;
- BIND OK creates the binding and UNBIND OK removes it;
- the SHM_CLOCK frame carries the segment's descriptor on its first byte when it is OK.

Like every JSON reply, the SHM_CLOCK frame is longer than the 20 bytes `_recv_fds` reads. The model keeps this relation at a smaller scale: frames of `FrameLens = {2, 3}` bytes, and `ShmRead = 1`.

**Properties:**
- `BindOkMeansBound`: a `timeline_bind` that returns OK leaves the daemon holding a binding, the client holding its id, and the segment mapped.
- `ReplyMatchesRequest`: every reply the client decodes is the reply to the request it has just sent. The ghost `acc` records the pair.

### `TimelineBinding` (the two modes composed)

`TimelineBinding` extends `ClockParamCache` and instances `TimelineBindingApp`. The constructor's mode (`Modes`) selects which half takes steps, because every method branches on `self._mode`. `cache_serial` checks both halves' properties in one run.

### `CoordinatorCluster` (several coordinator groups on one ZooKeeper tree)

Each group (`--coordinator_group`) is a replica with its own SQL store and its own `ZKCoordinator`. They share the tree under `/timelines/t`. The model follows one timeline `t` and keeps one request thread per group. Within-group concurrency is `QotCoordinator`'s subject; here only the ZooKeeper calls of different groups interleave.

**State.**
- The tree: whether `/timelines/t`, `nodes/` and `servers/` exist (`tlDir`, `nodesDir`, `serversDir`), and `entries`, the groups with an entry `nodes/<group>`.
- Per group: `row` (its Timeline row exists), `nodeCnt` (its Node rows), and `pc`, the step of its current request.
- Per group's nodes watch: `watch` (registered), `fired` (a change not yet read), and `wread` (the children its callback read and has not yet published).
- `pubGlobal`: the last snapshot on `coordination.timelines.t.global`.

**Steps.** Each ZooKeeper call is one step:
- `run_for_master` is bootstrap plus an election that returns at once.
- `create_timeline` runs `ct_ensure_tl`, `ct_ensure_nodes`, `ct_ensure_servers`, `ct_create` (the create, then registering the watch) and `ct_commit`.
- The last `delete_node`, or `delete_timeline`, runs `dt_delete_own`, `dt_get_children`, `dt_delete_nodes`, `dt_delete_servers` (recursive, quiet if the node is missing), `dt_delete_tl` and `dt_commit`.

A NoNodeError or NotEmptyError ends the request before the commit, and the store rolls back. `watch_read` and `watch_publish` are `watch_tlchildren` on the group's kazoo event thread. When `nodes/` is gone, the watch stops for good. The children's `zk.get` calls are folded into the read. `update_timeline`'s `zk.set` only changes an entry's data, so it is left out.

**Properties:**
- `QuietGlobalIsCurrent`: once every watch has read and published the latest change, `.global` carries the current membership, unless that membership is empty.
- `GroupEntryMatchesRow`: between requests, a group has its entry exactly when its store has the timeline.

### `BoundedHistory` (what the cache promises)

The abstract specification of spec 4.F and round-trip law 7: a history of at most `Capacity` values, oldest first. `Add(x)` drops the oldest value at capacity, and `Create` starts a new, empty history. `ClockParamCache` instantiates it with `Capacity <- Size`, `hist <- History` (the buffer as `get()` presents it) and `lastAdded <- appended`. `BoundedHistorySpec == BH!Spec` is checked as a property. Without `lastAdded`, an append that loses an element would look like a stuttering step, so the mapping also states law 7 (`get()[-1] == x` after `append(x)`).

### `PeerSyncGraph` (topology computations of the peer-sync server)

Pure operators over an edge list `el` and a node list. Nodes keep their names, the code's node index 0 is `nodeList[1]`, and columns keep the code's 0-based numbering:
- `NumLoops`: `num_loops` of `__init__` (line 98).
- `EdgeMap`: `_edge_map` (lines 117-132). The reverse pass overwrites the forward one, so a pair listed twice, in either direction, keeps the last assignment.
- `SyncGraph`, `CycleBasisSize` and `Cycles`: the `nx.Graph` of `_compute_loop_matrix`, how many loops `nx.cycle_basis` returns (the cycle rank E' − V' + components), and the simple cycles it can return. The networkx library itself is not in the repository; these operators state what its result is.
- `LoopRow`: one row of the loop matrix (lines 286-301). It has +1 for each step and −1 in the column of the reverse of the closing step.
- `ConstructResult` and `PrecomputeResult`: what `__init__` and `_precompute_matrices` end with. The possible results are:
  - `ValueError` from `np.zeros` when `num_loops` is negative;
  - `KeyError` when cycle_basis's root 0 is not in the graph;
  - `IndexError` when there are more basis loops than rows;
  - `NameError` when there are fewer. The zero row makes M Mᵀ singular, and the `except numpy.linalg.LinAlgError` clause names a module that was imported as `np`;
  - `ok` otherwise.
- `PrelimPass` and `PrelimLoop`: the propagation loops of `_calculate_preliminary_offsets` and `_calculate_final_time`. Each pass is a FoldLeft over the edge list carrying `<<times set, set_counter>>`. A pass that changes nothing stands for a loop that never ends. `PeerSyncDispatcher` uses them through `Graph == INSTANCE PeerSyncGraph`.

### `PeerSyncStartup` (the engine's start-up on a configured topology)

**State variables:**
- `edgeList`: any list of at most `MaxEdges` pairs of distinct nodes, chosen in `Init`.
- `phase`: where start-up is.

**Actions:** `construct` (the constructor), `start` (`start()` with `_precompute_matrices`), and `first_calculation`. The first calculation propagates from the master, in a cycle where the master reported as client.

**Properties:**
- `LoopRowsClosed`: spec 4.H. For every edge list and every simple cycle, the row is a closed walk when column c is read as the directed pair `_edge_map` gives it.
- `WellFormedTopologyStarts`: a connected list that names each edge once gets through `__init__` and `start()`.
- `CalculationReturnsIffReachable`: the first calculation returns exactly when every node is reachable from the master along the listed directions (checked against `Graphs!Descendants`).
- `StartedOnlyWhenConnected`: spec 4.H and 7. The engine runs only on a connected topology.

## Runs

| Run | Expect | What it shows |
|---|---|---|
| `coord_serial` | pass | With one request thread and reliable connections, all six properties except `AggregateIsMin` hold over every sequence of operations on one timeline with two node names. |
| `coord_faults` | pass | With ZooKeeper and NATS faults, the node counter and the tightest-QoT guarantee still hold. |
| `peer_dispatch` | pass | Forward path a→b→c with one report per edge: calculations see a full fresh cycle and terminate, every delivered report is handled, and every complete cycle is computed. A lost notify is repeated by the next message. |
| `peer_stop_hang` | violation | `stop()` hangs. The processing thread passes the `running` check (line 324). `stop()` then unsets the flag, joins the closed NATS thread and notifies before the thread reaches `wait()`. The thread then waits forever, and `stop()` blocks in its join (PeerComputeServer.py:324-327, 386-390). |
| `reg_faults` | pass | The setting: suspension and expiry, registrations as thread steps, other groups' servers, and `servers/` deleted by the last group to leave. In it, while a servers watch runs, the cache catches up with every stable non-empty set. |
| `cache_serial` | pass | `TimelineBinding` in both modes. In transform mode, over bind, translations, appends past the wrap, unbind and rebind: the buffer keeps `cur` in range, a scan of a copy is exact, and the buffer refines `BoundedHistory`. In app mode, over every sequence of binds, updates and unbinds with OK and ERR replies: a bind that returns OK is bound at the daemon and mapped. |
| `cache_live_alias` | violation | A scan of the live list misses every set present during the call: three appends fill the buffer and overwrite slot 0 under the scan, which then raises UnboundLocalError (sherlock_qot_transform.py:164). |
| `cluster_race` | pass | Two groups create, join, leave and delete one timeline concurrently. Whatever order the watch callbacks of the two groups run in, the last `.global` snapshot is the current non-empty membership. |
| `cluster_leave_race` | violation | Group 1's last leave deletes its entry, `nodes/` and `servers/`. Group 2's `ensure_path` then re-creates `nodes/`, so group 1's `zk.delete("/timelines/t")` raises NotEmptyError. The store rolls back and keeps the member, whose entry is gone; every retry then fails with NoNodeError (zk_logic.py:195, business.py:116). |
| `graph_topologies` | pass | Over every list of up to four edges on four nodes: every loop row is a closed walk; every connected list naming each edge once starts; and the first calculation returns exactly when the master reaches every node along the listed directions. |
| `graph_degenerate` | violation | `edge_list [[a,b],[a,b]]` on nodes a, b, c: `num_loops` = 0 and cycle_basis returns no loop, so M Mᵀ (0×0) is invertible and `start()` succeeds. Node c is on no edge, and the first calculation spins with the lock held (PeerComputeServer.py:98, 283, 217). |
| `binding_shm_leftover` | violation | `_recv_fds(20, 1)` reads only the start of the SHM_CLOCK reply, and the rest stays in the socket. The next call (an UPDATE) reads the leftover together with its own reply and raises JSONDecodeError. The call after it then accepts that UPDATE's reply as its own (sherlock_qot_transform.py:473, 246-260). |

Further disagreements that the modules reach, listed as hazards in `PROJECT.json` rather than kept as runs:
- Two request threads' joins lose a `num_nodes` increment: `create_node` writes back the count its session read (business.py:68; `delete_node` the same at line 111). `NumNodesMatches` catches it with two request threads.
- On ZooKeeper session expiry the ephemeral timeline entry is deleted. `zookeeper_listener` only sets a flag, and `update_timeline` swallows NoNodeError (zk_logic.py:141, 203). Nothing re-registers the entry, while spec 4.A and 7 ask for re-registration from the store. `MirrorMatchesDB` catches it with `ZkFaults`.
- With one thread, `updateqot_node` loosening a node's demand leaves the timeline at the old, tighter QoT: `update_timeline` only tightens (business.py:182), while spec invariant 2 asks for the exact minimum.
- A snapshot published while NATS is disconnected is dropped (nats_pub.py:85). `PublishedMatchesDB` catches it with `NatsFaults`.
- Reports from both ends of one edge are counted as two flags and start a calculation with another edge unmeasured (PeerComputeServer.py:182-184). `FreshCycleAtCompute` catches it with both directions reported.
- `TimelineServer.name` is unique over the whole table (models.py:90), while `register_timeline_server` checks (name, timeline) and the spec asks for uniqueness within a timeline. A global server registered on a second timeline keeps its new ZooKeeper entry after the commit fails. This needs two timelines.
- An edge listed against the propagation direction makes the peer-sync calculation spin with the lock held (PeerComputeServer.py:217-223). `ComputeTerminates` catches it with a backward edge list.
- A report for a pair that is not an edge raises KeyError at line 168 with the lock held. The next report's callback waits forever, blocking the NATS loop. `ReportEventuallyHandled` catches it with a non-edge pair among the reports.
- Deleting a local server raises NoNodeError from `zk.delete` before the commit, so it can never be deleted (business.py:249; the same at line 299).
- After all servers of a timeline leave, the registry's cache keeps them and `get_remote_timeline_server` returns a server that is gone (zk_logic.py:176).
- The first translation after a transform-mode `timeline_bind` can run before the NATS thread has assigned `_param_ring_buf`, and then raises AttributeError (sherlock_qot_transform.py:427, 344, 356). `ClockParamCache` reaches it. The run that showed it was retired to keep the number of runs small.
- `recv` has no timeout (line 249), while spec section 5 says binding operations time out. A reply whose length is a multiple of 4096 also blocks the recv loop for good, because the loop stops only on a short read (line 248). `TimelineBindingApp` keeps this guard. The model's daemon always answers, so neither case is checked as a property.
- Two Flask threads register one server name, one as global and one as local. Both counts find no row, and the global thread's `zk.create` makes `/servers/<s>`. The local thread commits first, so the global commit raises IntegrityError. That leaves an ephemeral entry behind a local row (business.py:226-240; the same at 275-289). `ServerRegistry` reaches it with `Threads = {r1, r2}`.
- The last group's `delete_timeline` deletes `servers/` recursively (zk_logic.py:194). Every other replica's servers watch then stops, so servers registered later never reach its `remote_servers`, until that replica calls `create_timeline` again. `ServerRegistry` reaches it in 11 steps.
- A rebind after `timeline_unbind` runs `run_until_complete` on the closed loop; the NATS thread dies after the zero append and the cache never receives parameters again (sherlock_qot_transform.py:494, 351).
- `_find_clkparams` compares with a strict `>` and raises UnboundLocalError when no set qualifies (line 361); the spec's invariant 3 uses `>=` and a typed error.
- `delete_node`'s recomputed minimum overwrites the tighter QoT of a concurrent join (business.py:120). `QoTCoversMembers` catches it with two request threads.
- Two requests publish their membership snapshots in the reverse order of their queries, so the last snapshot on `.local` is stale (business.py:48). `PublishedMatchesDB` catches it with two request threads.
- A `create_timeline` whose `zk.create` fails after a concurrent delete of `nodes/` leaves `/timelines/t` and `servers/` behind with no group on the timeline (zk_logic.py:136-140). TLC finds this with the invariant "no member anywhere implies no `/timelines/t`".
- `watch_tlchildren` never publishes an empty membership, so `.global` keeps the last group after everyone has left (zk_logic.py:159).
- After session expiry a global server's `/servers/<s>` entry is gone for good, as the timeline entries are.

Each property of a passing run has a mutant in `PROJECT.json`: a faulty variant of one mapped definition, defined just above it, that TLC shows breaks the property.

### Bounds and why they are enough

**Coordinator runs:**
- One timeline. Timelines never interact in the code.
- Two node names and `MaxNum = 3`.
- Demands `{0, 500, 2e9}` × `{50, 1000}`. These are tighter and looser than the defaults, plus the "no demand" value 0.
- One thread for the passing runs; two for the race runs.

Every race needs only two requests and two rows, so these bounds are enough to reach them. The fault run uses `{0, 500}` × `{50}`, which keeps it within minutes.

**Peer-sync runs:**
- Three nodes and two edges.
- Messages are unbounded. The state is finite without a counter, because the handler keeps only sets of keys. Any number of complete cycles can occur before a stop.

**Graph runs:**
- `graph_topologies`: four nodes and lists of up to four edges, 22 621 lists. Four nodes leave room for a triangle beside an isolated node (`IndexError`), for a tree or a cycle over all nodes, and for duplicates in both directions.
- `graph_degenerate`: three nodes and up to three edges.
- Every kind of start-up result and both kinds of first calculation occur.

**Registry run:**
- One timeline and two server names. That is enough for an own and a remote server, or a global and a local one, to coexist. With one name, a merging callback could not be told from a replacing one.
- One request thread. With two threads and two names the space has 4 million states, and the liveness check does not finish in five minutes. The registration race was checked separately, with two threads and one name (20 298 states).
- The two-timeline space without faults has 365 000 states. The cross-timeline case matters only for the unique-name divergence.

**Cache runs:**
- `Size = 3` for `MAX_RING_BUFFER_SIZE = 10`. The zero set and five published sets are six appends, which fills the buffer, switches its class and wraps `cur` past zero.
- Core times `{1, 3, 5}`: one below every published set, one equal to a `last` (the strict comparison), and one above most.
- Bind, unbind and rebind are unbounded; the published `last` values bound the appends.

**Binding runs:**
- Frames of 2 or 3 bytes, and `MaxReqs = 5` requests per connection. That is enough for CREATE, BIND, SHM_CLOCK and two more calls, so a leftover can be read, and then misattributed.
- `MaxBuf = 4` in `binding_shm_leftover`: a chunk fills the buffer only when the leftover and a frame together reach 4 bytes.
- `MaxBuf = 16` in `cache_serial`: more than one connection carries, so no read fills the buffer. The exact-fill hang is left out of that run.
- Binds are unbounded; each one starts a new connection.

**Cluster runs:**
- Two groups, as model values under symmetry. Every group runs the same code.
- `MaxNodes = 2`, so that both branches of `delete_node` occur.
- Every race between a leave and a create needs only two groups. Three groups do not finish within five minutes.

### Fairness

`PeerSyncDispatcher.FairSpec` gives weak fairness to every thread step, and to the handling of a message already delivered. Python threads are scheduled preemptively, and the lock has no other long-term holder. `nats_close` has strong fairness: `_nats_run` re-checks the running flag after every sleep (lines 196-200), between deliveries, so a stopped loop closes even while messages keep arriving. Neither the arrival of messages nor the call to `stop()` is assumed. `LiveSpec`, used by `peer_dispatch`, also assumes that the peer clients keep publishing (weak fairness on `nats_receive`). Each client measures its edge every period. The coordinator, cluster and cache runs check only safety properties. `BoundedHistorySpec` is a safety property as well: `BoundedHistory` has no fairness.

`ServerRegistry.FairSpec` assumes that kazoo keeps reconnecting a suspended session (weak fairness), and that it runs a pending watch callback when it stays connected often enough (strong fairness on `watch_tlservers`, which suspension disables). A request thread runs its registration to the end (weak fairness on its steps). Server registrations, timeline joins and leaves, remote groups and faults are not assumed to happen.

`CHECK_DEADLOCK FALSE` is set in the peer-sync runs and in `binding_shm_leftover`. In the latter, the request bound ends every behaviour, and a read that fills the buffer exactly blocks for good. In the dispatcher runs the program exits after `stop()` returns. In the graph runs, start-up ends by exiting on an exception, by serving (the dispatcher's subject) or by spinning. The hang that deadlock checking would otherwise report is the subject of `peer_stop_hang`.

## Not modelled, and why

- **Several groups' QoT content and `.local` publishes.** `CoordinatorCluster` abstracts each group's store to its row and node count, because per-group SQL concurrency is `QotCoordinator`'s subject. Composing the two modules multiplies their state spaces past TLC's reach.
- **Leader-only writes.** Spec 4.D says that non-leaders must not mutate ZooKeeper. The election returns at once, so every group writes. A property saying otherwise fails at the first write of a second group.
- **Server stratum and JSON payloads.** No property tells them apart.
- **The REST adapter.** `QotCoordinator` takes the business functions as called directly. The node POST's `request.remotr_addr` (timelines.py:122) makes the real endpoint fail every time; it is planned as `CoordinatorRest`.
- **Numeric content.**
  - The numbers of the loop-matrix projection. `PeerSyncGraph` keeps the matrix's shape, its rows and its rank, but not the float offsets it projects. The time transforms of the client library (the cache keeps only each set's `last`). TLC has no reals.
  - The peer-sync model keeps only which values are set, not the values themselves.
- **JSON encoding, logging and Swagger serialisers.** Output formatting that no property is about.
- **`timeline_set_schedparams` and the waituntil/sleep helpers.** They store or read fields that no other operation uses.
- **A daemon that stops answering.** This would be the recv hang above.
- **The example applications other than helloworld's bind/call/unbind sequence, generated protobuf code and `setup.py`.**

## Plan for the next sittings

1. **`CoordinatorRest`:** the endpoint adapter over `QotCoordinator`, including the `remotr_addr` failure.
2. **`CoordinatorSpec`:** an abstract, atomic-operation coordinator. `QotCoordinator` with one thread would be shown to refine it by `INSTANCE ... WITH`.
3. **Liveness in `QotCoordinator`:** a timeline whose nodes all leave is eventually removed. After expiry it is not (zk_logic.py:188).
4. **Composing `PeerSyncStartup` with `PeerSyncDispatcher`:** the dispatcher started on each small topology.
5. **`TimelineBindingApp`:** `gettime` over the mapped segment, and a daemon that may stop answering.
