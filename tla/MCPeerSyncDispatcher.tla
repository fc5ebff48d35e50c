----------------------- MODULE MCPeerSyncDispatcher -----------------------
(* Model-checking instances of PeerSyncDispatcher: a three-node path       *)
(* a - b - c with master a.                                                *)
EXTENDS PeerSyncDispatcher

MCNodes == {"a", "b", "c"}

\* edge_list [[a, b], [b, c]]: every node is reached from a along the
\* listed direction.
MCEdgesForward == << <<"a", "b">>, <<"b", "c">> >>


\* One measurement per edge, the master measuring as client.
MCReportsOnePerEdge == { <<"b", "a">>, <<"c", "b">> }
=============================================================================
