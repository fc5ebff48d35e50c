------------------------- MODULE MCPeerSyncStartup --------------------------
(* Model-checking instances of PeerSyncStartup.                            *)
EXTENDS PeerSyncStartup

\* Four nodes: room for a triangle beside an isolated node.
MCNodeList4 == <<"a", "b", "c", "d">>

\* Three nodes, the size of the dispatcher's path a - b - c.
MCNodeList3 == <<"a", "b", "c">>
=============================================================================
