CONSTANTS
    NodeList <- MCNodeList4
    Master = "a"
    MaxEdges = 4
SPECIFICATION Spec
\* Start-up ends: the process exits with the exception, or the engine
\* serves (PeerSyncDispatcher) or spins in its first calculation.
CHECK_DEADLOCK FALSE
INVARIANT LoopRowsClosed
INVARIANT WellFormedTopologyStarts
INVARIANT CalculationReturnsIffReachable
