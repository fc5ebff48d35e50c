CONSTANTS
    Nodes <- MCNodes
    EdgeList <- MCEdgesForward
    Master = "a"
    Reports <- MCReportsOnePerEdge
    NoValue = NoValue
SPECIFICATION FairSpec
\* After stop() returns the process exits.
CHECK_DEADLOCK FALSE
PROPERTY StopReturns
