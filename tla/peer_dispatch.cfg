CONSTANTS
    Nodes <- MCNodes
    EdgeList <- MCEdgesForward
    Master = "a"
    Reports <- MCReportsOnePerEdge
    NoValue = NoValue
SPECIFICATION LiveSpec
\* After stop() returns the process exits.
CHECK_DEADLOCK FALSE
INVARIANT TypeOK
INVARIANT FreshCycleAtCompute
INVARIANT ComputeTerminates
PROPERTY ReportEventuallyHandled
PROPERTY CycleEventuallyComputed
