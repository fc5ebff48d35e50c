\* The application thread and the NATS thread of one TimelineBinding.
CONSTANTS
    Size <- MCSize
    Segments <- MCSegments
    CoreTimes <- MCCoreTimes
    NoValue = NoValue
SPECIFICATION Spec

INVARIANT ReadIsLinearizable
