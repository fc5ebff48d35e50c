\* One TimelineBinding in either mode: in transform mode its application
\* thread and NATS thread; in app mode its application thread and the
\* local timeline daemon.
CONSTANTS
    Size <- MCSize
    Segments <- MCSegments
    CoreTimes <- MCCoreTimes
    NoValue = NoValue
    Modes <- MCModes
    FrameLens <- MCFrameLens
    MaxBuf = 16
    ShmRead = 1
    MaxReqs = 5
SPECIFICATION BindingSpec
INVARIANT TypeOK
INVARIANT BindOkMeansBound
PROPERTY BoundedHistorySpec
