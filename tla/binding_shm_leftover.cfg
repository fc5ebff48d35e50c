\* One application thread in app mode and the local timeline daemon.
CONSTANTS
    FrameLens <- MCFrameLens
    MaxBuf = 4
    ShmRead = 1
    MaxReqs = 5
SPECIFICATION Spec
\* The recv loop blocks for good on a read that fills the buffer exactly,
\* and the bound on requests ends every behaviour.
CHECK_DEADLOCK FALSE
INVARIANT ReplyMatchesRequest
