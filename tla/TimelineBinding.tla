---------------------------- MODULE TimelineBinding ----------------------------
(***************************************************************************)
(* A TimelineBinding object (examples/python/sherlock_qot_transform.py)   *)
(* is built in one of two modes, fixed by its constructor: in "transform" *)
(* mode its clock parameters arrive over NATS into the RingBuffer          *)
(* (ClockParamCache); in "app" mode they are a segment the local timeline  *)
(* daemon hands out over a UNIX socket (TimelineBindingApp).  The methods  *)
(* test self._mode and run one branch or the other, so an object only      *)
(* ever takes the steps of its mode.                                       *)
(***************************************************************************)
EXTENDS ClockParamCache

CONSTANTS
    Modes,      \* the modes a binding is constructed with
    FrameLens, MaxBuf, ShmRead, MaxReqs

VARIABLES
    mode,       \* self._mode
    sock, clPc, op, req, sent, msg, result, bindingId, mapped, tlMsg,
    toDaemon, stream, replies, dBinding, acc

App == INSTANCE TimelineBindingApp

appVars == <<sock, clPc, op, req, sent, msg, result, bindingId, mapped, tlMsg,
             toDaemon, stream, replies, dBinding, acc>>

bindingVars == <<mode, vars, appVars>>

\* __init__(mode): both halves start as the constructor leaves them.
BindingInit ==
    /\ mode \in Modes
    /\ Init /\ App!Init

BindingNext ==
    \/ mode = "transform" /\ Next /\ UNCHANGED <<mode, appVars>>
    \/ mode = "app" /\ App!Next /\ UNCHANGED <<mode, vars>>

BindingSpec == BindingInit /\ [][BindingNext]_bindingVars

-----------------------------------------------------------------------------

\* An app-mode timeline_bind that returns OK leaves the daemon holding a
\* binding for the connection, the client holding its id and the clock
\* segment mapped (TimelineBindingApp!BindOkMeansBound).
BindOkMeansBound == App!BindOkMeansBound

=============================================================================
