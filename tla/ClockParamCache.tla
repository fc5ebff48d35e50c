--------------------------- MODULE ClockParamCache ---------------------------
(***************************************************************************)
(* The clock-parameter cache of the client library in transform mode      *)
(* (examples/python/sherlock_qot_transform.py): TimelineBinding's NATS     *)
(* thread (_dispatch_nats, _nats_subscribe and its message_handler) fills *)
(* a RingBuffer of clock parameters; the application thread (main ->       *)
(* timeline_core2rem -> _find_clkparams) scans it for the parameters of a *)
(* core time, and binds and unbinds.                                       *)
(*                                                                         *)
(* A parameter set is abstracted to its "last" field, the core time it    *)
(* starts at, which is all _find_clkparams compares; the initial set has  *)
(* last = 0.  RingBuffer's lock makes append and get atomic; the scan of  *)
(* the list get() returned is one step per element, because before the    *)
(* buffer is full get() returns the live list, not a copy.                *)
(***************************************************************************)
EXTENDS Integers, Sequences, SequencesExt

CONSTANTS
    Size,       \* MAX_RING_BUFFER_SIZE
    Segments,   \* "last" values of the parameter sets the timeline service publishes
    CoreTimes,  \* core times the application translates
    NoValue     \* model value: no buffer / no result

ASSUME Size \in Nat \ {0} /\ Segments \subseteq Nat \ {0} /\ CoreTimes \subseteq Nat

\* init_params of _dispatch_nats.
InitLast == 0

Values == {InitLast} \cup Segments

\* The two exceptions a translation can end in, as results.
UnboundLocalError == -1
AttributeError == -2

VARIABLES
    buf,        \* self._param_ring_buf: [data, cur, full], or NoValue before it exists
    natsPc,     \* NATS thread: "none", "create", "init", "connect", "loop", "done", "dead"
    running,    \* self._nats_thread_running
    loopClosed, \* self._loop.close() has been called
    lastSent,   \* "last" of the newest parameters published on qot.timeline.<t>.params
    appPc,      \* application thread: "idle", "bound", "iter", "scan", "joining", "unbound"
    appended,   \* the argument of the latest RingBuffer.append (NoValue before any)
    rd          \* _find_clkparams' locals and result, with the ghost set of
                \* answers that were correct at some instant of the call

vars == <<buf, natsPc, running, loopClosed, lastSent, appPc, appended, rd>>

-----------------------------------------------------------------------------
(* RingBuffer.  Before the buffer is full, append adds to data and get     *)
(* returns data itself; the append that fills it sets cur = 0 and switches *)
(* the class to __Full, whose append overwrites data[cur] and whose get    *)
(* returns the rotation data[cur:] + data[:cur].  Indices here are 1-based.*)

NewRing == [data |-> <<>>, cur |-> 0, full |-> FALSE]

\* Faulty variant: the write position is not wrapped at max.
FullAppend_nomod(b, x) == [b EXCEPT !.data[b.cur + 1] = x, !.cur = b.cur + 1]

\* __Full.append: overwrite the oldest element, advance cur modulo max.
FullAppend(b, x) == [b EXCEPT !.data[b.cur + 1] = x, !.cur = (b.cur + 1) % Size]

\* Faulty variant: the switch to __Full happens one append late.
GrowAppend_late(b, x) ==
    LET d == Append(b.data, x) IN [data |-> d, cur |-> 0, full |-> Len(d) = Size + 1]

\* RingBuffer.append: add at the end; at len == max set cur = 0 and
\* switch the class to __Full.
GrowAppend(b, x) ==
    LET d == Append(b.data, x) IN [data |-> d, cur |-> 0, full |-> Len(d) = Size]

\* The append of whichever class the buffer has.
RingAppend(b, x) == IF b.full THEN FullAppend(b, x) ELSE GrowAppend(b, x)

\* __Full.get: the copy data[cur:] + data[:cur].
FullGet(b) == SubSeq(b.data, b.cur + 1, Size) \o SubSeq(b.data, 1, b.cur)

\* RingBuffer.get returns data itself; __Full.get a rotated copy.
RingGet(b) == IF b.full THEN FullGet(b) ELSE b.data

\* The parameters _find_clkparams should pick for core time t from the
\* history h, oldest first: the newest with t > last, or none (params is
\* then unbound).
Answer(h, t) ==
    LET i == SelectLastInSeq(h, LAMBDA l : t > l)
    IN IF i = 0 THEN UnboundLocalError ELSE h[i]

\* The list the scan reads: the live data list or a copy.
ScanList == IF rd.list = "live" THEN buf.data ELSE rd.list

\* While a scan reads the live list, each change of the buffer adds the
\* answer for the new contents to the ghost set.
Observe(b) ==
    rd' = IF appPc \in {"iter", "scan"} /\ rd.list = "live"
          THEN [rd EXCEPT !.answers = @ \cup {Answer(RingGet(b), rd.t)}]
          ELSE rd

-----------------------------------------------------------------------------
(* The NATS thread.                                                        *)

\* _dispatch_nats: self._param_ring_buf = RingBuffer(MAX_RING_BUFFER_SIZE).
\* A scan still reading the replaced buffer's live list keeps that list.
dispatch_create ==
    /\ natsPc = "create"
    /\ buf' = NewRing
    /\ natsPc' = "init"
    /\ rd' = IF appPc \in {"iter", "scan"} /\ rd.list = "live"
             THEN [rd EXCEPT !.list = buf.data] ELSE rd
    /\ UNCHANGED <<running, loopClosed, lastSent, appPc, appended>>

\* _dispatch_nats: append(init_params).
dispatch_init ==
    /\ natsPc = "init"
    /\ buf' = RingAppend(buf, InitLast)
    /\ natsPc' = "connect"
    /\ appended' = InitLast
    /\ Observe(buf')
    /\ UNCHANGED <<running, loopClosed, lastSent, appPc>>

\* run_until_complete(_nats_subscribe()): connect and subscribe.  On a
\* closed loop it raises RuntimeError and the thread ends.
nats_connect ==
    /\ natsPc = "connect"
    /\ natsPc' = IF loopClosed THEN "dead" ELSE "loop"
    /\ UNCHANGED <<buf, running, loopClosed, lastSent, appPc, rd, appended>>

\* message_handler: parse the parameters and append them.  The service
\* publishes parameter sets with increasing "last".
message_handler(x) ==
    /\ natsPc = "loop"
    /\ x > lastSent
    /\ buf' = RingAppend(buf, x)
    /\ lastSent' = x
    /\ appended' = x
    /\ Observe(buf')
    /\ UNCHANGED <<natsPc, running, loopClosed, appPc>>

\* The loop wakes from asyncio.sleep, sees the flag cleared, closes NATS.
nats_close ==
    /\ natsPc = "loop" /\ ~running
    /\ natsPc' = "done"
    /\ UNCHANGED <<buf, running, loopClosed, lastSent, appPc, rd, appended>>

-----------------------------------------------------------------------------
(* The application thread.                                                 *)

\* timeline_bind in transform mode: set the flag, start the NATS thread,
\* return OK without waiting for it.
timeline_bind ==
    /\ appPc \in {"idle", "unbound"}
    /\ running' = TRUE
    /\ natsPc' = "create"
    /\ appPc' = "bound"
    /\ UNCHANGED <<buf, loopClosed, lastSent, rd, appended>>

\* _find_clkparams: param_list = self._param_ring_buf.get().  Before the
\* NATS thread created the buffer the attribute does not exist.
find_get(t) ==
    /\ appPc = "bound"
    /\ IF buf = NoValue
       THEN /\ rd' = [t |-> t, list |-> <<>>, idx |-> 0, answers |-> {},
                      result |-> AttributeError]
            /\ UNCHANGED appPc
       ELSE /\ rd' = [t |-> t, list |-> IF buf.full THEN RingGet(buf) ELSE "live",
                      idx |-> 0, answers |-> {Answer(RingGet(buf), t)},
                      result |-> NoValue]
            /\ appPc' = "iter"
    /\ UNCHANGED <<buf, natsPc, running, loopClosed, lastSent, appended>>

\* reversed(param_list) starts at the list's length at this moment.
find_iter ==
    /\ appPc = "iter"
    /\ rd' = [rd EXCEPT !.idx = Len(ScanList)]
    /\ appPc' = "scan"
    /\ UNCHANGED <<buf, natsPc, running, loopClosed, lastSent, appended>>

\* One iteration: compare with "last"; break with the first match; after
\* the first element the loop ends and "return params" raises if unbound.
find_scan ==
    /\ appPc = "scan"
    /\ IF rd.idx = 0
       THEN /\ rd' = [rd EXCEPT !.result = UnboundLocalError]
            /\ appPc' = "bound"
       ELSE IF rd.t > ScanList[rd.idx]
       THEN /\ rd' = [rd EXCEPT !.result = ScanList[rd.idx]]
            /\ appPc' = "bound"
       ELSE /\ rd' = [rd EXCEPT !.idx = @ - 1]
            /\ UNCHANGED appPc
    /\ UNCHANGED <<buf, natsPc, running, loopClosed, lastSent, appended>>

\* timeline_unbind: clear the flag, then join the NATS thread and close
\* the asyncio loop.
timeline_unbind ==
    /\ appPc = "bound"
    /\ running' = FALSE
    /\ appPc' = "joining"
    /\ UNCHANGED <<buf, natsPc, loopClosed, lastSent, rd, appended>>

timeline_unbind_join ==
    /\ appPc = "joining" /\ natsPc \in {"done", "dead"}
    /\ loopClosed' = TRUE
    /\ appPc' = "unbound"
    /\ UNCHANGED <<buf, natsPc, running, lastSent, rd, appended>>

-----------------------------------------------------------------------------
Init ==
    /\ buf = NoValue
    /\ natsPc = "none"
    /\ running = FALSE
    /\ loopClosed = FALSE
    /\ lastSent = InitLast
    /\ appPc = "idle"
    /\ appended = NoValue
    /\ rd = [t |-> InitLast, list |-> <<>>, idx |-> 0, answers |-> {}, result |-> NoValue]

Next ==
    \/ dispatch_create \/ dispatch_init \/ nats_connect \/ nats_close
    \/ \E x \in Segments : message_handler(x)
    \/ timeline_bind \/ timeline_unbind \/ timeline_unbind_join
    \/ \E t \in CoreTimes : find_get(t)
    \/ find_iter \/ find_scan

Spec == Init /\ [][Next]_vars

-----------------------------------------------------------------------------
(* Properties.                                                             *)

TypeOK ==
    /\ buf = NoValue \/
       buf \in [data : Seq(Values), cur : 0..(Size - 1), full : BOOLEAN]
    /\ natsPc \in {"none", "create", "init", "connect", "loop", "done", "dead"}
    /\ running \in BOOLEAN /\ loopClosed \in BOOLEAN
    /\ lastSent \in Values
    /\ appPc \in {"idle", "bound", "iter", "scan", "joining", "unbound"}
    /\ appended \in Values \cup {NoValue}
    /\ rd.t \in {InitLast} \cup CoreTimes
    /\ rd.list = "live" \/ rd.list \in Seq(Values)
    /\ rd.idx \in 0..Size
    /\ rd.result \in Values \cup {UnboundLocalError, AttributeError, NoValue}

\* _find_clkparams is linearizable against the NATS thread's appends: the
\* parameters it returns (or its failure to find any) are what the
\* history held at some instant between its get() and its return.  Before
\* the buffer is full get() hands out the live list, which the appends
\* that fill and then wrap the buffer go on rewriting during the scan.
ReadIsLinearizable ==
    appPc = "bound" /\ rd.result \in Values \cup {UnboundLocalError}
        => rd.result \in rd.answers

\* The history RingBuffer stands for: what get() would return.
History == IF buf = NoValue THEN NoValue ELSE RingGet(buf)

BH == INSTANCE BoundedHistory WITH Capacity <- Size, hist <- History, lastAdded <- appended

\* RingBuffer, with its class switch at size_max, implements a bounded
\* history of the last MAX_RING_BUFFER_SIZE appended values (law 7).
BoundedHistorySpec == BH!Spec

=============================================================================
