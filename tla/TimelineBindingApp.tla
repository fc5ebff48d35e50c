-------------------------- MODULE TimelineBindingApp --------------------------
(***************************************************************************)
(* TimelineBinding in app mode (examples/python/sherlock_qot_transform.py) *)
(* and the local timeline daemon it talks to over a UNIX stream socket.    *)
(* The application thread is the only client thread: timeline_bind,       *)
(* timeline_set_accuracy / timeline_set_resolution and timeline_unbind   *)
(* each send a JSON request and read the reply with _send_timeline_msg;    *)
(* TIMELINE_SHM_CLOCK's reply is read by _recv_fds instead.                *)
(*                                                                         *)
(* The daemon is not part of the repository: it follows the spec's         *)
(* protocol (section 6): one reply frame per request, in order, of the     *)
(* request's shape, with retval OK or ERR; SHM_CLOCK's frame carries the   *)
(* segment's file descriptor on its first byte when it is OK.             *)
(*                                                                         *)
(* A byte of the stream is <<k, i>>: byte i of the reply to request k of   *)
(* the current connection.  Every bind opens a new socket, so the state    *)
(* of a connection starts afresh with it.                                  *)
(***************************************************************************)
EXTENDS Integers, Sequences, SequencesExt

CONSTANTS
    FrameLens,  \* byte lengths a reply frame can have
    MaxBuf,     \* MAX_BUF_LEN of _send_timeline_msg
    ShmRead,    \* msglen of _recv_fds(20, 1)
    MaxReqs     \* bound: requests sent on one connection

ASSUME FrameLens \subseteq Nat \ {0} /\ MaxBuf \in Nat \ {0}
ASSUME ShmRead \in Nat \ {0} /\ MaxReqs \in Nat

\* QOT_RETURN_TYPE_OK and QOT_RETURN_TYPE_ERR.
RetVals == {"OK", "ERR"}

NoId == -1

VARIABLES
    sock,       \* self._sock: "none" before the first bind, "unconnected", "connected"
    clPc,       \* application thread: "idle", "recv" (the recv loop),
                \* "parsed" (the loop ended), "shm" (in _recv_fds)
    op,         \* the API call in progress or last returned
    req,        \* msgtype of the request last sent
    sent,       \* requests sent on this connection; request k is the k-th
    msg,        \* msg_recv: the bytes read by the recv loop
    result,     \* what the last call returned or raised
    bindingId,  \* self._binding_id
    mapped,     \* self._clk_params is a mapped segment
    tlMsg,      \* self._tl_msg exists
    toDaemon,   \* requests sent and not yet answered: <<k, msgtype>>
    stream,     \* reply bytes written by the daemon and not yet read
    replies,    \* k -> the reply to request k: [type, rv, len, fd]
    dBinding,   \* the daemon's binding of this connection: its id, or NoId
    acc         \* ghost: <<frame accepted, request it was read for>>

vars == <<sock, clPc, op, req, sent, msg, result, bindingId, mapped, tlMsg,
          toDaemon, stream, replies, dBinding, acc>>

daemonVars == <<toDaemon, stream, replies, dBinding>>

-----------------------------------------------------------------------------
(* _send_timeline_msg.                                                     *)

\* send: the request goes out with number sent + 1; the recv loop starts
\* with an empty msg_recv (SHM_CLOCK skips the loop, see bind_bound).
SendReq(type) ==
    /\ sent' = sent + 1
    /\ toDaemon' = Append(toDaemon, <<sent + 1, type>>)
    /\ req' = type
    /\ msg' = <<>>

\* json.loads(msg_recv): the request number k whose whole frame msg_recv
\* is, or 0 when it is not exactly one frame (JSONDecodeError).
Parse(m) ==
    IF /\ m # <<>>
       /\ Len(m) = replies[m[1][1]].len
       /\ \A i \in 1..Len(m) : m[i] = <<m[1][1], i>>
    THEN m[1][1] ELSE 0

\* One iteration of the while loop (lines 246-252): recv(MAX_BUF_LEN)
\* blocks until bytes are there and returns what is, up to MAX_BUF_LEN;
\* the loop goes on while a read fills the buffer.
recv_chunk ==
    LET n == Min({MaxBuf, Len(stream)}) IN
    /\ clPc = "recv" /\ stream # <<>>
    /\ msg' = msg \o SubSeq(stream, 1, n)
    /\ stream' = SubSeq(stream, n + 1, Len(stream))
    /\ clPc' = IF n = MaxBuf THEN "recv" ELSE "parsed"
    /\ UNCHANGED <<sock, op, req, sent, result, bindingId, mapped, tlMsg,
                   toDaemon, replies, dBinding, acc>>

\* json.loads raises: the exception leaves the API call.
reply_undecodable ==
    /\ clPc = "parsed" /\ Parse(msg) = 0
    /\ clPc' = "idle" /\ result' = "JSONDecodeError"
    /\ UNCHANGED <<sock, op, req, sent, msg, bindingId, mapped, tlMsg,
                   toDaemon, stream, replies, dBinding, acc>>

\* The reply decoded: self._tl_msg = the frame; its retval is returned.
Accepted == Parse(msg)
RetVal   == replies[Accepted].rv

-----------------------------------------------------------------------------
(* timeline_bind, app mode (lines 428-481).                              *)

\* The fields are set (_binding_id = -1), a new socket replaces the old
\* one and its connect fails: CONN_ERR is returned.
bind_refused ==
    /\ clPc = "idle"
    /\ sock' = "unconnected" /\ op' = "bind" /\ result' = "CONN_ERR"
    /\ bindingId' = NoId /\ sent' = 0 /\ toDaemon' = <<>> /\ stream' = <<>> /\ replies' = <<>>
    /\ dBinding' = NoId
    /\ UNCHANGED <<clPc, req, msg, mapped, tlMsg, acc>>

\* A new socket connects; the fields are set (_binding_id = -1) and
\* TIMELINE_CREATE is sent.
bind_connect ==
    /\ clPc = "idle"
    /\ sock' = "connected" /\ op' = "bind" /\ clPc' = "recv"
    /\ bindingId' = NoId
    /\ sent' = 1 /\ toDaemon' = << <<1, "CREATE">> >> /\ req' = "CREATE"
    /\ msg' = <<>> /\ stream' = <<>> /\ replies' = <<>> /\ dBinding' = NoId
    /\ tlMsg' = TRUE
    /\ UNCHANGED <<result, mapped, acc>>

\* CREATE answered: ERR is returned, OK sends TIMELINE_BIND.
bind_created ==
    /\ clPc = "parsed" /\ req = "CREATE" /\ Accepted # 0
    /\ acc' = <<Accepted, sent>>
    /\ IF RetVal = "OK"
       THEN /\ SendReq("BIND") /\ clPc' = "recv"
            /\ UNCHANGED result
       ELSE /\ clPc' = "idle" /\ result' = "ERR"
            /\ UNCHANGED <<sent, toDaemon, req, msg>>
    /\ UNCHANGED <<sock, op, bindingId, mapped, tlMsg, stream, replies, dBinding>>

\* Faulty variant: BIND's retval not checked.
bind_bound_unchecked ==
    /\ clPc = "parsed" /\ req = "BIND" /\ Accepted # 0
    /\ acc' = <<Accepted, sent>>
    /\ bindingId' = Accepted /\ SendReq("SHM_CLOCK") /\ clPc' = "shm"
    /\ UNCHANGED <<sock, op, result, mapped, tlMsg, stream, replies, dBinding>>

\* BIND answered: ERR is returned; OK stores binding.id and sends
\* TIMELINE_SHM_CLOCK, for which _send_timeline_msg returns OK at once.
bind_bound ==
    /\ clPc = "parsed" /\ req = "BIND" /\ Accepted # 0
    /\ acc' = <<Accepted, sent>>
    /\ IF RetVal = "OK"
       THEN /\ bindingId' = Accepted /\ SendReq("SHM_CLOCK") /\ clPc' = "shm"
            /\ UNCHANGED result
       ELSE /\ clPc' = "idle" /\ result' = "ERR"
            /\ UNCHANGED <<sent, toDaemon, req, msg, bindingId>>
    /\ UNCHANGED <<sock, op, mapped, tlMsg, stream, replies, dBinding>>

\* _recv_fds(msglen, 1) (lines 220-227): recvmsg reads up to msglen bytes
\* of what is there; the descriptor list holds the file descriptor when
\* the bytes read include the first byte of a frame that carries one.
RecvFds(s, msglen) ==
    LET n == Min({msglen, Len(s)}) IN
    [read |-> n,
     fds  |-> {i \in 1..n : s[i][2] = 1 /\ replies[s[i][1]].fd}]

\* Lines 465-480: _recv_fds(20, 1) on the SHM_CLOCK reply;
\* shm_fd_list[0] raises IndexError when the list is empty, else the
\* segment is mapped and OK returned.  The rest of the SHM_CLOCK frame
\* stays in the stream.
bind_shm_recv ==
    LET r == RecvFds(stream, ShmRead) IN
    /\ clPc = "shm" /\ stream # <<>>
    /\ stream' = SubSeq(stream, r.read + 1, Len(stream))
    /\ clPc' = "idle"
    /\ IF r.fds # {} THEN mapped' = TRUE /\ result' = "OK"
                     ELSE result' = "IndexError" /\ UNCHANGED mapped
    /\ UNCHANGED <<sock, op, req, sent, msg, bindingId, tlMsg, toDaemon,
                   replies, dBinding, acc>>

-----------------------------------------------------------------------------
(* timeline_set_accuracy / timeline_set_resolution (lines 536-568) and    *)
(* timeline_unbind (lines 495-505), app mode.                              *)

\* The request is built by _populate_timeline_msg_data (UPDATE) or on the
\* previous _tl_msg by _populate_timeline_msg_type (UNBIND) and sent; its
\* content is abstracted to the msgtype.  Before any bind _tl_type (and,
\* for UNBIND, _tl_msg) does not exist and the lookup raises; on a socket
\* whose connect failed, send raises.
Call(name, type, needsMsg) ==
    /\ clPc = "idle" /\ sent < MaxReqs
    /\ op' = name
    /\ CASE sock = "none" \/ (needsMsg /\ ~tlMsg)
                                -> result' = "AttributeError" /\ UNCHANGED <<clPc, sent, toDaemon, req, msg>>
         [] sock = "unconnected" -> result' = "OSError" /\ UNCHANGED <<clPc, sent, toDaemon, req, msg>>
         [] OTHER                -> SendReq(type) /\ clPc' = "recv" /\ UNCHANGED result
    /\ UNCHANGED <<sock, bindingId, mapped, tlMsg, stream, replies, dBinding, acc>>

\* TIMELINE_UPDATE with the binding's demand.
update_send == Call("update", "UPDATE", FALSE)

\* TIMELINE_UNBIND; the socket stays open.
unbind_send == Call("unbind", "UNBIND", TRUE)

\* UPDATE or UNBIND answered: OK, or ERR for any other retval, is
\* returned.
call_done ==
    /\ clPc = "parsed" /\ req \in {"UPDATE", "UNBIND"} /\ Accepted # 0
    /\ acc' = <<Accepted, sent>>
    /\ clPc' = "idle" /\ result' = RetVal
    /\ UNCHANGED <<sock, op, req, sent, msg, bindingId, mapped, tlMsg,
                   toDaemon, stream, replies, dBinding>>

-----------------------------------------------------------------------------
(* The daemon (spec section 6): it answers the oldest request with one    *)
(* frame written at once; BIND OK gives the binding an id (here the        *)
(* request's number), UNBIND OK removes it.                                *)

daemon_reply ==
    /\ toDaemon # <<>>
    /\ LET k == Head(toDaemon)[1]
           t == Head(toDaemon)[2]
       IN \E len \in FrameLens, rv \in RetVals :
            /\ replies' = Append(replies, [type |-> t, rv |-> rv, len |-> len,
                                           fd |-> (t = "SHM_CLOCK" /\ rv = "OK")])
            /\ stream' = stream \o [i \in 1..len |-> <<k, i>>]
            /\ dBinding' = CASE t = "BIND" /\ rv = "OK"   -> k
                             [] t = "UNBIND" /\ rv = "OK" -> NoId
                             [] OTHER                     -> dBinding
    /\ toDaemon' = Tail(toDaemon)
    /\ UNCHANGED <<sock, clPc, op, req, sent, msg, result, bindingId, mapped, tlMsg, acc>>

-----------------------------------------------------------------------------

\* A TimelineBinding("app") before any call.
Init ==
    /\ sock = "none" /\ clPc = "idle" /\ op = "none" /\ req = "none"
    /\ sent = 0 /\ msg = <<>> /\ result = "none"
    /\ bindingId = NoId /\ mapped = FALSE /\ tlMsg = FALSE
    /\ toDaemon = <<>> /\ stream = <<>> /\ replies = <<>> /\ dBinding = NoId
    /\ acc = <<0, 0>>

Next ==
    \/ bind_refused \/ bind_connect \/ bind_created \/ bind_bound
    \/ bind_shm_recv \/ update_send \/ unbind_send \/ call_done
    \/ recv_chunk \/ reply_undecodable \/ daemon_reply

Spec == Init /\ [][Next]_vars

-----------------------------------------------------------------------------
(* Properties.                                                             *)

TypeOK ==
    /\ sock \in {"none", "unconnected", "connected"}
    /\ clPc \in {"idle", "recv", "parsed", "shm"}
    /\ op \in {"none", "bind", "update", "unbind"}
    /\ sent \in 0..MaxReqs /\ Len(replies) + Len(toDaemon) = sent
    /\ result \in {"none", "OK", "ERR", "CONN_ERR", "JSONDecodeError",
                   "IndexError", "AttributeError", "OSError"}
    /\ mapped \in BOOLEAN /\ tlMsg \in BOOLEAN

\* Spec 4.G / section 6: timeline_bind returns OK only when the daemon
\* holds a binding for this connection, the client keeps that binding's
\* id (line 457) and the clock segment is mapped (line 471).  It takes the
\* retval checks of CREATE and BIND, the id copied from BIND's reply and
\* the descriptor of SHM_CLOCK's reply to hold.
BindOkMeansBound ==
    op = "bind" /\ clPc = "idle" /\ result = "OK" =>
        /\ dBinding # NoId /\ bindingId = dBinding
        /\ mapped

\* Section 6: each request is answered by one frame and the client reads
\* that frame as its answer.  Every reply the recv loop decodes is the
\* reply to the request the call has just sent.
ReplyMatchesRequest == acc[1] = acc[2]

=============================================================================
