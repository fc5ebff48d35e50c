----------------------- MODULE MCTimelineBindingApp -----------------------
(* Model-checking instance of TimelineBindingApp.  Scaled sizes keep the  *)
(* code's order: _recv_fds reads fewer bytes than any reply frame has,     *)
(* and MAX_BUF_LEN is larger than one frame.                              *)
EXTENDS TimelineBindingApp

MCFrameLens == {2, 3}
=============================================================================
