------------------------- MODULE MCTimelineBinding -------------------------
(* Model-checking instance of TimelineBinding in both modes: the transform *)
(* cache with MCClockParamCache's sizes, and the app-mode frames of                  *)
(* MCTimelineBindingApp with a receive buffer larger than all the bytes   *)
(* one connection carries, so no read fills it.                           *)
EXTENDS TimelineBinding

\* As in MCClockParamCache.
MCSize == 3
MCSegments == {1, 2, 3, 4, 5}
MCCoreTimes == {1, 3, 5}

MCModes == {"transform", "app"}

MCFrameLens == {2, 3}
=============================================================================
