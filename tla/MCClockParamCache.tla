-------------------------- MODULE MCClockParamCache --------------------------
EXTENDS ClockParamCache

\* Six appends (the initial set and five published) fill a buffer of three
\* and wrap its write position back to the start.
MCSize == 3
MCSegments == {1, 2, 3, 4, 5}

\* Core times before, between and after the published sets.
MCCoreTimes == {1, 3, 5}
=============================================================================
