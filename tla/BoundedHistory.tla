--------------------------- MODULE BoundedHistory ---------------------------
(***************************************************************************)
(* What the client's clock-parameter cache promises (spec section 4.F and *)
(* round-trip law 7): a history of at most Capacity values, oldest first. *)
(* Adding to a full history drops the oldest value; the history can be     *)
(* created anew (on bind).  Before the first creation there is none.      *)
(***************************************************************************)
EXTENDS Naturals, Sequences

CONSTANTS
    Capacity,   \* the bound K of the history
    Values,     \* the values that can be added
    NoValue     \* model value: no history exists yet

ASSUME Capacity \in Nat \ {0}

VARIABLES
    hist,       \* the history, oldest first, or NoValue
    lastAdded   \* the argument of the latest append (law 7: get().last == x)

\* A fresh, empty history.
Create ==
    /\ hist' = <<>>
    /\ UNCHANGED lastAdded

\* append(x): the newest value goes last; at capacity the oldest goes.
Add(x) ==
    /\ hist # NoValue
    /\ hist' = IF Len(hist) = Capacity THEN Append(Tail(hist), x)
                                       ELSE Append(hist, x)
    /\ lastAdded' = x

Init == hist = NoValue /\ lastAdded = NoValue

Next == Create \/ \E x \in Values : Add(x)

Spec == Init /\ [][Next]_<<hist, lastAdded>>

TypeOK ==
    /\ hist = NoValue \/ (hist \in Seq(Values) /\ Len(hist) <= Capacity)
    /\ lastAdded \in Values \cup {NoValue}

=============================================================================
