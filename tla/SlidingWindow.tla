--------------------------- MODULE SlidingWindow ---------------------------
(***************************************************************************)
(* What the count based statistics promise: the last Size outcomes, oldest *)
(* first, and nothing older.                                               *)
(***************************************************************************)
EXTENDS Integers, Sequences

CONSTANT Size

VARIABLE window

\* A window that is full forgets its oldest outcome.
Slide(w, value) ==
  IF Len(w) < Size THEN Append(w, value) ELSE Append(Tail(w), value)

WInit == window = <<>>

WRecord(value) == window' = Slide(window, value)

WReset == window' = <<>>

WNext == WReset \/ \E value \in BOOLEAN : WRecord(value)

WSpec == WInit /\ [][WNext]_window
=============================================================================
