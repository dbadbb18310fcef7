------------------------------ MODULE MCUsing ------------------------------
EXTENDS UsingClause

(* Whole and partial seconds on both sides of zero, and a duration with     *)
(* minutes, seconds, milliseconds and a fraction above one half.            *)
MCDurations == {-1000000, 0, 600, 61002600}
MCTimes == {0, 7}
=============================================================================
