---------------------------- MODULE MCSchemagen ----------------------------
(* Two tables and a view of one of them or of none, any of which may be     *)
(* ignored, and two user types, of which one may be a field of the other.   *)
EXTENDS Schemagen

CONSTANTS t1, t2, v1, u1, u2
MCTables == {t1, t2}
MCViews == {v1}
MCTypes == {u1, u2}
MCNatives == {"int", "timestamp", "date", "time", "decimal", "duration"}
=============================================================================
