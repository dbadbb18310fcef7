------------------------------ MODULE MCIterx ------------------------------
(* Two column names, so that a struct may map all, some or none of them;    *)
(* pages of 0, 1 or 2 rows and up to 3 pages, so that Select meets an empty *)
(* page first, in the middle and last.                                      *)
EXTENDS Iterx

CONSTANTS c1, c2
MCColumns == {c1, c2}
=============================================================================
