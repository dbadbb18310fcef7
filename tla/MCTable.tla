------------------------------ MODULE MCTable ------------------------------
EXTENDS Table, TLC

CONSTANTS g1, g2

MCCallers == {g1, g2}

(* Two rows of a key and two columns: a prefix of either is a proper one.   *)
MCPartKey == <<"p">>
MCSortKey == <<"s">>
MCColumns == <<"c", "d">>
MCCommon == <<"w">>

MCNames == {"p", "s", "c", "d", "w", "none"}

CallerSymmetry == Permutations(MCCallers)
=============================================================================
