------------------------------ MODULE RowStream ------------------------------
(***************************************************************************)
(* What cqlx promises of the rows of one query, whatever is done with the  *)
(* iterator: a caller gets the rows in the server's order, each once, over *)
(* all the calls it makes; an error that was met is not forgotten; and a   *)
(* call that is to get all rows and reports no error got them all.         *)
(* How many rows there are, in which pages, and what goes wrong when, is   *)
(* left open.  Iterx implements this; RewriteTable builds on it.           *)
(***************************************************************************)
EXTENDS Naturals, Sequences

VARIABLES
    taken,   \* rows taken from the server's result
    held,    \* those of them that a call in progress has yet to return
    ended,   \* no row will come any more
    failed,  \* an error was met
    closed,  \* a call has closed the iterator
    last     \* what the last call that returned gave its caller

vars == <<taken, held, ended, failed, closed, last>>

(* A call asks for one row and goes on, for one row and closes, for all     *)
(* rows and closes, or only closes.                                         *)
Calls == {"next", "one", "all", "close"}
Closing == Calls \ {"next"}
Given(kind, rows, err) == [kind |-> kind, rows |-> rows, err |-> err]
NothingYet == Given("none", <<>>, FALSE)

(* The query may fail, or have no rows, before anybody asks for one.        *)
Init ==
    /\ taken = 0 /\ held = 0
    /\ ended \in BOOLEAN /\ failed \in BOOLEAN
    /\ closed = FALSE /\ last = NothingYet

(* One more row, if n is 1.  It may turn out to be the last.                *)
Take(n) ==
    /\ n = 1 => ~ended /\ ~closed
    /\ taken' = taken + n
    /\ ended' \in {ended, TRUE}

(* A call that asks for several rows takes one of them.                     *)
Hold ==
    /\ Take(1)
    /\ held' = held + 1
    /\ UNCHANGED <<failed, closed, last>>

(* It turns out that there are no more rows.                                *)
Exhaust ==
    /\ Take(0)
    /\ UNCHANGED <<held, failed, closed, last>>

(* A call returns, with a last row or without, and with the rows it holds.  *)
(* It may have met an error.                                                *)
Return(kind, n) ==
    /\ Take(n)
    /\ held' = 0
    /\ failed' \in {failed, TRUE}
    /\ closed' = (closed \/ kind \in Closing)
    /\ \E err \in BOOLEAN :
         /\ last' = Given(kind, [k \in 1 .. held + n |-> taken - held + k], err)
         /\ kind \in Closing /\ failed' => err
         /\ kind \in {"all", "close"} /\ ~failed' => ~err
         /\ kind = "all" /\ ~err => ended'
         /\ kind = "next" /\ held + n = 0 => ended' \/ failed'

(* After an error a call may break down, and nobody asks again.            *)
Break ==
    /\ failed
    /\ Take(0)
    /\ held' = 0 /\ closed' = TRUE
    /\ last' = Given("broken", <<>>, TRUE)
    /\ UNCHANGED failed

Next == \/ Hold \/ Exhaust \/ Break
        \/ \E kind \in Calls, n \in {0, 1} : Return(kind, n)

Spec == Init /\ [][Next]_vars
=============================================================================
