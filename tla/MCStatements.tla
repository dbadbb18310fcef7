--------------------------- MODULE MCStatements ---------------------------
(* Four programs.  The first adds any two clauses to any builder; the       *)
(* second puts two statements into a batch, with a prefix and without and   *)
(* USING clauses that have a placeholder; the third adds clauses to the     *)
(* builders of a table, so many that DISTINCT is asked for before and       *)
(* behind conditions; the fourth calls the setters of USING with whole and  *)
(* partial seconds on both sides of zero, and a duration with minutes,      *)
(* seconds, milliseconds and a fraction above one half.                     *)
EXTENDS Statements

AllKeys == {"TTL", "TIMESTAMP", "TIMEOUT"}

Clausal ==
    [kinds |-> AllKinds, params |-> {"a", "b"}, keys |-> {"TTL", "TIMEOUT"},
     durations |-> {1000000}, times |-> {7}, tables |-> FALSE,
     prefixes |-> {NoName}, calls |-> 2, stmts |-> 0]
Batched ==
    [kinds |-> {"insert", "delete"}, params |-> {"a"}, keys |-> {"TIMEOUT"},
     durations |-> {}, times |-> {}, tables |-> FALSE,
     prefixes |-> {NoName, "p"}, calls |-> 1, stmts |-> 2]
OfTable ==
    [kinds |-> {"select"}, params |-> {"a"}, keys |-> {},
     durations |-> {1000000}, times |-> {7}, tables |-> TRUE,
     prefixes |-> {NoName}, calls |-> 4, stmts |-> 0]
Timed ==
    [kinds |-> {"update"}, params |-> {"a"}, keys |-> AllKeys,
     durations |-> {-1000000, 0, 600, 61002600}, times |-> {0, 7}, tables |-> FALSE,
     prefixes |-> {NoName}, calls |-> 0, stmts |-> 0]
MCPrograms == {Clausal, Batched, OfTable, Timed}
=============================================================================
