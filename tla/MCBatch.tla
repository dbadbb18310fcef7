------------------------------ MODULE MCBatch ------------------------------
(* Two parameters, batches of up to two statements and three wrappers, so   *)
(* that a statement added between two executions, or through a wrapper made *)
(* from the second one, meets one that was there before.                    *)
EXTENDS Batch

MCNames == <<"u", "a">>
MCUDTNames == {"u"}
MCArgs == {[has |-> {"u", "a"}, number |-> 0], [has |-> {"a"}, number |-> Nil]}
MCContexts == {"ctx"}
MCSettings == {"set"}
=============================================================================
