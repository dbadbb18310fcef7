----------------------------- MODULE MCQueryx ------------------------------
(* Two parameters, one of them a UDT; a struct or map has both names, or    *)
(* one of them, a UDT at zero or the other as nil.                          *)
EXTENDS Queryx

MCNames == <<"u", "a">>
MCUDTNames == {"u"}
MCArgs == {[has |-> {"u", "a"}, number |-> 1], [has |-> {"u"}, number |-> 0],
           [has |-> {"a"}, number |-> Nil]}
MCContexts == {"ctx"}
MCOptions == {"PageSize"}
MCSettings == {"default", "set"}
=============================================================================
