------------------------------ MODULE Binding ------------------------------
(***************************************************************************)
(* How arguments become the values of a named query: bindStructArgs and    *)
(* bindMapArgs (queryx.go), the bind transformer (transformer.go) and the  *)
(* UDT wrapper (udt.go).  Queryx and Batch are built on it.                *)
(*                                                                         *)
(* An argument is known by the names it has a value for and by a number    *)
(* that all its values carry, 0 being the zero value of their type and Nil *)
(* no value at all (a nil interface).                                      *)
(***************************************************************************)
EXTENDS Naturals, Sequences

CONSTANTS
    Names,      \* the names of the query's parameters, in order
    UDTNames,   \* those whose value has a type that embeds UDT
    Args        \* the structs and maps that a program passes

ASSUME NamesAssumption == Names \in Seq(STRING) /\ Names # <<>>

NameSet == {Names[i] : i \in 1..Len(Names)}
Nil == 2
Numbers == {0, 1, Nil}
Transformers == {"nil", "UnsetEmpty"}

AllArgs == [has: SUBSET NameSet, number: Numbers]
ASSUME ArgsAssumption == Args \subseteq AllArgs
NoArg == [has |-> {}, number |-> 0]

(* A value on its way to the driver: whose it is, whether the transformer   *)
(* replaced it by UnsetValue, whether it is in a udt and how strict a one.  *)
Value(name, from, number) == [name |-> name, from |-> from, number |-> number,
                              unset |-> FALSE, wrap |-> "no"]
Values == [name: NameSet \cup {"extra"}, from: {"arg0", "arg1", "position"},
           number: Numbers, unset: BOOLEAN, wrap: {"no", "lax", "strict"}]

UnsetEmptyTransformer(value) ==
    IF value.number = 0 THEN [value EXCEPT !.unset = TRUE] ELSE value
transform(tr, value) ==
    IF tr = "nil" THEN value ELSE UnsetEmptyTransformer(value)

(* udtWrapSlice; neither nil nor UnsetValue nor a udt is a UDT, so that     *)
(* what has been wrapped once keeps the strictness of that time.            *)
IsUDT(value) ==
    value.name \in UDTNames /\ ~value.unset /\ value.number # Nil
udtWrapValue(strict, value) ==
    IF IsUDT(value) /\ value.wrap = "no"
    THEN [value EXCEPT !.wrap = IF strict THEN "strict" ELSE "lax"]
    ELSE value
udtWrapSlice(strict, values) ==
    [i \in 1..Len(values) |-> udtWrapValue(strict, values[i])]

(* Mutant: a field that the struct lacks is null in strict mode as well.    *)
NullAnyway(value, lacking) == FALSE

(* MarshalUDT, which the driver calls for each field of the user type: one  *)
(* that the struct lacks is an error if the udt is strict, else null.       *)
MarshalFails(value, lacking) == lacking /\ value.wrap = "strict"

(* Mutant: the map is looked up before the struct.                          *)
MapFirst(name, arg0, arg1) ==
    IF name \in arg1.has THEN Value(name, "arg1", arg1.number)
                         ELSE Value(name, "arg0", arg0.number)

(* Each name is taken from arg0, or else from arg1.                         *)
lookup(name, arg0, arg1) ==
    IF name \in arg0.has THEN Value(name, "arg0", arg0.number)
                         ELSE Value(name, "arg1", arg1.number)
Found(arg0, arg1) == NameSet \subseteq arg0.has \cup arg1.has

(* UnsetEmptyTransformer asks nil whether it is zero, which panics: at the  *)
(* first nil, unless a name before it is not found.                         *)
Panics(tr, arg0, arg1) ==
    /\ tr = "UnsetEmpty"
    /\ \E i \in 1..Len(Names) :
         /\ lookup(Names[i], arg0, arg1).number = Nil
         /\ \A j \in 1..i : Names[j] \in arg0.has \cup arg1.has

bindStructArgs(tr, arg0, arg1) ==
    [i \in 1..Len(Names) |-> transform(tr, lookup(Names[i], arg0, arg1))]

(* Mutant: the values are listed in another order than the names.           *)
OtherOrder(tr, arg) ==
    [i \in 1..Len(Names) |->
        transform(tr, Value(Names[Len(Names) + 1 - i], "arg1", arg.number))]

bindMapArgs(tr, arg) ==
    [i \in 1..Len(Names) |-> transform(tr, Value(Names[i], "arg1", arg.number))]

(* Positional arguments, one too few, right, or one too many.  They are not *)
(* transformed, so that zero is like any other value.                       *)
PositionNumbers == Numbers \ {0}
Positional(n, number) ==
    [i \in 1..n |-> Value(IF i <= Len(Names) THEN Names[i] ELSE "extra",
                          "position", number)]
Lengths == Len(Names) - 1 .. Len(Names) + 1

-----------------------------------------------------------------------------
(* History: what a bind call asked for.                                     *)
Request(by, arg0, arg1, n, tr, strict) ==
    [by |-> by, arg0 |-> arg0, arg1 |-> arg1, n |-> n, tr |-> tr, strict |-> strict]
NoRequest == Request("none", NoArg, NoArg, 0, "nil", FALSE)
FailedRequest == Request("failed", NoArg, NoArg, 0, "nil", FALSE)
Requests == [by: {"none", "failed", "name", "position", "kept"}, arg0: AllArgs, arg1: AllArgs,
             n: Nat, tr: Transformers, strict: BOOLEAN]

(* Value v in place i is the one the request asked for: of the i-th name,   *)
(* from the first argument that has it, and unset only by the transformer;  *)
(* of a slice that the caller keeps, what the caller last wrote there.      *)
Honours(r, v, i, written) ==
    \/ /\ r.by = "name" /\ v.name = Names[i]
       /\ v.from = "arg0" <=> v.name \in r.arg0.has
       /\ v.from = "arg0" => v.number = r.arg0.number
       /\ v.from = "arg1" => v.name \in r.arg1.has /\ v.number = r.arg1.number
       /\ v.unset <=> r.tr = "UnsetEmpty" /\ v.number = 0
    \/ /\ r.by = "position"
       /\ v.from = "position" /\ v.number = r.arg0.number /\ ~v.unset
    \/ /\ r.by = "kept" /\ v.name = Names[i]
       /\ v.from = "position" /\ v.number = written[i] /\ ~v.unset
=============================================================================
