------------------------------ MODULE Queryx -------------------------------
(***************************************************************************)
(* One cqlx.Queryx (queryx.go): a driver's query with the names of its     *)
(* parameters, bound and executed any number of times, in any order.       *)
(* What the server answers is the business of Iterx; here an execution     *)
(* ends when the values are handed to the driver or an error is returned.  *)
(*                                                                         *)
(* A caller may keep the slice it passes to Bind with v... and pass it     *)
(* again: the query holds that slice, not a copy, and wraps UDTs in it.    *)
(***************************************************************************)
EXTENDS Binding

CONSTANTS
    Contexts,   \* what a program may pass as a context
    Options,    \* the options it may set on the driver's query
    Settings    \* what it may set them to

ASSUME OptionsAssumption == "NoSkipMetadata" \notin Options

VARIABLES
    q,          \* the fields of the Queryx: err, tr, strict, ctx
    bound,      \* the values the driver's query holds, if not the kept slice
    slice,      \* the slice the caller keeps
    kept,       \* does the driver's query hold that slice
    options,    \* the options of the driver's query, and how they are set
    result,     \* what the last call was, returned and sent
    lastBind,   \* history: what the last bind call asked for
    lastNamed,  \* history: did the last bind by name find every name
    written,    \* history: what the caller last wrote to each element of the slice
    edited,     \* history: UDTs of the slice written since it was bound
    rebound,    \* history: UDTs that were bound before without being written
    given,      \* history: the context that executions are to have
    chosen      \* history: how each option was last set

caller == <<slice, written, edited>>
history == <<lastBind, lastNamed, rebound>>
config == <<options, given, chosen>>
vars == <<q, bound, caller, kept, result, history, config>>

(* Get and Select begin as Exec does, Scan as Iter.                         *)
Checked == {"Exec", "GetCAS"}
Unchecked == {"ExecCAS", "Iter"}
CAS == {"GetCAS", "ExecCAS"}
Background == "background"
OptionNames == Options \cup {"NoSkipMetadata"}
Defaults == [o \in OptionNames |-> "default"]
Nothing == [op |-> "none", err |-> "none", values |-> <<>>, ctx |-> Background,
            options |-> Defaults, lacking |-> FALSE]

UDTPlaces == {i \in 1..Len(Names) : Names[i] \in UDTNames}
(* What the driver's query holds.                                           *)
Held == IF kept THEN slice ELSE bound

(* ctxOrBackground: no context stands for the background.                   *)
ctxOrBackground(ctx) == IF ctx = <<>> THEN Background ELSE ctx[1]

(* A query is made by Session.Query or ContextQuery with the defaults,      *)
(* which the program may have set.                                          *)
Init ==
    /\ \E tr \in Transformers, strict \in BOOLEAN, ctx \in {<<>>} \cup {<<c>> : c \in Contexts} :
         /\ q = [err |-> "none", tr |-> tr, strict |-> strict, ctx |-> ctx]
         /\ given = ctxOrBackground(ctx)
    /\ bound = <<>> /\ kept = FALSE /\ result = Nothing
    /\ options = Defaults /\ chosen = Defaults
    /\ slice = Positional(Len(Names), 1) /\ written = [i \in 1..Len(Names) |-> 1]
    /\ lastBind = NoRequest /\ lastNamed = TRUE
    /\ edited = UDTPlaces /\ rebound = {}

-----------------------------------------------------------------------------
Strict ==
    /\ q' = [q EXCEPT !.strict = TRUE] /\ result' = Nothing
    /\ UNCHANGED <<bound, caller, kept, history, config>>

WithBindTransformer ==
    /\ \E tr \in Transformers : q' = [q EXCEPT !.tr = tr]
    /\ result' = Nothing
    /\ UNCHANGED <<bound, caller, kept, history, config>>

(* Mutant: a nil context leaves the query as it is.                         *)
NilIgnored(ctx) == IF ctx = <<>> THEN q.ctx ELSE ctx

NewContext(ctx) == <<ctxOrBackground(ctx)>>

(* WithContext changes the query in place; nil is the background.           *)
WithContext ==
    /\ \E ctx \in {<<>>} \cup {<<c>> : c \in Contexts} :
         /\ q' = [q EXCEPT !.ctx = NewContext(ctx)]
         /\ given' = ctxOrBackground(ctx)
    /\ result' = Nothing
    /\ UNCHANGED <<bound, caller, kept, options, chosen, history>>

(* Mutant: an option that has been set stays as it was set first.           *)
FirstStays(o, s) ==
    [options EXCEPT ![o] = IF @ = "default" THEN s ELSE @]

Configured(o, s) == [options EXCEPT ![o] = s]

(* PageSize, Consistency, RetryPolicy and the like replace what was set in  *)
(* the driver's query.                                                      *)
SetOption ==
    /\ \E o \in Options, s \in Settings :
         options' = Configured(o, s) /\ chosen' = [chosen EXCEPT ![o] = s]
    /\ result' = Nothing
    /\ UNCHANGED <<q, bound, caller, kept, history, given>>

(* Nothing turns this one off.                                              *)
NoSkipMetadata ==
    /\ options' = Configured("NoSkipMetadata", "on")
    /\ chosen' = [chosen EXCEPT !["NoSkipMetadata"] = "on"]
    /\ result' = Nothing
    /\ UNCHANGED <<q, bound, caller, kept, history, given>>

(* Mutant: the values go to the driver as they are.                         *)
SetUnwrapped(values) == bound' = values /\ kept' = FALSE /\ UNCHANGED caller

(* Bind: it neither counts the values nor touches q.err.                    *)
SetValues(values) ==
    bound' = udtWrapSlice(q.strict, values) /\ kept' = FALSE /\ UNCHANGED caller

Bind ==
    /\ \E n \in Lengths, number \in PositionNumbers :
         /\ SetValues(Positional(n, number))
         /\ lastBind' = Request("position", [has |-> {}, number |-> number], NoArg, n,
                                q.tr, q.strict)
    /\ result' = Nothing
    /\ UNCHANGED <<q, lastNamed, rebound, config>>

(* Bind of the slice the caller keeps.                                      *)
BindSlice ==
    /\ slice' = udtWrapSlice(q.strict, slice) /\ kept' = TRUE /\ bound' = <<>>
    /\ lastBind' = Request("kept", NoArg, NoArg, Len(Names), q.tr, q.strict)
    /\ rebound' = UDTPlaces \ edited /\ edited' = {}
    /\ result' = Nothing
    /\ UNCHANGED <<q, written, lastNamed, config>>

(* The caller writes an element of its slice, before or after it is bound.  *)
WriteSlice ==
    /\ \E i \in 1..Len(Names), number \in PositionNumbers :
         /\ slice' = [slice EXCEPT ![i] = Value(Names[i], "position", number)]
         /\ written' = [written EXCEPT ![i] = number]
         /\ edited' = edited \cup (UDTPlaces \cap {i})
    /\ result' = Nothing
    /\ UNCHANGED <<q, bound, kept, history, config>>

(* Mutant: a successful bind keeps the error of an earlier one.             *)
KeepErr(arglist) == UNCHANGED q /\ SetValues(arglist)

(* A bind by name that finds every name clears the error; one that does not *)
(* sets it and leaves the driver's values as they were.                     *)
BindOK(arglist) == q' = [q EXCEPT !.err = "none"] /\ SetValues(arglist)

BindFails == q' = [q EXCEPT !.err = "bind"] /\ UNCHANGED <<bound, caller, kept>>

(* A panic leaves the query as it was.                                      *)
BindNamed(arglist, arg0, arg1) ==
    /\ \/ /\ Panics(q.tr, arg0, arg1)
          /\ UNCHANGED <<q, bound, caller, kept, lastBind, lastNamed>>
       \/ /\ ~Panics(q.tr, arg0, arg1) /\ Found(arg0, arg1)
          /\ BindOK(arglist)
          /\ lastBind' = Request("name", arg0, arg1, Len(Names), q.tr, q.strict)
          /\ lastNamed' = TRUE
       \/ /\ ~Panics(q.tr, arg0, arg1) /\ ~Found(arg0, arg1)
          /\ BindFails
          /\ lastBind' = FailedRequest
          /\ lastNamed' = FALSE
    /\ result' = Nothing
    /\ UNCHANGED <<rebound, config>>

BindStruct == \E arg \in Args :
    BindNamed(bindStructArgs(q.tr, arg, NoArg), arg, NoArg)
BindStructMap == \E arg0 \in Args, arg1 \in Args :
    BindNamed(bindStructArgs(q.tr, arg0, arg1), arg0, arg1)
BindMap == \E arg \in Args :
    BindNamed(bindMapArgs(q.tr, arg), NoArg, arg)

-----------------------------------------------------------------------------
Sent(op, err, values, opts, lacking) ==
    result' = [op |-> op, err |-> err, values |-> values, options |-> opts,
               ctx |-> ctxOrBackground(q.ctx), lacking |-> lacking]
Refused(op, err) == Sent(op, err, <<>>, Defaults, FALSE)

(* ExecCAS and GetCAS call NoSkipMetadata first, and leave the option on.   *)
OptionsOf(op) ==
    IF op \in CAS THEN Configured("NoSkipMetadata", "on") ELSE options

(* The driver refuses a query with the wrong number of values, and marshals *)
(* them: the user type may have a field that the struct is lacking.         *)
Execute(op) ==
    /\ options' = OptionsOf(op)
    /\ chosen' = [chosen EXCEPT !["NoSkipMetadata"] = IF op \in CAS THEN "on" ELSE @]
    /\ \/ Len(Held) # Len(Names) /\ Refused(op, "arity")
       \/ /\ Len(Held) = Len(Names)
          /\ \E lacking \in BOOLEAN :
               LET fails == \E i \in UDTPlaces : MarshalFails(Held[i], lacking)
               IN  \/ fails /\ Refused(op, "field")
                   \/ ~fails /\ Sent(op, "none", Held, OptionsOf(op), lacking)

(* Exec, Get, Select and GetCAS return a bind error without executing.      *)
Exec == \E op \in Checked :
    /\ \/ q.err # "none" /\ Refused(op, q.err) /\ UNCHANGED <<options, chosen>>
       \/ q.err = "none" /\ Execute(op)
    /\ UNCHANGED <<q, bound, caller, kept, history, given>>

(* ExecCAS, Scan and Iter execute without a look at q.err.                  *)
ExecUnchecked == \E op \in Unchecked :
    /\ Execute(op)
    /\ UNCHANGED <<q, bound, caller, kept, history, given>>

Next ==
    \/ Strict \/ WithBindTransformer \/ WithContext \/ SetOption
    \/ NoSkipMetadata
    \/ BindSlice \/ WriteSlice \/ Bind \/ BindStruct \/ BindStructMap \/ BindMap
    \/ Exec \/ ExecUnchecked

Spec == Init /\ [][Next]_vars

-----------------------------------------------------------------------------
(* Properties.                                                              *)

(* The values a request stands for, all of them and no other.               *)
SentFor(r, values) ==
    /\ r.by \in {"name", "position", "kept"} /\ Len(values) = r.n
    /\ \A i \in 1..Len(values) : Honours(r, values[i], i, written)

OptionValues == [OptionNames -> Settings \cup {"default", "on"}]

(* Every variable holds a value of its kind, and the values of the driver's *)
(* query are in the order of its names.                                     *)
TypeOK ==
    /\ q \in [err: {"none", "bind"}, tr: Transformers, strict: BOOLEAN,
              ctx: {<<>>, <<Background>>} \cup {<<c>> : c \in Contexts}]
    /\ bound \in Seq(Values) /\ slice \in Seq(Values) /\ kept \in BOOLEAN
    /\ \A i \in 1..Len(Held) : Held[i].name = IF i <= Len(Names) THEN Names[i] ELSE "extra"
    /\ {options, chosen} \subseteq OptionValues
    /\ result \in [op: {"none"} \cup Checked \cup Unchecked,
                   err: {"none", "bind", "arity", "field"}, values: Seq(Values),
                   ctx: Contexts \cup {Background}, lacking: BOOLEAN,
                   options: OptionValues]
    /\ lastBind \in Requests /\ lastNamed \in BOOLEAN /\ given \in Contexts \cup {Background}
    /\ written \in [1..Len(Names) -> PositionNumbers]
    /\ edited \subseteq UDTPlaces /\ rebound \subseteq UDTPlaces

(* Exec, Get, Select and GetCAS send exactly what the last bind call asked  *)
(* for, in the order of the names, and send nothing after one that failed:  *)
(* never the values of an earlier bind, never a mixture of two.  Of a slice *)
(* that the caller keeps they send what it last wrote to each element, even *)
(* after the bind, as the driver's query holds the slice (queryx.go:230).   *)
SentIsLastBind ==
    result.op \in Checked /\ result.err = "none" => SentFor(lastBind, result.values)

(* When the last bind failed they report that and do not execute, whatever  *)
(* was set or executed since; and they report a bind error only as long as  *)
(* no bind by name has succeeded.  Nothing is said of a bind by position    *)
(* that follows a failed one: the error stays, though Bind can "be used to  *)
(* rebind" (queryx.go:227).                                                 *)
RefusesOnlyFailedBind ==
    result.op \in Checked =>
        /\ lastBind.by = "failed" => result.err = "bind"
        /\ result.err = "bind" => ~lastNamed

(* No UDT reaches the driver outside a udt, which would make the driver     *)
(* marshal it by its own field names, and none is stricter or laxer than    *)
(* the query was when it was bound; but for a slice that the caller keeps:  *)
(* what it has written there since the bind is sent as it is, and what was  *)
(* in the slice when it was bound before is as strict as it was then.       *)
UDTsWrapped ==
    \A i \in 1..Len(result.values) :
        LET v == result.values[i]
            again == lastBind.by = "kept"
        IN  result.op \in Checked /\ IsUDT(v) =>
              \/ v.wrap = IF lastBind.strict THEN "strict" ELSE "lax"
              \/ again /\ i \in edited /\ v.wrap = "no"
              \/ again /\ i \in rebound \ edited /\ v.wrap = "lax"

(* A query that was strict when a UDT was bound, by name or by position,    *)
(* is not sent with a field of the user type silently null, unless all of   *)
(* it is null or unset.                                                     *)
StrictReportsMissing ==
    result.op \in Checked /\ result.err = "none" /\ result.lacking
      /\ lastBind.by # "kept" /\ lastBind.strict =>
        \A i \in UDTPlaces : ~IsUDT(result.values[i])

(* Every execution runs under the context last given to the query, nil      *)
(* being the background, and with each option as it was last set, whatever  *)
(* binds, failed binds, contexts and executions came between; a lightweight *)
(* transaction, and every execution after one, does not skip the metadata   *)
(* that tell whether it was applied.                                        *)
SentAsConfigured ==
    result.op # "none" /\ result.err = "none" =>
        /\ result.ctx = given /\ result.options = chosen
        /\ result.op \in CAS => result.options["NoSkipMetadata"] = "on"

-----------------------------------------------------------------------------
(* What the comments of queryx.go promise and the code does not keep; a run *)
(* of its own refutes it.                                                   *)

(* "If value cannot be found error is reported." (queryx.go:137): no        *)
(* execution at all sends values after a bind that failed.                  *)
AllSendLastBind ==
    result.op \in Checked \cup Unchecked /\ result.err = "none"
      /\ lastBind.by # "none" => SentFor(lastBind, result.values)
=============================================================================
