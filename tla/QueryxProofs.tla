---------------------------- MODULE QueryxProofs ----------------------------
(* Proofs about Queryx: whatever binds, failures, setters and executions    *)
(* come in whatever order, what is sent is the last bind.                   *)
EXTENDS Queryx, TLAPS

-----------------------------------------------------------------------------
(* A value before it is wrapped; a list of them in the order of the names.  *)
IsBare(v, name) == v \in Values /\ v.name = name /\ v.wrap = "no"
NameAt(i) == IF i <= Len(Names) THEN Names[i] ELSE "extra"
Bare(values) ==
    /\ values \in Seq(Values)
    /\ \A i \in 1..Len(values) : IsBare(values[i], NameAt(i))

LEMMA NamesAreNames ==
    /\ Len(Names) \in Nat \ {0}
    /\ \A i \in 1..Len(Names) : Names[i] \in NameSet
BY NamesAssumption DEF NameSet

-----------------------------------------------------------------------------
(* The values of the three ways to bind are the ones that were asked for.   *)
LEMMA PositionalIsAsked ==
    ASSUME NEW n \in Nat, NEW number \in Numbers, NEW r \in Requests, NEW w,
           r.by = "position", r.n = n, r.arg0.number = number
    PROVE  /\ Bare(Positional(n, number)) /\ Len(Positional(n, number)) = r.n
           /\ \A i \in 1..n : Honours(r, Positional(n, number)[i], i, w)
<1> DEFINE p == Positional(n, number)
<1>1. ASSUME NEW i \in 1..n
      PROVE  /\ IsBare(p[i], NameAt(i)) /\ p[i].from = "position" /\ p[i].number = number
             /\ p[i].unset = FALSE
  <2>1. NameAt(i) \in NameSet \cup {"extra"} /\ p[i] = Value(NameAt(i), "position", number)
    BY NamesAreNames DEF NameAt, Positional
  <2> HIDE DEF p
  <2> QED BY <2>1 DEF Value, Values, IsBare
<1>2. p \in Seq(Values) /\ Len(p) = n
  <2>1. \A i \in 1..n : p[i] \in Values
    BY <1>1 DEF IsBare
  <2>2. p = [i \in 1..n |-> p[i]]
    BY DEF Positional
  <2> HIDE DEF p
  <2> QED BY <2>1, <2>2
<1> HIDE DEF p
<1>3. Bare(p)
  BY <1>1, <1>2 DEF Bare
<1>4. \A i \in 1..n : Honours(r, p[i], i, w)
  BY <1>1 DEF Honours
<1> QED BY <1>2, <1>3, <1>4 DEF p

LEMMA StructIsAsked ==
    ASSUME NEW how \in Transformers, NEW arg0 \in AllArgs, NEW arg1 \in AllArgs, NEW w,
           Found(arg0, arg1), NEW r \in Requests,
           r.by = "name", r.arg0 = arg0, r.arg1 = arg1, r.tr = how, r.n = Len(Names)
    PROVE  /\ Bare(bindStructArgs(how, arg0, arg1))
           /\ Len(bindStructArgs(how, arg0, arg1)) = r.n
           /\ \A i \in 1..r.n : Honours(r, bindStructArgs(how, arg0, arg1)[i], i, w)
<1> DEFINE b == bindStructArgs(how, arg0, arg1)
<1>1. ASSUME NEW i \in 1..Len(Names)
      PROVE  IsBare(b[i], NameAt(i)) /\ Honours(r, b[i], i, w)
  <2> DEFINE v == lookup(Names[i], arg0, arg1)
  <2>1. Names[i] \in NameSet /\ NameAt(i) = Names[i] /\ b[i] = transform(how, v)
    BY NamesAreNames DEF NameAt, bindStructArgs
  <2>2. arg0.number \in Numbers /\ arg1.number \in Numbers /\ Names[i] \in arg0.has \cup arg1.has
    BY <2>1 DEF AllArgs, Found
  <2>3. /\ IsBare(v, Names[i]) /\ v.unset = FALSE
        /\ Names[i] \in arg0.has => v.from = "arg0" /\ v.number = arg0.number
        /\ Names[i] \notin arg0.has => v.from = "arg1" /\ v.number = arg1.number
    <3>1. ASSUME NEW from \in {"arg0", "arg1"}, NEW number \in Numbers
          PROVE  /\ IsBare(Value(Names[i], from, number), Names[i])
                 /\ Value(Names[i], from, number).from = from
                 /\ Value(Names[i], from, number).number = number
                 /\ Value(Names[i], from, number).unset = FALSE
      BY <2>1 DEF Value, Values, IsBare
    <3> HIDE DEF b
    <3> QED BY <2>2, <3>1 DEF lookup
  <2> HIDE DEF v, b
  <2>4. /\ IsBare(b[i], Names[i]) /\ b[i].from = v.from /\ b[i].number = v.number
        /\ b[i].unset <=> how = "UnsetEmpty" /\ v.number = 0
    BY <2>1, <2>3
       DEF IsBare, transform, UnsetEmptyTransformer, Values, Transformers, Numbers
  <2> QED BY <2>1, <2>2, <2>3, <2>4 DEF Honours, IsBare
<1>2. b \in Seq(Values) /\ Len(b) = Len(Names)
  BY <1>1, NamesAreNames DEF bindStructArgs, IsBare
<1> HIDE DEF b
<1>3. Bare(b) /\ Len(b) = r.n /\ \A i \in 1..r.n : Honours(r, b[i], i, w)
  BY <1>1, <1>2 DEF Bare
<1> QED BY <1>3 DEF b

LEMMA MapIsAsked ==
    ASSUME NEW how \in Transformers, NEW arg \in AllArgs, NEW w,
           Found(NoArg, arg), NEW r \in Requests,
           r.by = "name", r.arg0 = NoArg, r.arg1 = arg, r.tr = how, r.n = Len(Names)
    PROVE  /\ Bare(bindMapArgs(how, arg)) /\ Len(bindMapArgs(how, arg)) = r.n
           /\ \A i \in 1..r.n : Honours(r, bindMapArgs(how, arg)[i], i, w)
<1>1. NoArg \in AllArgs /\ NoArg.has = {}
  BY DEF NoArg, AllArgs, Numbers
<1>2. ASSUME NEW i \in 1..Len(Names)
      PROVE  lookup(Names[i], NoArg, arg) = Value(Names[i], "arg1", arg.number)
  BY <1>1 DEF lookup
<1>3. bindMapArgs(how, arg) = bindStructArgs(how, NoArg, arg)
  BY <1>2 DEF bindMapArgs, bindStructArgs
<1>4. /\ Bare(bindStructArgs(how, NoArg, arg))
      /\ Len(bindStructArgs(how, NoArg, arg)) = r.n
      /\ \A i \in 1..r.n : Honours(r, bindStructArgs(how, NoArg, arg)[i], i, w)
  BY <1>1, StructIsAsked
<1> QED BY <1>3, <1>4

-----------------------------------------------------------------------------
(* Wrapping leaves everything of a value but its wrapper.                   *)
LEMMA WrapKeeps ==
    ASSUME NEW strict \in BOOLEAN, NEW values \in Seq(Values)
    PROVE  /\ udtWrapSlice(strict, values) \in Seq(Values)
           /\ Len(udtWrapSlice(strict, values)) = Len(values)
           /\ \A i \in 1..Len(values) :
                LET v == values[i]
                    w == udtWrapSlice(strict, values)[i]
                IN  /\ w.name = v.name /\ w.from = v.from /\ w.number = v.number
                    /\ w.unset = v.unset
                    /\ w.wrap = IF IsUDT(v) /\ v.wrap = "no"
                                THEN IF strict THEN "strict" ELSE "lax" ELSE v.wrap
<1> DEFINE s == udtWrapSlice(strict, values)
<1>1. ASSUME NEW i \in 1..Len(values)
      PROVE  LET v == values[i] IN
             /\ s[i] \in Values
             /\ s[i].name = v.name /\ s[i].from = v.from /\ s[i].number = v.number
             /\ s[i].unset = v.unset
             /\ s[i].wrap = IF IsUDT(v) /\ v.wrap = "no"
                            THEN IF strict THEN "strict" ELSE "lax" ELSE v.wrap
  <2>1. values[i] \in Values /\ s[i] = udtWrapValue(strict, values[i])
    BY DEF udtWrapSlice
  <2> HIDE DEF s
  <2> QED BY <2>1 DEF udtWrapValue, IsUDT, Values
<1>2. s \in Seq(Values) /\ Len(s) = Len(values)
  BY <1>1 DEF udtWrapSlice
<1> HIDE DEF s
<1> QED BY <1>1, <1>2 DEF s

-----------------------------------------------------------------------------
(* The inductive invariant.                                                 *)

Strictness(strict) == IF strict THEN "strict" ELSE "lax"

Typed ==
    /\ q \in [err: {"none", "bind"}, tr: Transformers, strict: BOOLEAN,
              ctx: {<<>>, <<Background>>} \cup {<<c>> : c \in Contexts}]
    /\ bound \in Seq(Values) /\ slice \in Seq(Values) /\ kept \in BOOLEAN
    /\ options \in OptionValues
    /\ lastBind \in Requests /\ lastNamed \in BOOLEAN
    /\ edited \subseteq UDTPlaces /\ rebound \subseteq UDTPlaces
    /\ written \in [1..Len(Names) -> PositionNumbers]

(* The slice the caller keeps: for each name the value it last wrote there, *)
(* and the UDTs without a wrapper are those written since the slice was     *)
(* bound.  Strict is never taken back, so that none is stricter than the    *)
(* query.                                                                   *)
SliceIsOwn ==
    /\ Len(slice) = Len(Names)
    /\ \A i \in 1..Len(Names) :
         /\ slice[i].name = Names[i] /\ slice[i].from = "position"
         /\ slice[i].number = written[i] /\ slice[i].unset = FALSE
         /\ IsUDT(slice[i]) => (slice[i].wrap = "no" <=> i \in edited)
         /\ slice[i].wrap = "strict" => q.strict

(* Values, as a bind by name or by position puts them into the query.       *)
BoundFor(r, values) ==
    /\ SentFor(r, values)
    /\ \A i \in 1..Len(values) :
         IsUDT(values[i]) =>
           values[i].wrap = Strictness(r.strict)

(* What the driver's query holds is what the last bind asked for, or that   *)
(* bind has failed and left its error.                                      *)
HeldIsAsked ==
    /\ \A i \in 1..Len(bound) : bound[i].name = NameAt(i)
    /\ lastBind.by = "none" => ~kept /\ bound = <<>>
    /\ lastBind.by = "failed" => q.err = "bind"
    /\ lastBind.by \in {"name", "position"} => ~kept /\ BoundFor(lastBind, bound)
    /\ lastBind.by = "kept" =>
         /\ kept /\ lastBind.n = Len(Names)
         /\ \A i \in UDTPlaces \ edited :
              IsUDT(slice[i]) =>
              \/ slice[i].wrap = Strictness(lastBind.strict)
              \/ i \in rebound /\ slice[i].wrap = "lax"

ErrIsOfLastNamed == q.err = "none" <=> lastNamed
ConfigIsGiven == given = ctxOrBackground(q.ctx) /\ chosen = options

ResultTyped ==
    result \in [op: {"none"} \cup Checked \cup Unchecked,
               err: {"none", "bind", "arity", "field"}, values: Seq(Values),
               ctx: Contexts \cup {Background}, lacking: BOOLEAN,
               options: OptionValues]

(* An execution has sent what the query still holds.                        *)
ResultTold ==
    /\ result.op \in Checked => (result.err = "bind" <=> q.err = "bind")
    /\ result.op = "none" \/ result.err # "none" => result.values = <<>>
    /\ result.op # "none" /\ result.err = "none" =>
         /\ result.op \in Checked => q.err = "none"
         /\ result.values = Held /\ Len(Held) = Len(Names)
         /\ \A i \in UDTPlaces : ~MarshalFails(Held[i], result.lacking)
         /\ result.options = options /\ result.ctx = given
         /\ result.op \in CAS => options["NoSkipMetadata"] = "on"

Caller == Typed /\ SliceIsOwn /\ HeldIsAsked /\ ErrIsOfLastNamed /\ ConfigIsGiven
IInv == Caller /\ ResultTyped /\ ResultTold

-----------------------------------------------------------------------------
LEMMA OptionsStayValues ==
    /\ Defaults \in OptionValues
    /\ options \in OptionValues =>
         \A o \in OptionNames, s \in Settings \cup {"default", "on"} :
           /\ Configured(o, s) \in OptionValues /\ Configured(o, s)[o] = s
           /\ Configured(o, s) = [options EXCEPT ![o] = s]
BY DEF Defaults, OptionValues, Configured

(* No call but an execution leaves a result.                                *)
LEMMA NothingIsTold == ASSUME result' = Nothing PROVE ResultTyped' /\ ResultTold'
<1>1. /\ result'.op = "none" /\ result'.err = "none" /\ result'.values = <<>>
      /\ result' \in [op: {"none"} \cup Checked \cup Unchecked,
                     err: {"none", "bind", "arity", "field"}, values: Seq(Values),
                     ctx: Contexts \cup {Background}, lacking: BOOLEAN,
                     options: OptionValues]
  <2>1. <<>> \in Seq(Values) /\ Defaults \in OptionValues
    BY OptionsStayValues
  <2> QED BY <2>1 DEF Nothing
<1> QED BY <1>1 DEF ResultTyped, ResultTold, Checked

LEMMA WrappedIsBound ==
    ASSUME NEW r \in Requests, r.by \in {"name", "position"},
           NEW values, Bare(values), Len(values) = r.n,
           \A i \in 1..r.n : Honours(r, values[i], i, written)
    PROVE  /\ udtWrapSlice(r.strict, values) \in Seq(Values)
           /\ BoundFor(r, udtWrapSlice(r.strict, values))
           /\ \A i \in 1..Len(udtWrapSlice(r.strict, values)) :
                udtWrapSlice(r.strict, values)[i].name = NameAt(i)
<1> DEFINE w == udtWrapSlice(r.strict, values)
<1>1. r.strict \in BOOLEAN /\ values \in Seq(Values)
      /\ \A i \in 1..Len(values) : IsBare(values[i], NameAt(i))
  BY DEF Requests, Bare
<1>2. /\ w \in Seq(Values) /\ Len(w) = Len(values)
      /\ \A i \in 1..Len(values) :
           /\ w[i].name = values[i].name /\ w[i].from = values[i].from
           /\ w[i].number = values[i].number /\ w[i].unset = values[i].unset
           /\ w[i].wrap = IF IsUDT(values[i]) /\ values[i].wrap = "no"
                          THEN IF r.strict THEN "strict" ELSE "lax" ELSE values[i].wrap
  BY <1>1, WrapKeeps
<1> HIDE DEF w
<1>3. SentFor(r, w)
  <2>1. ASSUME NEW i \in 1..Len(w) PROVE Honours(r, w[i], i, written)
    <3>1. Honours(r, values[i], i, written)
      BY <1>2
    <3> QED BY <1>2, <3>1 DEF Honours
  <2> QED BY <1>2, <2>1 DEF SentFor
<1>4. \A i \in 1..Len(w) : IsUDT(w[i]) => w[i].wrap = Strictness(r.strict)
  BY <1>1, <1>2 DEF IsBare, IsUDT, Strictness
<1>5. \A i \in 1..Len(w) : w[i].name = NameAt(i)
  BY <1>1, <1>2 DEF IsBare
<1> QED BY <1>2, <1>3, <1>4, <1>5 DEF w, BoundFor

(* A bind by name or by position that succeeds.                             *)
LEMMA SetValuesAsked ==
    ASSUME Caller, NEW r \in Requests, r.by \in {"name", "position"},
           NEW values, Bare(values), Len(values) = r.n,
           \A i \in 1..r.n : Honours(r, values[i], i, written),
           SetValues(values), r.strict = q.strict, lastBind' = r,
           q'.strict = q.strict
    PROVE  /\ bound' \in Seq(Values) /\ slice' \in Seq(Values) /\ kept' \in BOOLEAN
           /\ lastBind' \in Requests /\ edited' \subseteq UDTPlaces
           /\ written' \in [1..Len(Names) -> PositionNumbers]
           /\ SliceIsOwn' /\ HeldIsAsked'
<1>1. bound' = udtWrapSlice(r.strict, values) /\ kept' = FALSE /\ slice' = slice
      /\ edited' = edited /\ written' = written
  BY DEF SetValues, caller
<1>2. /\ bound' \in Seq(Values) /\ BoundFor(r, bound')
      /\ \A i \in 1..Len(bound') : bound'[i].name = NameAt(i)
  BY <1>1, WrappedIsBound
<1>3. HeldIsAsked'
  BY <1>1, <1>2 DEF HeldIsAsked, BoundFor, SentFor, Honours
<1> QED BY <1>1, <1>2, <1>3 DEF Caller, Typed, SliceIsOwn

LEMMA BindNamedKeeps ==
    ASSUME Caller, NEW arg0 \in AllArgs, NEW arg1 \in AllArgs, NEW values,
           LET r == Request("name", arg0, arg1, Len(Names), q.tr, q.strict) IN
             Found(arg0, arg1) =>
               /\ Bare(values) /\ Len(values) = r.n
               /\ \A i \in 1..r.n : Honours(r, values[i], i, written),
           BindNamed(values, arg0, arg1)
    PROVE  IInv'
<1> DEFINE r == Request("name", arg0, arg1, Len(Names), q.tr, q.strict)
<1>1. q.strict \in BOOLEAN /\ q.tr \in Transformers /\ Len(Names) \in Nat
  BY NamesAreNames DEF Caller, Typed
<1>2. r \in Requests /\ r.by = "name" /\ r.strict = q.strict
  BY <1>1 DEF Request, Requests
<1>3. FailedRequest \in Requests /\ FailedRequest.by = "failed"
  BY DEF FailedRequest, Request, Requests, NoArg, AllArgs, Numbers, Transformers
<1>4. ResultTyped' /\ ResultTold'
  BY NothingIsTold DEF BindNamed
<1>5. CASE ~Panics(q.tr, arg0, arg1) /\ Found(arg0, arg1)
  <2>1. /\ q' = [q EXCEPT !.err = "none"] /\ SetValues(values)
        /\ lastBind' = r /\ lastNamed' = TRUE /\ UNCHANGED <<options, chosen, rebound, given>>
    BY <1>5 DEF BindNamed, BindOK, config
  <2>2. q'.err = "none" /\ q'.strict = q.strict /\ q'.ctx = q.ctx
    BY <2>1 DEF Caller, Typed
  <2>3. Bare(values) /\ Len(values) = r.n /\ \A i \in 1..r.n : Honours(r, values[i], i, written)
    BY <1>5
  <2> HIDE DEF r
  <2>4. /\ bound' \in Seq(Values) /\ slice' \in Seq(Values) /\ kept' \in BOOLEAN
        /\ lastBind' \in Requests /\ edited' \subseteq UDTPlaces
        /\ written' \in [1..Len(Names) -> PositionNumbers]
        /\ SliceIsOwn' /\ HeldIsAsked'
    BY <1>2, <2>1, <2>2, <2>3, SetValuesAsked
  <2>5. Typed'
    BY <2>1, <2>4 DEF Caller, Typed, UDTPlaces
  <2>6. ErrIsOfLastNamed' /\ ConfigIsGiven'
    BY <2>1, <2>2 DEF Caller, ErrIsOfLastNamed, ConfigIsGiven, ctxOrBackground
  <2> QED BY <1>4, <2>4, <2>5, <2>6 DEF IInv, Caller
<1>6. CASE ~Panics(q.tr, arg0, arg1) /\ ~Found(arg0, arg1)
  <2>1. /\ q' = [q EXCEPT !.err = "bind"] /\ lastBind' = FailedRequest /\ lastNamed' = FALSE
        /\ UNCHANGED <<bound, slice, written, edited, kept, options, chosen, rebound, given>>
    BY <1>6 DEF BindNamed, BindFails, caller, config
  <2>2. q'.err = "bind" /\ q'.strict = q.strict /\ q'.ctx = q.ctx
    BY <2>1 DEF Caller, Typed
  <2>3. Typed'
    BY <1>3, <2>1 DEF Caller, Typed, UDTPlaces
  <2>4. SliceIsOwn' /\ HeldIsAsked'
    BY <1>3, <2>1, <2>2 DEF Caller, SliceIsOwn, HeldIsAsked
  <2>5. ErrIsOfLastNamed' /\ ConfigIsGiven'
    BY <2>1, <2>2 DEF Caller, ErrIsOfLastNamed, ConfigIsGiven, ctxOrBackground
  <2> QED BY <1>4, <2>3, <2>4, <2>5 DEF IInv, Caller
<1>7. CASE Panics(q.tr, arg0, arg1)
  <2>1. UNCHANGED <<q, bound, slice, written, edited, kept, lastBind, lastNamed, rebound,
                    options, chosen, given>>
    BY <1>7 DEF BindNamed, caller, config
  <2>2. Typed'
    BY <2>1 DEF Caller, Typed, UDTPlaces
  <2>3. SliceIsOwn' /\ HeldIsAsked'
    BY <2>1 DEF Caller, SliceIsOwn, HeldIsAsked, BoundFor, SentFor, UDTPlaces
  <2>4. ErrIsOfLastNamed' /\ ConfigIsGiven'
    BY <2>1 DEF Caller, ErrIsOfLastNamed, ConfigIsGiven, ctxOrBackground
  <2> QED BY <1>4, <2>2, <2>3, <2>4 DEF IInv, Caller
<1> QED BY <1>5, <1>6, <1>7

LEMMA NamedBindsKeep ==
    ASSUME Caller, BindStruct \/ BindStructMap \/ BindMap
    PROVE  IInv'
<1>1. /\ q.tr \in Transformers /\ q.strict \in BOOLEAN /\ Len(Names) \in Nat
      /\ NoArg \in AllArgs /\ Args \subseteq AllArgs
  BY NamesAreNames, ArgsAssumption DEF Caller, Typed, NoArg, AllArgs, Numbers
<1>2. ASSUME NEW arg0 \in AllArgs, NEW arg1 \in AllArgs,
             BindNamed(bindStructArgs(q.tr, arg0, arg1), arg0, arg1)
      PROVE  IInv'
  <2> DEFINE r == Request("name", arg0, arg1, Len(Names), q.tr, q.strict)
  <2>1. r \in Requests /\ r.by = "name" /\ r.arg0 = arg0 /\ r.arg1 = arg1 /\ r.tr = q.tr
        /\ r.n = Len(Names)
    BY <1>1 DEF Request, Requests
  <2> HIDE DEF r
  <2>2. Found(arg0, arg1) =>
          /\ Bare(bindStructArgs(q.tr, arg0, arg1))
          /\ Len(bindStructArgs(q.tr, arg0, arg1)) = r.n
          /\ \A i \in 1..r.n : Honours(r, bindStructArgs(q.tr, arg0, arg1)[i], i, written)
    BY <1>1, <2>1, StructIsAsked
  <2> QED BY <1>2, <2>2, BindNamedKeeps DEF r
<1>3. ASSUME NEW arg \in AllArgs, BindNamed(bindMapArgs(q.tr, arg), NoArg, arg)
      PROVE  IInv'
  <2> DEFINE r == Request("name", NoArg, arg, Len(Names), q.tr, q.strict)
  <2>1. r \in Requests /\ r.by = "name" /\ r.arg0 = NoArg /\ r.arg1 = arg /\ r.tr = q.tr
        /\ r.n = Len(Names)
    BY <1>1 DEF Request, Requests
  <2> HIDE DEF r
  <2>2. Found(NoArg, arg) =>
          /\ Bare(bindMapArgs(q.tr, arg)) /\ Len(bindMapArgs(q.tr, arg)) = r.n
          /\ \A i \in 1..r.n : Honours(r, bindMapArgs(q.tr, arg)[i], i, written)
    BY <1>1, <2>1, MapIsAsked
  <2> QED BY <1>1, <1>3, <2>2, BindNamedKeeps DEF r
<1> QED BY <1>1, <1>2, <1>3 DEF BindStruct, BindStructMap, BindMap

LEMMA BindKeeps == ASSUME Caller, Bind PROVE IInv'
<1>1. PICK n \in Lengths, number \in PositionNumbers :
        /\ SetValues(Positional(n, number))
        /\ lastBind' = Request("position", [has |-> {}, number |-> number], NoArg, n,
                               q.tr, q.strict)
  BY DEF Bind
<1> DEFINE r == Request("position", [has |-> {}, number |-> number], NoArg, n,
                        q.tr, q.strict)
<1>2. q.tr \in Transformers /\ q.strict \in BOOLEAN /\ n \in Nat
  BY NamesAreNames DEF Caller, Typed, Lengths
<1>3. r \in Requests /\ r.by = "position" /\ r.n = n /\ r.arg0.number = number
      /\ r.strict = q.strict
      /\ number \in Numbers
  BY <1>2 DEF Request, Requests, NoArg, AllArgs, Numbers, PositionNumbers
<1>4. UNCHANGED <<q, options, chosen, lastNamed, rebound, given>> /\ result' = Nothing
      /\ SetValues(Positional(n, number)) /\ lastBind' = r
  BY <1>1 DEF Bind, config
<1> HIDE DEF r
<1>5. /\ Bare(Positional(n, number)) /\ Len(Positional(n, number)) = r.n
      /\ \A i \in 1..r.n : Honours(r, Positional(n, number)[i], i, written)
  BY <1>2, <1>3, PositionalIsAsked
<1>6. /\ bound' \in Seq(Values) /\ slice' \in Seq(Values) /\ kept' \in BOOLEAN
      /\ lastBind' \in Requests /\ edited' \subseteq UDTPlaces
      /\ written' \in [1..Len(Names) -> PositionNumbers]
      /\ SliceIsOwn' /\ HeldIsAsked'
  BY <1>3, <1>4, <1>5, SetValuesAsked
<1>7. Typed'
  BY <1>4, <1>6 DEF Caller, Typed, UDTPlaces
<1>8. ErrIsOfLastNamed' /\ ConfigIsGiven'
  BY <1>4 DEF Caller, ErrIsOfLastNamed, ConfigIsGiven, ctxOrBackground
<1>9. ResultTyped' /\ ResultTold'
  BY <1>4, NothingIsTold
<1> QED BY <1>6, <1>7, <1>8, <1>9 DEF IInv, Caller

-----------------------------------------------------------------------------
(* The slice that the caller keeps.                                         *)
LEMMA BindSliceKeeps == ASSUME Caller, BindSlice PROVE IInv'
<1> DEFINE r == Request("kept", NoArg, NoArg, Len(Names), q.tr, q.strict)
<1>1. /\ slice' = udtWrapSlice(q.strict, slice) /\ kept' = TRUE /\ bound' = <<>>
      /\ lastBind' = r /\ rebound' = UDTPlaces \ edited /\ edited' = {}
      /\ result' = Nothing /\ UNCHANGED <<q, written, options, chosen, lastNamed, given>>
  BY DEF BindSlice, config
<1>2. q.tr \in Transformers /\ q.strict \in BOOLEAN /\ Len(Names) \in Nat
      /\ slice \in Seq(Values)
  BY NamesAreNames DEF Caller, Typed
<1>3. r \in Requests /\ r.by = "kept" /\ r.n = Len(Names)
      /\ r.strict = q.strict
  BY <1>2 DEF Request, Requests, NoArg, AllArgs, Numbers
<1> HIDE DEF r
<1>4. /\ slice' \in Seq(Values) /\ Len(slice') = Len(slice)
      /\ \A i \in 1..Len(slice) :
           /\ slice'[i].name = slice[i].name /\ slice'[i].from = slice[i].from
           /\ slice'[i].number = slice[i].number /\ slice'[i].unset = slice[i].unset
           /\ slice'[i].wrap = IF IsUDT(slice[i]) /\ slice[i].wrap = "no"
                               THEN IF q.strict THEN "strict" ELSE "lax"
                               ELSE slice[i].wrap
  BY <1>1, <1>2, WrapKeeps
<1>5. SliceIsOwn'
  <2>1. ASSUME NEW i \in 1..Len(Names)
        PROVE  /\ slice'[i].name = Names[i] /\ slice'[i].from = "position"
               /\ slice'[i].number = written[i] /\ slice'[i].unset = FALSE
               /\ IsUDT(slice'[i]) => slice'[i].wrap # "no"
               /\ slice'[i].wrap = "strict" => q.strict
    BY <1>4 DEF Caller, SliceIsOwn, IsUDT
  <2> QED BY <1>1, <1>4, <2>1 DEF Caller, SliceIsOwn, UDTPlaces
<1>6. HeldIsAsked'
  <2>1. ASSUME NEW i \in UDTPlaces, IsUDT(slice'[i])
        PROVE  \/ slice'[i].wrap = Strictness(q.strict)
               \/ i \in UDTPlaces \ edited /\ slice'[i].wrap = "lax"
    <3>2. i \in 1..Len(Names) /\ i \in 1..Len(slice)
      BY DEF Caller, SliceIsOwn, UDTPlaces
    <3>1. /\ IsUDT(slice[i])
          /\ slice[i].wrap = "no" <=> i \in edited
          /\ slice[i].wrap = "strict" => q.strict
      BY <1>4, <2>1, <3>2 DEF Caller, SliceIsOwn, IsUDT
    <3>3. slice[i] \in Values
      BY <1>2, <3>2
    <3>4. slice[i].wrap \in {"no", "lax", "strict"}
      BY <3>3 DEF Values
    <3>5. slice'[i].wrap = IF slice[i].wrap = "no"
                           THEN IF q.strict THEN "strict" ELSE "lax" ELSE slice[i].wrap
      BY <1>4, <3>1, <3>2
    <3> QED BY <3>1, <3>4, <3>5 DEF Strictness
  <2> QED BY <1>1, <1>3, <2>1 DEF HeldIsAsked, UDTPlaces
<1>7. Typed'
  BY <1>1, <1>3, <1>4 DEF Caller, Typed, UDTPlaces
<1>8. ErrIsOfLastNamed' /\ ConfigIsGiven'
  BY <1>1 DEF Caller, ErrIsOfLastNamed, ConfigIsGiven, ctxOrBackground
<1>9. ResultTyped' /\ ResultTold'
  BY <1>1, NothingIsTold
<1> QED BY <1>5, <1>6, <1>7, <1>8, <1>9 DEF IInv, Caller

LEMMA WriteSliceKeeps == ASSUME Caller, WriteSlice PROVE IInv'
<1>1. PICK i \in 1..Len(Names), number \in PositionNumbers :
        /\ slice' = [slice EXCEPT ![i] = Value(Names[i], "position", number)]
        /\ written' = [written EXCEPT ![i] = number]
        /\ edited' = edited \cup (UDTPlaces \cap {i})
  BY DEF WriteSlice
<1>2. UNCHANGED <<q, bound, kept, options, chosen, lastBind, lastNamed, rebound, given>>
      /\ result' = Nothing
  BY DEF WriteSlice, history, config
<1> DEFINE v == Value(Names[i], "position", number)
<1>3. /\ v \in Values /\ v.name = Names[i] /\ v.from = "position" /\ v.number = number
      /\ v.unset = FALSE /\ v.wrap = "no"
  BY NamesAreNames DEF Value, Values, Numbers, PositionNumbers
<1>4. i \in 1..Len(Names) /\ slice \in Seq(Values) /\ Len(slice) = Len(Names)
  BY DEF Caller, Typed, SliceIsOwn, UDTPlaces
<1> HIDE DEF v
<1>5. /\ slice' \in Seq(Values) /\ Len(slice') = Len(Names) /\ slice'[i] = v
      /\ \A j \in 1..Len(Names) : j # i => slice'[j] = slice[j]
      /\ written' \in [1..Len(Names) -> PositionNumbers] /\ written'[i] = number
      /\ \A j \in 1..Len(Names) : j # i => written'[j] = written[j]
  BY <1>1, <1>3, <1>4 DEF v, Caller, Typed
<1>6. SliceIsOwn'
  <2>1. ASSUME NEW j \in 1..Len(Names)
        PROVE  /\ slice'[j].name = Names[j] /\ slice'[j].from = "position"
               /\ slice'[j].number = written'[j] /\ slice'[j].unset = FALSE
               /\ IsUDT(slice'[j]) => (slice'[j].wrap = "no" <=> j \in edited')
               /\ slice'[j].wrap = "strict" => q.strict
    <3>1. CASE j = i
      BY <1>1, <1>3, <1>5, <3>1 DEF IsUDT, UDTPlaces
    <3>2. CASE j # i
      BY <1>1, <1>5, <3>2 DEF Caller, SliceIsOwn
    <3> QED BY <3>1, <3>2
  <2> QED BY <1>2, <1>5, <2>1 DEF SliceIsOwn, UDTPlaces
<1>7. HeldIsAsked'
  <2>1. \A j \in UDTPlaces \ edited' : j \in UDTPlaces \ edited /\ slice'[j] = slice[j]
    BY <1>1, <1>5 DEF UDTPlaces
  <2>2. lastBind.by \in {"name", "position"} => ~kept /\ BoundFor(lastBind, bound)'
    BY <1>2 DEF Caller, HeldIsAsked, BoundFor, SentFor, Honours
  <2> QED BY <1>2, <2>1, <2>2 DEF Caller, HeldIsAsked, UDTPlaces
<1>8. Typed'
  BY <1>1, <1>2, <1>5 DEF Caller, Typed, UDTPlaces
<1>9. ErrIsOfLastNamed' /\ ConfigIsGiven'
  BY <1>2 DEF Caller, ErrIsOfLastNamed, ConfigIsGiven, ctxOrBackground
<1>10. ResultTyped' /\ ResultTold'
  BY <1>2, NothingIsTold
<1> QED BY <1>6, <1>7, <1>8, <1>9, <1>10 DEF IInv, Caller

-----------------------------------------------------------------------------
(* What leaves the values alone.                                            *)
LEMMA SettersKeep ==
    ASSUME Caller,
           Strict \/ WithBindTransformer \/ WithContext \/ SetOption \/ NoSkipMetadata
    PROVE  IInv'
<1>1. UNCHANGED <<bound, slice, written, edited, kept, lastBind, lastNamed, rebound>>
      /\ result' = Nothing
  BY DEF Strict, WithBindTransformer, WithContext, SetOption, NoSkipMetadata, caller, history
<1>2. options' \in OptionValues /\ chosen' = options'
  <2>1. options \in OptionValues /\ chosen = options
    BY DEF Caller, Typed, ConfigIsGiven
  <2>2. CASE SetOption
    <3>1. PICK o \in Options, s \in Settings :
            options' = Configured(o, s) /\ chosen' = [chosen EXCEPT ![o] = s]
      BY <2>2 DEF SetOption
    <3> QED BY <2>1, <3>1, OptionsStayValues DEF OptionNames
  <2>3. CASE NoSkipMetadata
    BY <2>1, <2>3, OptionsStayValues DEF NoSkipMetadata, OptionNames
  <2>4. CASE Strict \/ WithBindTransformer \/ WithContext
    BY <2>1, <2>4 DEF Strict, WithBindTransformer, WithContext, config
  <2> QED BY <2>2, <2>3, <2>4
<1>3. /\ q' \in [err: {"none", "bind"}, tr: Transformers, strict: BOOLEAN,
                 ctx: {<<>>, <<Background>>} \cup {<<c>> : c \in Contexts}]
      /\ q'.err = q.err /\ (q.strict => q'.strict)
      /\ given' = ctxOrBackground(q'.ctx)
  <2>1. CASE Strict
    BY <2>1 DEF Caller, Typed, ConfigIsGiven, ctxOrBackground, Strict, config
  <2>2. CASE WithBindTransformer
    BY <2>2 DEF Caller, Typed, ConfigIsGiven, ctxOrBackground, WithBindTransformer, config
  <2>3. CASE WithContext
    <3>1. PICK ctx \in {<<>>} \cup {<<c>> : c \in Contexts} :
                 /\ q' = [q EXCEPT !.ctx = NewContext(ctx)]
                 /\ given' = ctxOrBackground(ctx)
      BY <2>3 DEF WithContext
    <3>2. NewContext(ctx) \in {<<Background>>} \cup {<<c>> : c \in Contexts}
          /\ ctxOrBackground(NewContext(ctx)) = ctxOrBackground(ctx)
      BY DEF NewContext, ctxOrBackground
    <3> QED BY <3>1, <3>2 DEF Caller, Typed
  <2>4. CASE SetOption \/ NoSkipMetadata
    BY <2>4 DEF Caller, Typed, ConfigIsGiven, ctxOrBackground, SetOption, NoSkipMetadata
  <2> QED BY <2>1, <2>2, <2>3, <2>4
<1>4. Typed'
  BY <1>1, <1>2, <1>3 DEF Caller, Typed, UDTPlaces
<1>5. SliceIsOwn' /\ HeldIsAsked'
  BY <1>1, <1>3 DEF Caller, SliceIsOwn, HeldIsAsked, BoundFor, SentFor, UDTPlaces
<1>6. ErrIsOfLastNamed' /\ ConfigIsGiven'
  BY <1>1, <1>2, <1>3 DEF Caller, ErrIsOfLastNamed, ConfigIsGiven
<1>7. ResultTyped' /\ ResultTold'
  BY <1>1, NothingIsTold
<1> QED BY <1>4, <1>5, <1>6, <1>7 DEF IInv, Caller

(* An execution.                                                            *)
LEMMA ExecutionsKeep == ASSUME Caller, Exec \/ ExecUnchecked PROVE IInv'
<1>1. UNCHANGED <<q, bound, slice, written, edited, kept, lastBind, lastNamed, rebound, given>>
  BY DEF Exec, ExecUnchecked, caller, history
<1>2. PICK op \in Checked \cup Unchecked :
        \/ q.err # "none" /\ Refused(op, q.err) /\ UNCHANGED <<options, chosen>>
        \/ (op \in Checked => q.err = "none") /\ Execute(op)
  BY DEF Exec, ExecUnchecked, Checked, Unchecked
<1>3. /\ ctxOrBackground(q.ctx) = given /\ given \in Contexts \cup {Background}
      /\ Held \in Seq(Values) /\ Held' = Held /\ options \in OptionValues
      /\ chosen = options
      /\ q.err \in {"none", "bind"}
  BY <1>1 DEF Caller, ConfigIsGiven, ctxOrBackground, Typed, Held
<1>4. ASSUME NEW e \in {"bind", "arity", "field"}, Refused(op, e),
             op \in Checked => (e = "bind" <=> q.err = "bind")
      PROVE  ResultTyped' /\ ResultTold'
  <2>1. result' = [op |-> op, err |-> e, values |-> <<>>, options |-> Defaults,
                   ctx |-> given, lacking |-> FALSE]
    BY <1>3, <1>4 DEF Refused, Sent
  <2>2. <<>> \in Seq(Values) /\ Defaults \in OptionValues
    BY OptionsStayValues
  <2>3. ResultTyped'
    BY <1>3, <2>1, <2>2 DEF ResultTyped
  <2>4. ResultTold'
    BY <1>1, <1>4, <2>1 DEF ResultTold, Checked, Unchecked
  <2> QED BY <2>3, <2>4
<1>5. ASSUME op \in Checked => q.err = "none",
             options' = OptionsOf(op),
             Len(Held) = Len(Names), NEW lacking \in BOOLEAN,
             \A i \in UDTPlaces : ~MarshalFails(Held[i], lacking),
             Sent(op, "none", Held, OptionsOf(op), lacking)
      PROVE  ResultTyped' /\ ResultTold'
  <2>1. result' = [op |-> op, err |-> "none", values |-> Held, options |-> options',
                   ctx |-> given, lacking |-> lacking]
    BY <1>3, <1>5 DEF Sent
  <2>2. options' \in OptionValues /\ (op \in CAS => options'["NoSkipMetadata"] = "on")
    BY <1>3, <1>5, OptionsStayValues DEF OptionsOf, OptionNames
  <2>3. ResultTyped'
    BY <1>3, <2>1, <2>2 DEF ResultTyped
  <2>4. result'.values = Held' /\ Len(Held') = Len(Names)
    BY <1>3, <1>5, <2>1
  <2>5. \A i \in UDTPlaces : ~MarshalFails(Held'[i], result'.lacking)
    BY <1>3, <1>5, <2>1
  <2>6. /\ result'.op = op /\ result'.err = "none" /\ result'.ctx = given
        /\ result'.options = options'
    BY <2>1
  <2>7. op # "none" /\ UNCHANGED <<q, given, UDTPlaces>>
    BY <1>1 DEF Checked, Unchecked, UDTPlaces
  <2>8. ResultTold'
    BY <1>1, <1>5, <2>2, <2>4, <2>5, <2>6, <2>7 DEF ResultTold
  <2> QED BY <2>3, <2>8
<1>6. /\ ResultTyped' /\ ResultTold'
      /\ options' \in OptionValues /\ chosen' = options'
  <2>1. CASE q.err # "none" /\ Refused(op, q.err) /\ UNCHANGED <<options, chosen>>
    BY <1>3, <1>4, <2>1
  <2>2. CASE (op \in Checked => q.err = "none") /\ Execute(op)
    <3>1. /\ options' = OptionsOf(op)
          /\ chosen' = [chosen EXCEPT !["NoSkipMetadata"] = IF op \in CAS THEN "on" ELSE @]
      BY <2>2 DEF Execute
    <3>2. options' \in OptionValues /\ chosen' = options'
      <4>1. CASE op \in CAS
        BY <1>3, <3>1, <4>1, OptionsStayValues DEF OptionsOf, OptionNames
      <4>2. CASE op \notin CAS
        BY <1>3, <3>1, <4>2 DEF OptionsOf, OptionValues
      <4> QED BY <4>1, <4>2
    <3> QED BY <1>4, <1>5, <2>2, <3>1, <3>2 DEF Execute
  <2> QED BY <1>2, <2>1, <2>2
<1>7. Typed' /\ SliceIsOwn' /\ HeldIsAsked'
  BY <1>1, <1>6 DEF Caller, Typed, SliceIsOwn, HeldIsAsked, BoundFor, SentFor, UDTPlaces
<1>8. ErrIsOfLastNamed' /\ ConfigIsGiven'
  BY <1>1, <1>6 DEF Caller, ErrIsOfLastNamed, ConfigIsGiven
<1> QED BY <1>6, <1>7, <1>8 DEF IInv, Caller

-----------------------------------------------------------------------------
LEMMA Inductive == Spec => []IInv
<1>1. Init => IInv
  <2> SUFFICES ASSUME Init PROVE IInv
    OBVIOUS
  <2>1. PICK tr \in Transformers, strict \in BOOLEAN, ctx \in {<<>>} \cup {<<c>> : c \in Contexts} :
          /\ q = [err |-> "none", tr |-> tr, strict |-> strict, ctx |-> ctx]
          /\ given = ctxOrBackground(ctx)
    BY DEF Init
  <2>2. /\ bound = <<>> /\ kept = FALSE /\ result = Nothing
        /\ options = Defaults /\ chosen = Defaults
        /\ slice = Positional(Len(Names), 1) /\ written = [i \in 1..Len(Names) |-> 1]
        /\ lastBind = NoRequest /\ lastNamed = TRUE
        /\ edited = UDTPlaces /\ rebound = {}
    BY DEF Init
  <2>3. NoRequest \in Requests /\ NoRequest.by = "none"
    BY DEF NoRequest, Request, Requests, NoArg, AllArgs, Numbers, Transformers
  <2>4. /\ slice \in Seq(Values) /\ Len(slice) = Len(Names)
        /\ \A i \in 1..Len(Names) :
             /\ slice[i].name = Names[i] /\ slice[i].from = "position" /\ slice[i].number = 1
             /\ slice[i].unset = FALSE /\ slice[i].wrap = "no"
    <3> DEFINE r == Request("position", [has |-> {}, number |-> 1], NoArg, Len(Names),
                            "nil", FALSE)
    <3>1. Len(Names) \in Nat /\ 1 \in Numbers
      BY NamesAreNames DEF Numbers
    <3>2. /\ r \in Requests /\ r.by = "position" /\ r.n = Len(Names) /\ r.arg0.number = 1
      BY <3>1 DEF Request, Requests, NoArg, AllArgs, Numbers, Transformers
    <3> HIDE DEF r
    <3>3. /\ Bare(slice) /\ Len(slice) = Len(Names)
          /\ \A i \in 1..Len(Names) : Honours(r, slice[i], i, written)
      BY <2>2, <3>1, <3>2, PositionalIsAsked
    <3> QED BY <3>2, <3>3 DEF Bare, IsBare, NameAt, Honours
  <2>5. Typed
    <3>1. q \in [err: {"none", "bind"}, tr: Transformers, strict: BOOLEAN,
                 ctx: {<<>>, <<Background>>} \cup {<<c>> : c \in Contexts}]
      BY <2>1
    <3>2. <<>> \in Seq(Values) /\ FALSE \in BOOLEAN /\ TRUE \in BOOLEAN
      OBVIOUS
    <3>3. bound \in Seq(Values) /\ kept \in BOOLEAN /\ lastNamed \in BOOLEAN
      BY <2>2, <3>2
    <3>4. options \in OptionValues /\ edited \subseteq UDTPlaces /\ rebound \subseteq UDTPlaces
          /\ written \in [1..Len(Names) -> PositionNumbers]
      BY <2>2, OptionsStayValues DEF PositionNumbers, Numbers, Nil
    <3> QED BY <2>2, <2>3, <2>4, <3>1, <3>3, <3>4 DEF Typed
  <2>6. SliceIsOwn
    BY <2>2, <2>4 DEF SliceIsOwn, IsUDT, UDTPlaces
  <2>7. HeldIsAsked
    BY <2>2, <2>3 DEF HeldIsAsked
  <2>8. ErrIsOfLastNamed /\ ConfigIsGiven
    BY <2>1, <2>2 DEF ErrIsOfLastNamed, ConfigIsGiven
  <2>9. ResultTyped /\ ResultTold
    BY <2>2, OptionsStayValues DEF Nothing, ResultTyped, ResultTold, Checked
  <2> QED BY <2>5, <2>6, <2>7, <2>8, <2>9 DEF IInv, Caller
<1>2. IInv /\ [Next]_vars => IInv'
  <2> SUFFICES ASSUME IInv, [Next]_vars PROVE IInv'
    OBVIOUS
  <2>1. Caller
    BY DEF IInv
  <2>2. CASE Strict \/ WithBindTransformer \/ WithContext \/ SetOption \/ NoSkipMetadata
    BY <2>1, <2>2, SettersKeep
  <2>3. CASE BindSlice
    BY <2>1, <2>3, BindSliceKeeps
  <2>4. CASE WriteSlice
    BY <2>1, <2>4, WriteSliceKeeps
  <2>5. CASE Bind
    BY <2>1, <2>5, BindKeeps
  <2>6. CASE BindStruct \/ BindStructMap \/ BindMap
    BY <2>1, <2>6, NamedBindsKeep
  <2>7. CASE Exec \/ ExecUnchecked
    BY <2>1, <2>7, ExecutionsKeep
  <2>8. CASE UNCHANGED vars
    BY <2>8 DEF vars, caller, history, config, IInv, Caller, Typed, SliceIsOwn, HeldIsAsked, BoundFor,
                SentFor, ErrIsOfLastNamed, ConfigIsGiven, ResultTyped, ResultTold, Held,
                UDTPlaces
  <2> QED BY <2>2, <2>3, <2>4, <2>5, <2>6, <2>7, <2>8 DEF Next
<1> QED BY <1>1, <1>2, PTL DEF Spec

(* The values held, when an execution that checks for errors sends them.    *)
LEMMA SentIsAsked ==
    ASSUME IInv, result.op \in Checked, result.err = "none"
    PROVE  /\ SentFor(lastBind, result.values) /\ result.values = Held
           /\ \/ lastBind.by \in {"name", "position"} /\ ~kept /\ BoundFor(lastBind, bound)
              \/ lastBind.by = "kept" /\ kept
           /\ Len(result.values) = Len(Names)
<1>1. /\ q.err = "none" /\ result.values = Held /\ Len(Held) = Len(Names)
  BY DEF IInv, ResultTold, Checked
<1>2. lastBind.by \in {"none", "failed", "name", "position", "kept"}
      /\ lastBind.by # "failed" /\ Len(Names) > 0
  BY <1>1, NamesAreNames DEF IInv, Caller, Typed, HeldIsAsked, Requests
<1>3. lastBind.by # "none"
  BY <1>1, <1>2 DEF IInv, Caller, HeldIsAsked, Held
<1>4. CASE lastBind.by \in {"name", "position"}
  BY <1>1, <1>4 DEF IInv, Caller, HeldIsAsked, BoundFor, Held
<1>5. CASE lastBind.by = "kept"
  <2>1. kept /\ Held = slice /\ lastBind.n = Len(Names)
    BY <1>5 DEF IInv, Caller, HeldIsAsked, Held
  <2>2. \A i \in 1..Len(slice) : Honours(lastBind, slice[i], i, written)
    BY <1>5, <2>1 DEF IInv, Caller, SliceIsOwn, Honours
  <2> QED BY <1>1, <1>5, <2>1, <2>2 DEF SentFor
<1> QED BY <1>2, <1>3, <1>4, <1>5

-----------------------------------------------------------------------------
(* Every variable holds a value of its kind, and the values of the driver's *)
(* query are in the order of its names.                                     *)
THEOREM TypeCorrect == Spec => []TypeOK
<1>1. IInv => TypeOK
  <2> SUFFICES ASSUME IInv PROVE TypeOK
    OBVIOUS
  <2>1. Typed /\ ResultTyped
    BY DEF IInv, Caller
  <2>2. \A i \in 1..Len(Held) : Held[i].name = IF i <= Len(Names) THEN Names[i] ELSE "extra"
    <3>1. CASE kept
      BY <3>1 DEF IInv, Caller, SliceIsOwn, Held
    <3>2. CASE ~kept
      BY <3>2 DEF IInv, Caller, HeldIsAsked, NameAt, Held
    <3> QED BY <3>1, <3>2
  <2>3. given \in Contexts \cup {Background} /\ {options, chosen} \subseteq OptionValues
    BY DEF IInv, Caller, Typed, ConfigIsGiven, ctxOrBackground
  <2> QED BY <2>1, <2>2, <2>3 DEF Typed, ResultTyped, TypeOK
<1> QED BY <1>1, Inductive, PTL

(* Exec, Get, Select and GetCAS send what the last bind asked for, in the   *)
(* order of the names, and nothing after a bind that failed; of a slice the *)
(* caller keeps, what it last wrote there.                                  *)
THEOREM SentIsTheLastBind == Spec => []SentIsLastBind
<1>1. IInv => SentIsLastBind
  BY SentIsAsked DEF SentIsLastBind
<1> QED BY <1>1, Inductive, PTL

(* They report that the last bind failed, and report a bind error only      *)
(* while no bind by name has succeeded since.                               *)
THEOREM OnlyFailedBindRefuses == Spec => []RefusesOnlyFailedBind
<1>1. IInv => RefusesOnlyFailedBind
  <2> SUFFICES ASSUME IInv, result.op \in Checked
               PROVE  /\ lastBind.by = "failed" => result.err = "bind"
                      /\ result.err = "bind" => ~lastNamed
    BY DEF RefusesOnlyFailedBind
  <2>1. (result.err = "bind" <=> q.err = "bind") /\ (q.err = "none" <=> lastNamed)
    BY DEF IInv, Caller, ResultTold, ErrIsOfLastNamed
  <2>2. lastBind.by = "failed" => q.err = "bind"
    BY DEF IInv, Caller, HeldIsAsked
  <2> QED BY <2>1, <2>2
<1> QED BY <1>1, Inductive, PTL

(* A UDT reaches the driver in a udt as strict as the query was when it was *)
(* bound, but for what a caller did to a slice it has kept.                 *)
THEOREM UDTsAreWrapped == Spec => []UDTsWrapped
<1>1. IInv => UDTsWrapped
  <2> SUFFICES ASSUME IInv, NEW i \in 1..Len(result.values),
                      result.op \in Checked,
                      IsUDT(result.values[i])
               PROVE  \/ result.values[i].wrap = Strictness(lastBind.strict)
                      \/ lastBind.by = "kept" /\ i \in edited /\ result.values[i].wrap = "no"
                      \/ /\ lastBind.by = "kept" /\ i \in rebound \ edited
                         /\ result.values[i].wrap = "lax"
    BY DEF UDTsWrapped, Strictness
  <2>1. result.err = "none"
    BY DEF IInv, ResultTold
  <2>2. /\ result.values = Held /\ Len(Held) = Len(Names)
        /\ \/ lastBind.by \in {"name", "position"} /\ ~kept /\ BoundFor(lastBind, bound)
           \/ lastBind.by = "kept" /\ kept
    BY <2>1, SentIsAsked
  <2>3. CASE lastBind.by \in {"name", "position"} /\ ~kept /\ BoundFor(lastBind, bound)
    BY <2>2, <2>3 DEF BoundFor, Held
  <2>4. CASE lastBind.by = "kept" /\ kept
    <3>1. result.values[i] = slice[i] /\ i \in UDTPlaces
      BY <2>2, <2>4 DEF Held, IInv, Caller, SliceIsOwn, UDTPlaces, IsUDT
    <3> QED BY <2>4, <3>1 DEF IInv, Caller, SliceIsOwn, HeldIsAsked, UDTPlaces
  <2> QED BY <2>2, <2>3, <2>4
<1> QED BY <1>1, Inductive, PTL

(* A query that was strict when a UDT was bound is never sent with a field  *)
(* of the user type silently null.                                          *)
THEOREM StrictReports == Spec => []StrictReportsMissing
<1>1. IInv => StrictReportsMissing
  <2> SUFFICES ASSUME IInv, result.op \in Checked, result.err = "none", result.lacking,
                      lastBind.by # "kept", lastBind.strict,
                      NEW i \in UDTPlaces
               PROVE  ~IsUDT(result.values[i])
    BY DEF StrictReportsMissing
  <2>1. /\ result.values = bound /\ Len(bound) = Len(Names) /\ BoundFor(lastBind, bound)
        /\ result.values = Held
    BY SentIsAsked DEF Held
  <2>2. i \in 1..Len(bound)
    BY <2>1 DEF UDTPlaces
  <2>3. bound[i].wrap # "strict"
    BY <2>1 DEF IInv, ResultTold, MarshalFails, Checked
  <2> QED BY <2>1, <2>2, <2>3 DEF BoundFor, Strictness
<1> QED BY <1>1, Inductive, PTL

(* Every execution runs under the context last given, with each option as   *)
(* it was last set, and a lightweight transaction with the metadata it      *)
(* needs.                                                                   *)
THEOREM SentIsAsConfigured == Spec => []SentAsConfigured
<1>1. IInv => SentAsConfigured
  BY DEF IInv, Caller, ConfigIsGiven, ResultTold, SentAsConfigured
<1> QED BY <1>1, Inductive, PTL
=============================================================================
