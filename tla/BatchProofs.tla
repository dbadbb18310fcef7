---------------------------- MODULE BatchProofs ----------------------------
(* Proofs about Batch: a batch sends what was bound into it, through        *)
(* whichever wrapper.                                                       *)
EXTENDS Batch, TLAPS

-----------------------------------------------------------------------------
(* A value before it is wrapped; a list of them in the order of the names.  *)
IsBare(v, name) == v \in Values /\ v.name = name /\ v.wrap = "no"
NameAt(i) == IF i <= Len(Names) THEN Names[i] ELSE "extra"
Bare(values) ==
    /\ values \in Seq(Values)
    /\ \A i \in 1..Len(values) : IsBare(values[i], NameAt(i))

LEMMA NamesAreNames ==
    /\ Len(Names) \in Nat \ {0}
    /\ \A i \in 1..Len(Names) : Names[i] \in NameSet
BY NamesAssumption DEF NameSet

-----------------------------------------------------------------------------
(* The values of the three ways to bind are the ones that were asked for.   *)
LEMMA PositionalIsAsked ==
    ASSUME NEW n \in Nat, NEW number \in Numbers, NEW r \in Requests, NEW w,
           r.by = "position", r.n = n, r.arg0.number = number
    PROVE  /\ Bare(Positional(n, number)) /\ Len(Positional(n, number)) = r.n
           /\ \A i \in 1..n : Honours(r, Positional(n, number)[i], i, w)
<1> DEFINE p == Positional(n, number)
<1>1. ASSUME NEW i \in 1..n
      PROVE  /\ IsBare(p[i], NameAt(i)) /\ p[i].from = "position" /\ p[i].number = number
             /\ p[i].unset = FALSE
  <2>1. NameAt(i) \in NameSet \cup {"extra"} /\ p[i] = Value(NameAt(i), "position", number)
    BY NamesAreNames DEF NameAt, Positional
  <2> HIDE DEF p
  <2> QED BY <2>1 DEF Value, Values, IsBare
<1>2. p \in Seq(Values) /\ Len(p) = n
  <2>1. \A i \in 1..n : p[i] \in Values
    BY <1>1 DEF IsBare
  <2>2. p = [i \in 1..n |-> p[i]]
    BY DEF Positional
  <2> HIDE DEF p
  <2> QED BY <2>1, <2>2
<1> HIDE DEF p
<1>3. Bare(p)
  BY <1>1, <1>2 DEF Bare
<1>4. \A i \in 1..n : Honours(r, p[i], i, w)
  BY <1>1 DEF Honours
<1> QED BY <1>2, <1>3, <1>4 DEF p

LEMMA StructIsAsked ==
    ASSUME NEW how \in Transformers, NEW arg0 \in AllArgs, NEW arg1 \in AllArgs, NEW w,
           Found(arg0, arg1), NEW r \in Requests,
           r.by = "name", r.arg0 = arg0, r.arg1 = arg1, r.tr = how, r.n = Len(Names)
    PROVE  /\ Bare(bindStructArgs(how, arg0, arg1))
           /\ Len(bindStructArgs(how, arg0, arg1)) = r.n
           /\ \A i \in 1..r.n : Honours(r, bindStructArgs(how, arg0, arg1)[i], i, w)
<1> DEFINE b == bindStructArgs(how, arg0, arg1)
<1>1. ASSUME NEW i \in 1..Len(Names)
      PROVE  IsBare(b[i], NameAt(i)) /\ Honours(r, b[i], i, w)
  <2> DEFINE v == lookup(Names[i], arg0, arg1)
  <2>1. Names[i] \in NameSet /\ NameAt(i) = Names[i] /\ b[i] = transform(how, v)
    BY NamesAreNames DEF NameAt, bindStructArgs
  <2>2. arg0.number \in Numbers /\ arg1.number \in Numbers /\ Names[i] \in arg0.has \cup arg1.has
    BY <2>1 DEF AllArgs, Found
  <2>3. /\ IsBare(v, Names[i]) /\ v.unset = FALSE
        /\ Names[i] \in arg0.has => v.from = "arg0" /\ v.number = arg0.number
        /\ Names[i] \notin arg0.has => v.from = "arg1" /\ v.number = arg1.number
    <3>1. ASSUME NEW from \in {"arg0", "arg1"}, NEW number \in Numbers
          PROVE  /\ IsBare(Value(Names[i], from, number), Names[i])
                 /\ Value(Names[i], from, number).from = from
                 /\ Value(Names[i], from, number).number = number
                 /\ Value(Names[i], from, number).unset = FALSE
      BY <2>1 DEF Value, Values, IsBare
    <3> HIDE DEF b
    <3> QED BY <2>2, <3>1 DEF lookup
  <2> HIDE DEF v, b
  <2>4. /\ IsBare(b[i], Names[i]) /\ b[i].from = v.from /\ b[i].number = v.number
        /\ b[i].unset <=> how = "UnsetEmpty" /\ v.number = 0
    BY <2>1, <2>3
       DEF IsBare, transform, UnsetEmptyTransformer, Values, Transformers, Numbers
  <2> QED BY <2>1, <2>2, <2>3, <2>4 DEF Honours, IsBare
<1>2. b \in Seq(Values) /\ Len(b) = Len(Names)
  BY <1>1, NamesAreNames DEF bindStructArgs, IsBare
<1> HIDE DEF b
<1>3. Bare(b) /\ Len(b) = r.n /\ \A i \in 1..r.n : Honours(r, b[i], i, w)
  BY <1>1, <1>2 DEF Bare
<1> QED BY <1>3 DEF b

LEMMA MapIsAsked ==
    ASSUME NEW how \in Transformers, NEW arg \in AllArgs, NEW w,
           Found(NoArg, arg), NEW r \in Requests,
           r.by = "name", r.arg0 = NoArg, r.arg1 = arg, r.tr = how, r.n = Len(Names)
    PROVE  /\ Bare(bindMapArgs(how, arg)) /\ Len(bindMapArgs(how, arg)) = r.n
           /\ \A i \in 1..r.n : Honours(r, bindMapArgs(how, arg)[i], i, w)
<1>1. NoArg \in AllArgs /\ NoArg.has = {}
  BY DEF NoArg, AllArgs, Numbers
<1>2. ASSUME NEW i \in 1..Len(Names)
      PROVE  lookup(Names[i], NoArg, arg) = Value(Names[i], "arg1", arg.number)
  BY <1>1 DEF lookup
<1>3. bindMapArgs(how, arg) = bindStructArgs(how, NoArg, arg)
  BY <1>2 DEF bindMapArgs, bindStructArgs
<1>4. /\ Bare(bindStructArgs(how, NoArg, arg))
      /\ Len(bindStructArgs(how, NoArg, arg)) = r.n
      /\ \A i \in 1..r.n : Honours(r, bindStructArgs(how, NoArg, arg)[i], i, w)
  BY <1>1, StructIsAsked
<1> QED BY <1>3, <1>4

-----------------------------------------------------------------------------
(* The inductive invariant.                                                 *)

AllSettings == Settings \cup {"default"}
AllAsked == [stmt: Statements, direct: BOOLEAN, request: Requests]
TheBatch == batches[1]
DriverBatch == [entries: Seq(Entries), option: AllSettings]
Wrappers == [batch: {1}, ctx: OptionalContexts]

(* The slice that the caller keeps has the values it last wrote there.      *)
SliceIsOwn ==
    /\ slice \in Seq(Values) /\ Len(slice) = Len(Names)
    /\ written \in [1..Len(Names) -> PositionNumbers]
    /\ \A i \in 1..Len(Names) :
         /\ slice[i].name = Names[i] /\ slice[i].from = "position"
         /\ slice[i].number = written[i] /\ slice[i].unset = FALSE

(* A statement that was asked for.  What its values are depends on the      *)
(* slice of the caller only where they are that slice.                      *)
EntryFor(asked, entry) ==
    /\ entry \in Entries /\ asked \in AllAsked
    /\ entry.stmt = asked.stmt
    /\ ~asked.direct => asked.request.n = Len(Names)
    /\ entry.kept => asked.request.by = "kept" /\ asked.request.n = Len(Names)
    /\ ~entry.kept =>
         /\ asked.request.by \in {"name", "position"}
         /\ Bare(entry.values) /\ Len(entry.values) = asked.request.n
         /\ \A i \in 1..asked.request.n : Honours(asked.request, entry.values[i], i, <<>>)

(* There is one batch of the driver, whatever the number of wrappers; it    *)
(* has a statement for each call that asked for one.                        *)
OneBatch ==
    /\ Len(batches) = 1 /\ batches \in Seq(DriverBatch)
    /\ TheBatch.option = setting
    /\ Len(TheBatch.entries) = Len(queued)
    /\ \A e \in 1..Len(queued) : EntryFor(queued[e], TheBatch.entries[e])

(* Every wrapper is of that batch, with the context it was given.           *)
WrappersShareIt ==
    /\ wrappers \in Seq(Wrappers) /\ given \in Seq(Contexts \cup {Background})
    /\ Len(given) = Len(wrappers)
    /\ \A w \in 1..Len(wrappers) : given[w] = ctxOrBackground(wrappers[w].ctx)

SentTold ==
    \/ sent = NotSent
    \/ \E w \in 1..Len(wrappers) :
         sent = [by |-> w, option |-> setting, ctx |-> given[w],
                 entries |-> [e \in 1..Len(TheBatch.entries) |-> SentOf(TheBatch.entries[e])]]

Typed == tr \in Transformers /\ queued \in Seq(AllAsked) /\ Len(queued) <= MaxBatch

IInv == Typed /\ SliceIsOwn /\ OneBatch /\ WrappersShareIt /\ SentTold

-----------------------------------------------------------------------------
(* Sequences that grow at the end, or have one element.                     *)
LEMMA AppendedTo ==
    ASSUME NEW S, NEW s \in Seq(S), NEW x \in S
    PROVE  /\ Append(s, x) \in Seq(S) /\ Len(Append(s, x)) = Len(s) + 1
           /\ Append(s, x)[Len(s) + 1] = x /\ Len(s) \in Nat
           /\ \A i \in 1..Len(s) : Append(s, x)[i] = s[i]
OBVIOUS

LEMMA OneReplaced ==
    ASSUME NEW S, NEW s \in Seq(S), Len(s) = 1, NEW x \in S
    PROVE  /\ [s EXCEPT ![1] = x] \in Seq(S) /\ Len([s EXCEPT ![1] = x]) = 1
           /\ [s EXCEPT ![1] = x][1] = x
OBVIOUS

LEMMA TheOnly ==
    ASSUME NEW S, NEW s \in Seq(S), Len(s) = 1
    PROVE  s[1] \in S /\ \A b \in 1..Len(s) : b = 1
OBVIOUS

LEMMA Single ==
    ASSUME NEW S, NEW x \in S
    PROVE  <<x>> \in Seq(S) /\ Len(<<x>>) = 1 /\ <<x>>[1] = x
OBVIOUS

(* A statement is added through any wrapper.                                *)
LEMMA QueryAdds ==
    ASSUME Typed, OneBatch, WrappersShareIt, UNCHANGED setting,
           NEW entry, NEW direct, NEW request,
           EntryFor(Asked(entry.stmt, direct, request), entry),
           Query(entry, direct, request)
    PROVE  OneBatch' /\ queued' \in Seq(AllAsked) /\ Len(queued') <= MaxBatch
<1> DEFINE r == Asked(entry.stmt, direct, request)
<1>0. PICK w \in 1..Len(wrappers) :
             batches' = [batches EXCEPT ![wrappers[w].batch].entries = Append(@, entry)]
  BY DEF Query
<1>2. EntryFor(r, entry) /\ Len(queued) < MaxBatch /\ queued' = Append(queued, r)
      /\ r \in AllAsked
  BY DEF Query, EntryFor
<1> HIDE DEF r
<1>1. Len(queued) < MaxBatch /\ queued' = Append(queued, r) /\ queued \in Seq(AllAsked)
  BY <1>2 DEF Typed
<1>3. wrappers[w].batch = 1
  <2>1. wrappers[w] \in Wrappers
    BY DEF WrappersShareIt
  <2> QED BY <2>1 DEF Wrappers
<1>4. batches \in Seq(DriverBatch) /\ Len(batches) = 1 /\ batches[1] \in DriverBatch
  <2>1. batches \in Seq(DriverBatch) /\ Len(batches) = 1
    BY DEF OneBatch
  <2> QED BY <2>1, TheOnly
<1> DEFINE b == [batches[1] EXCEPT !.entries = Append(@, entry)]
<1>5. entry \in Entries
  BY DEF EntryFor
<1>6. /\ b.entries = Append(batches[1].entries, entry) /\ b.option = batches[1].option
      /\ b.entries \in Seq(Entries) /\ b \in DriverBatch
      /\ batches[1].entries \in Seq(Entries)
  <2>1. batches[1].entries \in Seq(Entries) /\ batches[1].option \in AllSettings
    BY <1>4 DEF DriverBatch
  <2>2. Append(batches[1].entries, entry) \in Seq(Entries)
    BY <1>5, <2>1, AppendedTo
  <2> QED BY <1>4, <2>1, <2>2 DEF DriverBatch
<1>7. batches' = [batches EXCEPT ![1] = b]
  BY <1>0, <1>3
<1> HIDE DEF b
<1>8. /\ batches' \in Seq(DriverBatch)
      /\ Len(batches') = 1 /\ batches'[1] = b
  BY <1>4, <1>6, <1>7, OneReplaced, SMTT(30)
<1>9. /\ queued' \in Seq(AllAsked) /\ Len(queued') = Len(queued) + 1
      /\ queued'[Len(queued) + 1] = r
      /\ \A e \in 1..Len(queued) : queued'[e] = queued[e]
  BY <1>1, <1>2, AppendedTo
<1>10. /\ Len(b.entries) = Len(queued) + 1 /\ b.entries[Len(queued) + 1] = entry
       /\ \A e \in 1..Len(queued) : b.entries[e] = batches[1].entries[e]
  <2>1. Len(batches[1].entries) = Len(queued)
    BY DEF OneBatch, TheBatch
  <2> QED BY <1>5, <1>6, <2>1, AppendedTo
<1>11. ASSUME NEW e \in 1..Len(queued') PROVE EntryFor(queued'[e], b.entries[e])
  <2>1. CASE e = Len(queued) + 1
    BY <1>2, <1>9, <1>10, <2>1
  <2>2. CASE e \in 1..Len(queued)
    BY <1>9, <1>10, <2>2 DEF OneBatch, TheBatch
  <2>3. Len(queued) \in Nat
    BY <1>1
  <2> QED BY <1>9, <2>1, <2>2, <2>3
<1>12. OneBatch'
  <2>1. \A e \in 1..Len(queued') : EntryFor(queued'[e], TheBatch'.entries[e])
    BY <1>8, <1>11 DEF TheBatch
  <2>2. TheBatch' = b /\ TheBatch.option = setting
    BY <1>8 DEF TheBatch, OneBatch
  <2>3. Len(TheBatch'.entries) = Len(queued') /\ TheBatch'.option = setting'
    BY <1>6, <1>9, <1>10, <2>2 DEF TheBatch
  <2> QED BY <1>8, <2>1, <2>3 DEF OneBatch, EntryFor
<1>13. Len(queued') <= MaxBatch
  BY <1>1, <1>9, MaxBatchAssumption
<1> QED BY <1>9, <1>12, <1>13

(* The calls that add a statement or return an error.                       *)
LEMMA BindsAdd ==
    ASSUME IInv, sent' = NotSent, UNCHANGED <<tr, wrappers, caller, given, setting>>,
           OneBatch' /\ queued' \in Seq(AllAsked) /\ Len(queued') <= MaxBatch
    PROVE  IInv'
<1>1. slice' = slice /\ written' = written /\ tr' \in Transformers
  BY DEF caller, IInv, Typed
<1>2. WrappersShareIt' /\ SentTold' /\ SliceIsOwn'
  BY <1>1 DEF IInv, WrappersShareIt, SentTold, SliceIsOwn
<1> QED BY <1>1, <1>2 DEF IInv, Typed

LEMMA NothingAdded ==
    ASSUME IInv, UNCHANGED <<batches, queued, setting>>
    PROVE  OneBatch' /\ queued' \in Seq(AllAsked) /\ Len(queued') <= MaxBatch
BY DEF IInv, Typed, OneBatch, TheBatch, EntryFor

(* Values of their own, for a request by name or by position.               *)
LEMMA FreshEntry ==
    ASSUME NEW stmt \in Statements, NEW direct \in BOOLEAN, NEW values, NEW r \in Requests,
           r.by \in {"name", "position"}, ~direct => r.n = Len(Names),
           Bare(values), Len(values) = r.n,
           \A i \in 1..r.n : Honours(r, values[i], i, <<>>)
    PROVE  EntryFor(Asked(Entry(stmt, FALSE, values).stmt, direct, r),
                    Entry(stmt, FALSE, values))
<1> DEFINE x == Entry(stmt, FALSE, values)
           a == Asked(stmt, direct, r)
<1>1. /\ x \in Entries /\ x.stmt = stmt /\ x.kept = FALSE /\ x.values = values
  BY DEF Entry, Entries, Bare
<1>2. a \in AllAsked /\ a.stmt = stmt /\ a.direct = direct /\ a.request = r
  BY DEF Asked, AllAsked
<1> HIDE DEF x, a
<1>3. EntryFor(a, x)
  BY <1>1, <1>2 DEF EntryFor
<1> QED BY <1>1, <1>3 DEF x, a

(* The slice of the caller.                                                 *)
LEMMA KeptEntry ==
    ASSUME NEW stmt \in Statements, NEW direct \in BOOLEAN, NEW r \in Requests,
           r.by = "kept", r.n = Len(Names)
    PROVE  EntryFor(Asked(Entry(stmt, TRUE, <<>>).stmt, direct, r), Entry(stmt, TRUE, <<>>))
<1> DEFINE x == Entry(stmt, TRUE, <<>>)
           a == Asked(stmt, direct, r)
<1>1. /\ x \in Entries /\ x.stmt = stmt /\ x.kept = TRUE
  BY DEF Entry, Entries
<1>2. a \in AllAsked /\ a.stmt = stmt /\ a.direct = direct /\ a.request = r
  BY DEF Asked, AllAsked
<1> HIDE DEF x, a
<1>3. EntryFor(a, x)
  BY <1>1, <1>2 DEF EntryFor
<1> QED BY <1>1, <1>3 DEF x, a

(* A bind by name, found or not.                                            *)
LEMMA BindNamedKeeps ==
    ASSUME IInv, NEW arg0 \in AllArgs, NEW arg1 \in AllArgs, NEW values,
           LET r == RequestOf("name", arg0, arg1, Len(Names)) IN
             Found(arg0, arg1) =>
               /\ Bare(values) /\ Len(values) = r.n
               /\ \A i \in 1..r.n : Honours(r, values[i], i, <<>>),
           BindNamed(values, arg0, arg1)
    PROVE  IInv'
<1> DEFINE r == RequestOf("name", arg0, arg1, Len(Names))
<1>1. r \in Requests /\ r.n = Len(Names) /\ r.by = "name"
  BY NamesAreNames DEF IInv, Typed, RequestOf, Request, Requests
<1>2. sent' = NotSent /\ UNCHANGED <<tr, wrappers, caller, given, setting>>
  BY DEF BindNamed
<1>3. OneBatch' /\ queued' \in Seq(AllAsked) /\ Len(queued') <= MaxBatch
  <2>1. CASE /\ Found(arg0, arg1)
             /\ Query(Entry(Statement, FALSE, values), FALSE, r)
    <3>1. Statement \in Statements /\ Bare(values) /\ Len(values) = r.n
          /\ \A i \in 1..r.n : Honours(r, values[i], i, <<>>)
      BY <2>1 DEF Statements
    <3> HIDE DEF r
    <3>2. EntryFor(Asked(Entry(Statement, FALSE, values).stmt, FALSE, r),
                   Entry(Statement, FALSE, values))
      BY <1>1, <3>1, FreshEntry
    <3> QED BY <1>2, <2>1, <3>2, QueryAdds DEF IInv
  <2>2. CASE UNCHANGED <<batches, queued>>
    BY <1>2, <2>2, NothingAdded
  <2> QED BY <2>1, <2>2 DEF BindNamed
<1> QED BY <1>2, <1>3, BindsAdd

LEMMA NamedBindsKeep ==
    ASSUME IInv, BindStruct \/ BindStructMap \/ BindMap
    PROVE  IInv'
<1>1. tr \in Transformers /\ Len(Names) \in Nat /\ NoArg \in AllArgs /\ Args \subseteq AllArgs
  BY NamesAreNames, ArgsAssumption DEF IInv, Typed, NoArg, AllArgs, Numbers
<1>2. ASSUME NEW arg0 \in AllArgs, NEW arg1 \in AllArgs,
             BindNamed(bindStructArgs(tr, arg0, arg1), arg0, arg1)
      PROVE  IInv'
  <2> DEFINE r == RequestOf("name", arg0, arg1, Len(Names))
  <2>1. r \in Requests /\ r.by = "name" /\ r.arg0 = arg0 /\ r.arg1 = arg1 /\ r.tr = tr
        /\ r.n = Len(Names)
    BY <1>1 DEF RequestOf, Request, Requests
  <2> HIDE DEF r
  <2>2. Found(arg0, arg1) =>
          /\ Bare(bindStructArgs(tr, arg0, arg1))
          /\ Len(bindStructArgs(tr, arg0, arg1)) = r.n
          /\ \A i \in 1..r.n : Honours(r, bindStructArgs(tr, arg0, arg1)[i], i, <<>>)
    <3> DEFINE b == bindStructArgs(tr, arg0, arg1)
    <3>1. tr \in Transformers
      BY <1>1
    <3>2. ASSUME Found(arg0, arg1)
          PROVE  Bare(b) /\ Len(b) = r.n /\ \A i \in 1..r.n : Honours(r, b[i], i, <<>>)
      <4> HIDE DEF b
      <4> QED BY <2>1, <3>1, <3>2, StructIsAsked DEF b
    <3> QED BY <3>2
  <2> QED BY <1>2, <2>2, BindNamedKeeps DEF r
<1>3. ASSUME NEW arg \in AllArgs, BindNamed(bindMapArgs(tr, arg), NoArg, arg)
      PROVE  IInv'
  <2> DEFINE r == RequestOf("name", NoArg, arg, Len(Names))
  <2>1. r \in Requests /\ r.by = "name" /\ r.arg0 = NoArg /\ r.arg1 = arg /\ r.tr = tr
        /\ r.n = Len(Names)
    BY <1>1 DEF RequestOf, Request, Requests
  <2> HIDE DEF r
  <2>2. Found(NoArg, arg) =>
          /\ Bare(bindMapArgs(tr, arg)) /\ Len(bindMapArgs(tr, arg)) = r.n
          /\ \A i \in 1..r.n : Honours(r, bindMapArgs(tr, arg)[i], i, <<>>)
    BY <1>1, <2>1, MapIsAsked
  <2> QED BY <1>1, <1>3, <2>2, BindNamedKeeps DEF r
<1> QED BY <1>1, <1>2, <1>3 DEF BindStruct, BindStructMap, BindMap

(* A request by position, and one for the slice of the caller.              *)
LEMMA PositionRequests ==
    ASSUME tr \in Transformers, NEW n \in Nat, NEW number \in PositionNumbers
    PROVE  LET p == RequestOf("position", Numbered(number), NoArg, n)
               k == RequestOf("kept", NoArg, NoArg, Len(Names))
           IN  /\ p \in Requests /\ p.by = "position" /\ p.n = n /\ p.arg0.number = number
               /\ k \in Requests /\ k.by = "kept" /\ k.n = Len(Names)
               /\ number \in Numbers
BY NamesAreNames
   DEF RequestOf, Request, Requests, Numbered, NoArg, AllArgs, Numbers, PositionNumbers

LEMMA PositionalAdds ==
    ASSUME IInv, UNCHANGED setting, NEW stmt \in Statements, NEW direct \in BOOLEAN,
           NEW n \in Nat, ~direct => n = Len(Names), NEW number \in PositionNumbers,
           Query(Entry(stmt, FALSE, Positional(n, number)), direct,
                 RequestOf("position", Numbered(number), NoArg, n))
    PROVE  OneBatch' /\ queued' \in Seq(AllAsked) /\ Len(queued') <= MaxBatch
<1> DEFINE r == RequestOf("position", Numbered(number), NoArg, n)
<1>1. r \in Requests /\ r.by = "position" /\ r.n = n /\ r.arg0.number = number
      /\ number \in Numbers
  BY PositionRequests DEF IInv, Typed
<1> HIDE DEF r
<1>2. /\ Bare(Positional(n, number)) /\ Len(Positional(n, number)) = r.n
      /\ \A i \in 1..r.n : Honours(r, Positional(n, number)[i], i, <<>>)
  BY <1>1, PositionalIsAsked
<1>3. EntryFor(Asked(Entry(stmt, FALSE, Positional(n, number)).stmt, direct, r),
               Entry(stmt, FALSE, Positional(n, number)))
  BY <1>1, <1>2, FreshEntry
<1>4. Query(Entry(stmt, FALSE, Positional(n, number)), direct, r)
  BY DEF r
<1> QED BY <1>3, <1>4, QueryAdds DEF IInv

LEMMA SliceAdds ==
    ASSUME IInv, UNCHANGED setting, NEW stmt \in Statements, NEW direct \in BOOLEAN,
           Query(Entry(stmt, TRUE, <<>>), direct,
                 RequestOf("kept", NoArg, NoArg, Len(Names)))
    PROVE  OneBatch' /\ queued' \in Seq(AllAsked) /\ Len(queued') <= MaxBatch
<1> DEFINE r == RequestOf("kept", NoArg, NoArg, Len(Names))
<1>1. r \in Requests /\ r.by = "kept" /\ r.n = Len(Names)
  <2>1. 0 \in Nat /\ 1 \in PositionNumbers
    BY DEF PositionNumbers, Numbers
  <2> QED BY <2>1, PositionRequests DEF IInv, Typed
<1> HIDE DEF r
<1>2. EntryFor(Asked(Entry(stmt, TRUE, <<>>).stmt, direct, r), Entry(stmt, TRUE, <<>>))
  BY <1>1, KeptEntry
<1>3. Query(Entry(stmt, TRUE, <<>>), direct, r)
  BY DEF r
<1> QED BY <1>2, <1>3, QueryAdds DEF IInv

LEMMA PositionalBindsKeep ==
    ASSUME IInv, Bind \/ BindSlice \/ DirectQuery
    PROVE  IInv'
<1>1. sent' = NotSent /\ UNCHANGED <<tr, wrappers, caller, given, setting>>
  BY DEF Bind, BindSlice, DirectQuery
<1>2. /\ Lengths \subseteq Nat /\ Statement \in Statements /\ Len(Names) \in Nat
      /\ TRUE \in BOOLEAN /\ FALSE \in BOOLEAN
  BY NamesAreNames DEF Lengths, Statements
<1>3. OneBatch' /\ queued' \in Seq(AllAsked) /\ Len(queued') <= MaxBatch
  <2>1. CASE Bind
    <3>1. PICK n \in Lengths, number \in PositionNumbers :
            \/ /\ RightNumber(n)
               /\ Query(Entry(Statement, FALSE, Positional(n, number)), FALSE,
                        RequestOf("position", Numbered(number), NoArg, Len(Names)))
            \/ ~RightNumber(n) /\ UNCHANGED <<batches, queued>>
      BY <2>1 DEF Bind
    <3>2. CASE /\ RightNumber(n)
               /\ Query(Entry(Statement, FALSE, Positional(n, number)), FALSE,
                        RequestOf("position", Numbered(number), NoArg, Len(Names)))
      <4>1. n = Len(Names)
        BY <3>2 DEF RightNumber
      <4>2. Query(Entry(Statement, FALSE, Positional(n, number)), FALSE,
                  RequestOf("position", Numbered(number), NoArg, n))
        BY <3>2, <4>1
      <4> QED BY <1>1, <1>2, <4>1, <4>2, PositionalAdds
    <3>3. CASE UNCHANGED <<batches, queued>>
      BY <1>1, <3>3, NothingAdded
    <3> QED BY <3>1, <3>2, <3>3
  <2>2. CASE BindSlice
    <3>1. Query(Entry(Statement, TRUE, <<>>), FALSE,
                RequestOf("kept", NoArg, NoArg, Len(Names)))
      BY <2>2 DEF BindSlice
    <3> QED BY <1>1, <1>2, <3>1, SliceAdds
  <2>3. CASE DirectQuery
    <3>1. PICK stmt \in Statements :
            \/ \E n \in Lengths, number \in PositionNumbers :
                 Query(Entry(stmt, FALSE, Positional(n, number)), TRUE,
                       RequestOf("position", Numbered(number), NoArg, n))
            \/ Query(Entry(stmt, TRUE, <<>>), TRUE,
                     RequestOf("kept", NoArg, NoArg, Len(Names)))
      BY <2>3 DEF DirectQuery
    <3>2. CASE \E n \in Lengths, number \in PositionNumbers :
                 Query(Entry(stmt, FALSE, Positional(n, number)), TRUE,
                       RequestOf("position", Numbered(number), NoArg, n))
      <4>1. PICK n \in Lengths, number \in PositionNumbers :
              Query(Entry(stmt, FALSE, Positional(n, number)), TRUE,
                    RequestOf("position", Numbered(number), NoArg, n))
        BY <3>2
      <4>2. n \in Nat /\ (~TRUE => n = Len(Names))
        BY <1>2
      <4> QED BY <1>1, <1>2, <4>1, <4>2, PositionalAdds
    <3>3. CASE Query(Entry(stmt, TRUE, <<>>), TRUE,
                     RequestOf("kept", NoArg, NoArg, Len(Names)))
      BY <1>1, <1>2, <3>3, SliceAdds
    <3> QED BY <3>1, <3>2, <3>3
  <2> QED BY <2>1, <2>2, <2>3
<1> QED BY <1>1, <1>3, BindsAdd

(* The caller writes its slice; no statement of its own changes.            *)
LEMMA WriteSliceKeeps == ASSUME IInv, WriteSlice PROVE IInv'
<1>1. PICK i \in 1..Len(Names), number \in PositionNumbers :
        /\ slice' = [slice EXCEPT ![i] = Value(Names[i], "position", number)]
        /\ written' = [written EXCEPT ![i] = number]
  BY DEF WriteSlice
<1>2. sent' = NotSent /\ UNCHANGED <<tr, batches, wrappers, queued, given, setting>>
  BY DEF WriteSlice
<1> DEFINE v == Value(Names[i], "position", number)
<1>3. /\ v \in Values /\ v.name = Names[i] /\ v.from = "position" /\ v.number = number
      /\ v.unset = FALSE
  BY NamesAreNames DEF Value, Values, Numbers, PositionNumbers
<1>4. slice \in Seq(Values) /\ Len(slice) = Len(Names)
      /\ written \in [1..Len(Names) -> PositionNumbers]
  BY DEF IInv, SliceIsOwn
<1> HIDE DEF v
<1>5. /\ slice' \in Seq(Values) /\ Len(slice') = Len(Names) /\ slice'[i] = v
      /\ \A j \in 1..Len(Names) : j # i => slice'[j] = slice[j]
      /\ written' \in [1..Len(Names) -> PositionNumbers] /\ written'[i] = number
      /\ \A j \in 1..Len(Names) : j # i => written'[j] = written[j]
  BY <1>1, <1>3, <1>4 DEF v
<1>6. SliceIsOwn'
  <2>1. ASSUME NEW j \in 1..Len(Names)
        PROVE  /\ slice'[j].name = Names[j] /\ slice'[j].from = "position"
               /\ slice'[j].number = written'[j] /\ slice'[j].unset = FALSE
    <3>1. CASE j = i
      BY <1>3, <1>5, <3>1
    <3>2. CASE j # i
      BY <1>5, <3>2 DEF IInv, SliceIsOwn
    <3> QED BY <3>1, <3>2
  <2> QED BY <1>5, <2>1 DEF SliceIsOwn
<1>7. OneBatch' /\ queued' \in Seq(AllAsked) /\ Len(queued') <= MaxBatch
  BY <1>2, NothingAdded
<1>8. WrappersShareIt' /\ SentTold' /\ tr' \in Transformers
  BY <1>2 DEF IInv, Typed, WrappersShareIt, SentTold
<1> QED BY <1>6, <1>7, <1>8 DEF IInv, Typed

-----------------------------------------------------------------------------
LEMMA SettersKeep ==
    ASSUME IInv, WithBindTransformer \/ SetOption \/ WithContext
    PROVE  IInv'
<1>1. sent' = NotSent /\ SentTold'
  BY DEF WithBindTransformer, SetOption, WithContext, SentTold
<1>2. CASE WithBindTransformer
  <2>1. tr' \in Transformers /\ UNCHANGED <<batches, wrappers, slice, written, queued, given, setting>>
    BY <1>2 DEF WithBindTransformer, caller
  <2> QED BY <1>1, <2>1 DEF IInv, Typed, SliceIsOwn, OneBatch, TheBatch, WrappersShareIt
<1>3. CASE SetOption
  <2>1. PICK w \in 1..Len(wrappers), s \in Settings :
               batches' = [batches EXCEPT ![wrappers[w].batch].option = s] /\ setting' = s
    BY <1>3 DEF SetOption
  <2>2. UNCHANGED <<tr, wrappers, slice, written, queued, given>>
    BY <1>3 DEF SetOption, caller
  <2>3. wrappers[w] \in Wrappers
    BY DEF IInv, WrappersShareIt
  <2>4. batches \in Seq(DriverBatch) /\ Len(batches) = 1 /\ batches[1] \in DriverBatch
    <3>1. batches \in Seq(DriverBatch) /\ Len(batches) = 1
      BY DEF IInv, OneBatch
    <3> QED BY <3>1, TheOnly
  <2> DEFINE b == [batches[1] EXCEPT !.option = s]
  <2>5. b \in DriverBatch /\ b.entries = batches[1].entries /\ b.option = s
    BY <2>4 DEF DriverBatch, AllSettings
  <2>6. batches' = [batches EXCEPT ![1] = b]
    BY <2>1, <2>3 DEF Wrappers
  <2> HIDE DEF b
  <2>7. batches' \in Seq(DriverBatch) /\ Len(batches') = 1 /\ batches'[1] = b
    BY <2>4, <2>5, <2>6, OneReplaced
  <2>8. OneBatch'
    <3>1. TheBatch' = b /\ b.entries = TheBatch.entries /\ b.option = setting'
      BY <2>1, <2>5, <2>7 DEF TheBatch
    <3> QED BY <2>2, <2>7, <3>1 DEF IInv, OneBatch, EntryFor
  <2> QED BY <1>1, <2>2, <2>8 DEF IInv, Typed, SliceIsOwn, WrappersShareIt
<1>4. CASE WithContext
  <2>1. PICK w \in 1..Len(wrappers), ctx \in OptionalContexts :
               NewWrapper(w, ctx) /\ given' = Append(given, ctxOrBackground(ctx))
    BY <1>4 DEF WithContext
  <2> DEFINE x == Wrapper(wrappers[w].batch, ctx)
             C == Contexts \cup {Background}
             g == ctxOrBackground(ctx)
  <2>2. UNCHANGED <<tr, batches, slice, written, queued, setting>>
        /\ wrappers' = Append(wrappers, x) /\ given' = Append(given, g)
    BY <1>4, <2>1 DEF WithContext, NewWrapper, caller
  <2>3. wrappers \in Seq(Wrappers) /\ wrappers[w] \in Wrappers
        /\ given \in Seq(C) /\ Len(given) = Len(wrappers)
    BY DEF IInv, WrappersShareIt
  <2>4. x \in Wrappers /\ x.ctx = ctx /\ g \in C /\ g = ctxOrBackground(x.ctx)
    BY <2>3 DEF Wrapper, Wrappers, OptionalContexts, ctxOrBackground
  <2> HIDE DEF x, C, g
  <2>5. /\ wrappers' \in Seq(Wrappers) /\ Len(wrappers') = Len(wrappers) + 1
        /\ wrappers'[Len(wrappers) + 1] = x /\ Len(wrappers) \in Nat
        /\ \A v \in 1..Len(wrappers) : wrappers'[v] = wrappers[v]
    <3>1. /\ Append(wrappers, x) \in Seq(Wrappers)
          /\ Len(Append(wrappers, x)) = Len(wrappers) + 1
          /\ Append(wrappers, x)[Len(wrappers) + 1] = x /\ Len(wrappers) \in Nat
          /\ \A v \in 1..Len(wrappers) : Append(wrappers, x)[v] = wrappers[v]
      BY <2>3, <2>4, AppendedTo
    <3> QED BY <2>2, <3>1
  <2>6. /\ given' \in Seq(C) /\ Len(given') = Len(given) + 1
        /\ given'[Len(given) + 1] = g
        /\ \A v \in 1..Len(given) : given'[v] = given[v]
    <3>1. /\ Append(given, g) \in Seq(C)
          /\ Len(Append(given, g)) = Len(given) + 1
          /\ Append(given, g)[Len(given) + 1] = g
          /\ \A v \in 1..Len(given) : Append(given, g)[v] = given[v]
      BY <2>3, <2>4, AppendedTo
    <3> QED BY <2>2, <3>1
  <2>7. WrappersShareIt'
    <3>1. ASSUME NEW v \in 1..Len(wrappers') PROVE given'[v] = ctxOrBackground(wrappers'[v].ctx)
      <4>1. CASE v = Len(wrappers) + 1
        BY <2>3, <2>4, <2>5, <2>6, <4>1
      <4>2. CASE v \in 1..Len(wrappers)
        BY <2>3, <2>5, <2>6, <4>2 DEF IInv, WrappersShareIt
      <4> QED BY <2>5, <4>1, <4>2
    <3>2. given' \in Seq(Contexts \cup {Background}) /\ Len(given') = Len(wrappers')
      BY <2>3, <2>5, <2>6 DEF C
    <3> QED BY <2>5, <3>1, <3>2 DEF WrappersShareIt, ctxOrBackground
  <2> QED BY <1>1, <2>2, <2>7 DEF IInv, Typed, SliceIsOwn, OneBatch, TheBatch
<1> QED BY <1>2, <1>3, <1>4

LEMMA Inductive == Spec => []IInv
<1>1. Init => IInv
  <2> SUFFICES ASSUME Init PROVE IInv
    OBVIOUS
  <2>1. /\ tr \in Transformers /\ batches = <<NewBatch>> /\ sent = NotSent /\ queued = <<>>
        /\ setting = "default" /\ slice = Positional(Len(Names), 1)
        /\ written = [i \in 1..Len(Names) |-> 1]
    BY DEF Init
  <2>2. NewBatch \in DriverBatch /\ NewBatch.entries = <<>> /\ NewBatch.option = "default"
    <3>1. <<>> \in Seq(Entries)
      OBVIOUS
    <3>2. NewBatch.entries = <<>> /\ NewBatch.option = "default"
      BY DEF NewBatch
    <3>3. NewBatch \in [entries: Seq(Entries), option: Settings \cup {"default"}]
      BY <3>1 DEF NewBatch
    <3> QED BY <3>2, <3>3 DEF DriverBatch, AllSettings
  <2>3. PICK ctx \in OptionalContexts :
               wrappers = <<Wrapper(1, ctx)>> /\ given = <<ctxOrBackground(ctx)>>
    BY DEF Init
  <2>4. /\ Wrapper(1, ctx) \in Wrappers /\ Wrapper(1, ctx).ctx = ctx
        /\ ctxOrBackground(ctx) \in Contexts \cup {Background}
    BY DEF Wrapper, Wrappers, OptionalContexts, ctxOrBackground
  <2>5. Typed /\ SentTold
    BY <2>1, MaxBatchAssumption DEF Typed, SentTold
  <2> HIDE DEF NewBatch, Wrapper, ctxOrBackground
  <2>6. OneBatch
    <3>1. batches \in Seq(DriverBatch) /\ Len(batches) = 1 /\ TheBatch = NewBatch
      BY <2>1, <2>2, Single DEF TheBatch
    <3>2. Len(TheBatch.entries) = 0 /\ Len(queued) = 0 /\ TheBatch.option = setting
      BY <2>1, <2>2, <3>1
    <3> QED BY <3>1, <3>2 DEF OneBatch
  <2>7. WrappersShareIt
    BY <2>3, <2>4 DEF WrappersShareIt
  <2>8. SliceIsOwn
    <3> DEFINE r == Request("position", [has |-> {}, number |-> 1], NoArg, Len(Names),
                            "nil", FALSE)
    <3>1. Len(Names) \in Nat /\ 1 \in Numbers /\ 1 \in PositionNumbers
      BY NamesAreNames DEF Numbers, PositionNumbers
    <3>2. r \in Requests /\ r.by = "position" /\ r.n = Len(Names) /\ r.arg0.number = 1
      BY <3>1 DEF Request, Requests, NoArg, AllArgs, Numbers, Transformers
    <3> HIDE DEF r
    <3>3. /\ Bare(slice) /\ Len(slice) = Len(Names)
          /\ \A i \in 1..Len(Names) : Honours(r, slice[i], i, <<>>)
      BY <2>1, <3>1, <3>2, PositionalIsAsked
    <3> QED BY <2>1, <3>1, <3>2, <3>3 DEF SliceIsOwn, Bare, IsBare, NameAt, Honours
  <2> QED BY <2>5, <2>6, <2>7, <2>8 DEF IInv
<1>2. IInv /\ [Next]_vars => IInv'
  <2> SUFFICES ASSUME IInv, [Next]_vars PROVE IInv'
    OBVIOUS
  <2>1. CASE WithBindTransformer \/ SetOption \/ WithContext
    BY <2>1, SettersKeep
  <2>2. CASE BindStruct \/ BindStructMap \/ BindMap
    BY <2>2, NamedBindsKeep
  <2>5. CASE Bind \/ BindSlice \/ DirectQuery
    BY <2>5, PositionalBindsKeep
  <2>6. CASE WriteSlice
    BY <2>6, WriteSliceKeeps
  <2>3. CASE ExecuteBatch
    <3>1. UNCHANGED <<tr, batches, wrappers, slice, written, queued, given, setting>>
      BY <2>3 DEF ExecuteBatch, caller
    <3>2. PICK w \in 1..Len(wrappers) :
            LET batch == batches[wrappers[w].batch]
            IN  sent' = [by |-> w, option |-> batch.option,
                         entries |-> [e \in 1..Len(batch.entries) |-> SentOf(batch.entries[e])],
                         ctx |-> ctxOrBackground(wrappers[w].ctx)]
      BY <2>3 DEF ExecuteBatch
    <3>3. wrappers[w] \in Wrappers /\ given[w] = ctxOrBackground(wrappers[w].ctx)
      BY DEF IInv, WrappersShareIt
    <3>4. sent' = [by |-> w, option |-> setting, ctx |-> given[w],
                   entries |-> [e \in 1..Len(TheBatch.entries) |-> SentOf(TheBatch.entries[e])]]
      BY <3>2, <3>3 DEF Wrappers, TheBatch, IInv, OneBatch
    <3>5. SentTold'
      BY <3>1, <3>4 DEF SentTold, TheBatch, SentOf
    <3> QED BY <3>1, <3>5 DEF IInv, Typed, SliceIsOwn, OneBatch, TheBatch, WrappersShareIt
  <2>4. CASE UNCHANGED vars
    BY <2>4 DEF vars, caller, IInv, Typed, SliceIsOwn, OneBatch, TheBatch, WrappersShareIt,
                SentTold, SentOf
  <2> QED BY <2>1, <2>2, <2>3, <2>4, <2>5, <2>6 DEF Next
<1> QED BY <1>1, <1>2, PTL DEF Spec

(* What an execution has sent, statement by statement.                      *)
LEMMA SentAsAsked ==
    ASSUME IInv, sent.by # 0
    PROVE  /\ sent.by \in 1..Len(wrappers)
           /\ sent.ctx = given[sent.by] /\ sent.option = setting
           /\ sent.entries \in Seq(SentEntries) /\ Len(sent.entries) = Len(queued)
           /\ \A e \in 1..Len(queued) :
                /\ sent.entries[e] \in SentEntries
                /\ sent.entries[e].stmt = queued[e].stmt
                /\ Len(sent.entries[e].values) = queued[e].request.n
                /\ ~queued[e].direct => queued[e].request.n = Len(Names)
                /\ \A i \in 1..queued[e].request.n :
                     /\ Honours(queued[e].request, sent.entries[e].values[i], i, written)
                     /\ sent.entries[e].values[i].name = NameAt(i)
<1>1. sent # NotSent
  BY DEF NotSent
<1>2. PICK w \in 1..Len(wrappers) :
        sent = [by |-> w, option |-> setting, ctx |-> given[w],
                entries |-> [e \in 1..Len(TheBatch.entries) |-> SentOf(TheBatch.entries[e])]]
  BY <1>1 DEF IInv, SentTold
<1> DEFINE all == TheBatch.entries
<1>3. /\ sent.by = w /\ sent.ctx = given[w] /\ sent.option = setting
      /\ sent.entries = [e \in 1..Len(all) |-> SentOf(all[e])]
  BY <1>2
<1>4. all \in Seq(Entries) /\ Len(all) = Len(queued)
      /\ \A e \in 1..Len(queued) : EntryFor(queued[e], all[e])
  <2>1. batches \in Seq(DriverBatch) /\ Len(batches) = 1
    BY DEF IInv, OneBatch
  <2>2. batches[1] \in DriverBatch
    BY <2>1, TheOnly
  <2> QED BY <2>2 DEF IInv, OneBatch, TheBatch, DriverBatch
<1> HIDE DEF all
<1>5. ASSUME NEW e \in 1..Len(queued)
      PROVE  /\ SentOf(all[e]) \in SentEntries
             /\ SentOf(all[e]).stmt = queued[e].stmt
             /\ Len(SentOf(all[e]).values) = queued[e].request.n
             /\ ~queued[e].direct => queued[e].request.n = Len(Names)
             /\ \A i \in 1..queued[e].request.n :
                  /\ Honours(queued[e].request, SentOf(all[e]).values[i], i, written)
                  /\ SentOf(all[e]).values[i].name = NameAt(i)
  <2> DEFINE entry == all[e]
             asked == queued[e]
             s == SentOf(entry)
  <2>1. EntryFor(asked, entry) /\ entry \in Entries
    BY <1>4 DEF EntryFor
  <2>2. s.stmt = entry.stmt /\ s.values = IF entry.kept THEN slice ELSE entry.values
    BY DEF SentOf
  <2>3. s \in SentEntries
    BY <2>1 DEF Entries, SentOf, SentEntries, IInv, SliceIsOwn
  <2> HIDE DEF entry, asked, s
  <2>4. CASE entry.kept
    <3>1. /\ asked.request.by = "kept" /\ asked.request.n = Len(Names)
          /\ s.values = slice /\ s.stmt = asked.stmt /\ Len(slice) = Len(Names)
      BY <2>1, <2>2, <2>4 DEF EntryFor, IInv, SliceIsOwn
    <3>2. ASSUME NEW i \in 1..Len(Names)
          PROVE  Honours(asked.request, slice[i], i, written) /\ slice[i].name = NameAt(i)
      BY <3>1, NamesAreNames DEF Honours, NameAt, IInv, SliceIsOwn
    <3> QED BY <2>3, <3>1, <3>2 DEF s, asked, entry
  <2>5. CASE ~entry.kept
    <3>1. /\ asked.request.by \in {"name", "position"} /\ Bare(entry.values)
          /\ Len(entry.values) = asked.request.n /\ s.values = entry.values
          /\ s.stmt = asked.stmt
          /\ ~asked.direct => asked.request.n = Len(Names)
          /\ \A i \in 1..asked.request.n : Honours(asked.request, entry.values[i], i, <<>>)
      BY <2>1, <2>2, <2>5 DEF EntryFor
    <3>2. ASSUME NEW i \in 1..asked.request.n
          PROVE  Honours(asked.request, s.values[i], i, written) /\ s.values[i].name = NameAt(i)
      <4>1. Honours(asked.request, s.values[i], i, <<>>)
        BY <3>1
      <4>2. Honours(asked.request, s.values[i], i, written)
        BY <3>1, <4>1 DEF Honours
      <4> QED BY <3>1, <4>2 DEF Bare, IsBare
    <3> QED BY <2>3, <3>1, <3>2 DEF s, asked, entry
  <2> QED BY <2>4, <2>5
<1>6. sent.entries \in Seq(SentEntries) /\ Len(sent.entries) = Len(queued)
      /\ \A e \in 1..Len(queued) : sent.entries[e] = SentOf(all[e])
  <2>1. Len(all) \in Nat
    BY <1>4
  <2> QED BY <1>3, <1>4, <1>5, <2>1
<1>7. sent.by \in 1..Len(wrappers) /\ sent.ctx = given[sent.by] /\ sent.option = setting
  BY <1>3
<1> QED BY <1>5, <1>6, <1>7

-----------------------------------------------------------------------------
(* Every variable holds a value of its kind, and every statement that was   *)
(* bound has as many values as the query has names, in their order.         *)
THEOREM TypeCorrect == Spec => []TypeOK
<1>1. IInv => TypeOK
  <2> SUFFICES ASSUME IInv PROVE TypeOK
    OBVIOUS
  <2>1. batches \in Seq(DriverBatch) /\ Len(batches) = 1 /\ batches[1] \in DriverBatch
    <3>1. batches \in Seq(DriverBatch) /\ Len(batches) = 1
      BY DEF IInv, OneBatch
    <3> QED BY <3>1, TheOnly
  <2>2. setting \in AllSettings
    BY <2>1 DEF DriverBatch, IInv, OneBatch, TheBatch
  <2>3. \A b \in 1..Len(batches) :
          batches[b] \in [entries: Seq(Entries), option: Settings \cup {"default"}]
    BY <2>1, TheOnly DEF DriverBatch, AllSettings
  <2>4. \A w \in 1..Len(wrappers) :
          wrappers[w] \in [batch: 1..Len(batches), ctx: OptionalContexts]
    <3> SUFFICES ASSUME NEW w \in 1..Len(wrappers)
                 PROVE  wrappers[w] \in [batch: 1..Len(batches), ctx: OptionalContexts]
      OBVIOUS
    <3>1. wrappers[w] \in Wrappers
      BY DEF IInv, WrappersShareIt
    <3>2. 1 \in 1..Len(batches)
      BY <2>1
    <3> QED BY <3>1, <3>2 DEF Wrappers
  <2>5. sent \in [by: 0..Len(wrappers), entries: Seq(SentEntries),
                 ctx: Contexts \cup {Background}, option: AllSettings]
    <3>1. CASE sent = NotSent
      <4>1. 0 \in 0..Len(wrappers) /\ <<>> \in Seq(SentEntries)
        BY DEF IInv, WrappersShareIt
      <4> QED BY <3>1, <4>1 DEF NotSent, AllSettings
    <3>2. CASE sent # NotSent
      <4>1. PICK w \in 1..Len(wrappers) :
              sent = [by |-> w, option |-> setting, ctx |-> given[w],
                      entries |-> [e \in 1..Len(TheBatch.entries) |->
                                     SentOf(TheBatch.entries[e])]]
        BY <3>2 DEF IInv, SentTold
      <4>2. given[w] \in Contexts \cup {Background} /\ w \in 0..Len(wrappers) /\ w # 0
        BY DEF IInv, WrappersShareIt
      <4>3. sent.entries \in Seq(SentEntries)
        <5>1. sent.by # 0
          BY <4>1, <4>2
        <5> QED BY <5>1, SentAsAsked
      <4> QED BY <2>2, <4>1, <4>2, <4>3
    <3> QED BY <3>1, <3>2
  <2>6. \A e \in 1..Len(sent.entries) :
          LET values == sent.entries[e].values
          IN  ~queued[e].direct =>
                /\ Len(values) = Len(Names)
                /\ \A i \in 1..Len(Names) : values[i].name = Names[i]
    <3>1. CASE sent.by = 0
      <4>1. sent = NotSent
        <5> SUFFICES ASSUME sent # NotSent PROVE FALSE
          OBVIOUS
        <5>1. \E w \in 1..Len(wrappers) : sent.by = w
          BY DEF IInv, SentTold
        <5> QED BY <3>1, <5>1
      <4> QED BY <4>1 DEF NotSent
    <3>2. CASE sent.by # 0
      <4>1. \A i \in 1..Len(Names) : NameAt(i) = Names[i]
        BY NamesAreNames DEF NameAt
      <4> QED BY <3>2, <4>1, SentAsAsked
    <3> QED BY <3>1, <3>2
  <2>7. Typed /\ SliceIsOwn /\ given \in Seq(Contexts \cup {Background})
    BY DEF IInv, WrappersShareIt
  <2> QED BY <2>2, <2>3, <2>4, <2>5, <2>6, <2>7
          DEF TypeOK, Typed, SliceIsOwn, AllSettings, AllAsked
<1> QED BY <1>1, Inductive, PTL

(* A batch sends, in call order, each statement that was bound or added by  *)
(* Query, with the values that call asked for, and of a slice the caller    *)
(* keeps what it last wrote there; under the context of the wrapper and the *)
(* option set last.                                                         *)
THEOREM WhatWasBoundIsSent == Spec => []SendsWhatWasBound
<1>1. IInv => SendsWhatWasBound
  BY SentAsAsked DEF SendsWhatWasBound
<1> QED BY <1>1, Inductive, PTL
=============================================================================
