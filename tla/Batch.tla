------------------------------- MODULE Batch -------------------------------
(***************************************************************************)
(* cqlx.Batch (batchx.go): a wrapper that holds a context beside a pointer *)
(* to the driver's batch.  Batch.WithContext makes a second wrapper around *)
(* the same batch, so that statements added through either are sent by     *)
(* both.  The statements are bound with the names and the transformer of a *)
(* Queryx, whose own error and values play no part; Batch.Query adds any   *)
(* other.                                                                  *)
(*                                                                         *)
(* A caller may keep the slice it passes to Bind or Query with v... and    *)
(* pass it again: the driver's batch holds that slice, not a copy.  UDTs   *)
(* are not wrapped in a batch.                                             *)
(***************************************************************************)
EXTENDS Binding

CONSTANTS
    Contexts,   \* what a program may pass as a context
    Settings,   \* the values of an option of the driver's batch
    MaxBatch,   \* statements in a batch, at most
    MaxWrappers \* Batch values around it, at most

ASSUME MaxBatchAssumption == MaxBatch \in Nat \ {0} /\ MaxWrappers \in Nat

VARIABLES
    tr,         \* the transformer of the query the batch binds with
    batches,    \* the driver's batches
    wrappers,   \* the Batch values: the index of the driver's batch, a context
    slice,      \* the slice the caller keeps
    sent,       \* what the last call was and, if ExecuteBatch, what it sent
    queued,     \* history: what the calls that added a statement asked for
    written,    \* history: what the caller last wrote to each element of the slice
    given,      \* history: the context given to each wrapper
    setting     \* history: the setting last made through any wrapper

caller == <<slice, written>>
vars == <<tr, batches, wrappers, caller, sent, queued, given, setting>>

Background == "background"
(* The statement of the query, and another.                                 *)
Statement == "named"
Statements == {Statement, "other"}

NotSent == [by |-> 0, entries |-> <<>>, ctx |-> Background, option |-> "default"]
NewBatch == [entries |-> <<>>, option |-> "default"]
Wrapper(batch, ctx) == [batch |-> batch, ctx |-> ctx]
OptionalContexts == {<<>>} \cup {<<ctx>> : ctx \in Contexts}

(* Session.Batch leaves the context nil, ContextBatch sets it.              *)
ctxOrBackground(ctx) == IF ctx = <<>> THEN Background ELSE ctx[1]

Init ==
    /\ tr \in Transformers
    /\ batches = <<NewBatch>> /\ sent = NotSent /\ queued = <<>> /\ setting = "default"
    /\ \E ctx \in OptionalContexts :
         wrappers = <<Wrapper(1, ctx)>> /\ given = <<ctxOrBackground(ctx)>>
    /\ slice = Positional(Len(Names), 1) /\ written = [i \in 1..Len(Names) |-> 1]

-----------------------------------------------------------------------------
WithBindTransformer ==
    /\ tr' \in Transformers
    /\ sent' = NotSent
    /\ UNCHANGED <<batches, wrappers, caller, queued, given, setting>>

(* A statement of the driver's batch: its values or, instead of them, the   *)
(* caller's slice.  And what was asked for, by a bind or a direct Query.    *)
Entry(stmt, kept, values) == [stmt |-> stmt, kept |-> kept, values |-> values]
Asked(stmt, direct, request) == [stmt |-> stmt, direct |-> direct, request |-> request]
Numbered(number) == [has |-> {}, number |-> number]
RequestOf(by, arg0, arg1, n) == Request(by, arg0, arg1, n, tr, FALSE)

(* Batch.Query, through any wrapper, appends to the driver's batch.         *)
Query(entry, direct, request) ==
    /\ Len(queued) < MaxBatch
    /\ \E w \in 1..Len(wrappers) :
         batches' = [batches EXCEPT ![wrappers[w].batch].entries = Append(@, entry)]
    /\ queued' = Append(queued, Asked(entry.stmt, direct, request))

(* A program calls it with any statement and any number of values.          *)
DirectQuery ==
    /\ \E stmt \in Statements :
         \/ \E n \in Lengths, number \in PositionNumbers :
              Query(Entry(stmt, FALSE, Positional(n, number)), TRUE,
                    RequestOf("position", Numbered(number), NoArg, n))
         \/ Query(Entry(stmt, TRUE, <<>>), TRUE, RequestOf("kept", NoArg, NoArg, Len(Names)))
    /\ sent' = NotSent
    /\ UNCHANGED <<tr, wrappers, caller, given, setting>>

(* A bind that does not find a name returns an error and adds nothing, nor  *)
(* does one that panics.                                                    *)
BindNamed(args, arg0, arg1) ==
    /\ \/ /\ Found(arg0, arg1) /\ ~Panics(tr, arg0, arg1)
          /\ Query(Entry(Statement, FALSE, args), FALSE,
                   RequestOf("name", arg0, arg1, Len(Names)))
       \/ ~Found(arg0, arg1) /\ UNCHANGED <<batches, queued>>
       \/ Panics(tr, arg0, arg1) /\ UNCHANGED <<batches, queued>>
    /\ sent' = NotSent
    /\ UNCHANGED <<tr, wrappers, caller, given, setting>>

BindStruct == \E arg \in Args :
    BindNamed(bindStructArgs(tr, arg, NoArg), arg, NoArg)
BindStructMap == \E arg0 \in Args, arg1 \in Args :
    BindNamed(bindStructArgs(tr, arg0, arg1), arg0, arg1)
BindMap == \E arg \in Args :
    BindNamed(bindMapArgs(tr, arg), NoArg, arg)

(* Mutant: Batch.Bind, like Queryx.Bind, accepts any number of values.      *)
AnyNumber(n) == TRUE

RightNumber(n) == n = Len(Names)

Bind ==
    /\ \E n \in Lengths, number \in PositionNumbers :
         \/ /\ RightNumber(n)
            /\ Query(Entry(Statement, FALSE, Positional(n, number)), FALSE,
                     RequestOf("position", Numbered(number), NoArg, Len(Names)))
         \/ ~RightNumber(n) /\ UNCHANGED <<batches, queued>>
    /\ sent' = NotSent
    /\ UNCHANGED <<tr, wrappers, caller, given, setting>>

(* Bind of the slice the caller keeps.                                      *)
BindSlice ==
    /\ Query(Entry(Statement, TRUE, <<>>), FALSE, RequestOf("kept", NoArg, NoArg, Len(Names)))
    /\ sent' = NotSent
    /\ UNCHANGED <<tr, wrappers, caller, given, setting>>

(* The caller writes an element of its slice, before or after it is bound.  *)
WriteSlice ==
    /\ \E i \in 1..Len(Names), number \in PositionNumbers :
         /\ slice' = [slice EXCEPT ![i] = Value(Names[i], "position", number)]
         /\ written' = [written EXCEPT ![i] = number]
    /\ sent' = NotSent
    /\ UNCHANGED <<tr, batches, wrappers, queued, given, setting>>

-----------------------------------------------------------------------------
(* Consistency, RetryPolicy and the like set an option of the driver's      *)
(* batch, through any wrapper.                                              *)
SetOption ==
    /\ \E w \in 1..Len(wrappers), s \in Settings :
         /\ batches' = [batches EXCEPT ![wrappers[w].batch].option = s]
         /\ setting' = s
    /\ sent' = NotSent
    /\ UNCHANGED <<tr, wrappers, caller, queued, given>>

(* Mutant: the driver's batch is copied.                                    *)
CopyBatch(w, ctx) ==
    /\ wrappers' = Append(wrappers, Wrapper(Len(batches) + 1, ctx))
    /\ batches' = Append(batches, batches[wrappers[w].batch])

(* The new wrapper shares the driver's batch with w.                        *)
NewWrapper(w, ctx) ==
    /\ wrappers' = Append(wrappers, Wrapper(wrappers[w].batch, ctx))
    /\ UNCHANGED batches

WithContext ==
    /\ Len(wrappers) < MaxWrappers
    /\ \E w \in 1..Len(wrappers), ctx \in OptionalContexts :
         NewWrapper(w, ctx) /\ given' = Append(given, ctxOrBackground(ctx))
    /\ sent' = NotSent
    /\ UNCHANGED <<tr, caller, queued, setting>>

(* What the driver sends for a statement.                                   *)
SentOf(entry) == [stmt |-> entry.stmt,
                  values |-> IF entry.kept THEN slice ELSE entry.values]

(* ExecuteBatch, ExecuteBatchCAS and MapExecuteBatchCAS: the whole batch,   *)
(* under the wrapper's own context; its statements stay in it.              *)
ExecuteBatch ==
    /\ \E w \in 1..Len(wrappers) :
         LET batch == batches[wrappers[w].batch]
         IN  sent' = [by |-> w, option |-> batch.option,
                      entries |-> [e \in 1..Len(batch.entries) |-> SentOf(batch.entries[e])],
                      ctx |-> ctxOrBackground(wrappers[w].ctx)]
    /\ UNCHANGED <<tr, batches, wrappers, caller, queued, given, setting>>

Next ==
    \/ WithBindTransformer \/ SetOption \/ WithContext \/ ExecuteBatch
    \/ BindStruct \/ BindStructMap \/ BindMap \/ Bind \/ DirectQuery
    \/ BindSlice \/ WriteSlice

Spec == Init /\ [][Next]_vars

-----------------------------------------------------------------------------
(* Properties.                                                              *)

Entries == [stmt: Statements, kept: BOOLEAN, values: Seq(Values)]
SentEntries == [stmt: Statements, values: Seq(Values)]

(* Every variable holds a value of its kind, and every statement that was   *)
(* bound has as many values as the query has names, in their order.         *)
TypeOK ==
    /\ tr \in Transformers
    /\ \A b \in 1..Len(batches) :
         batches[b] \in [entries: Seq(Entries), option: Settings \cup {"default"}]
    /\ \A w \in 1..Len(wrappers) :
         wrappers[w] \in [batch: 1..Len(batches), ctx: OptionalContexts]
    /\ slice \in Seq(Values) /\ written \in [1..Len(Names) -> PositionNumbers]
    /\ sent \in [by: 0..Len(wrappers), entries: Seq(SentEntries),
                 ctx: Contexts \cup {Background}, option: Settings \cup {"default"}]
    /\ queued \in Seq([stmt: Statements, direct: BOOLEAN, request: Requests])
    /\ Len(queued) <= MaxBatch
    /\ given \in Seq(Contexts \cup {Background}) /\ setting \in Settings \cup {"default"}
    /\ \A e \in 1..Len(sent.entries) :
         LET values == sent.entries[e].values
         IN  ~queued[e].direct =>
               /\ Len(values) = Len(Names)
               /\ \A i \in 1..Len(Names) : values[i].name = Names[i]

(* A batch sends, in call order, the statement of each bind call that       *)
(* returned nil and of each Query, through whichever wrapper, each with the *)
(* values that call asked for, whatever was done to the query in between;   *)
(* where the caller passed a slice it keeps, with what it last wrote to     *)
(* each element, even after the call (batchx.go:77).  The option set last   *)
(* through any wrapper holds for all, the context given to a wrapper for    *)
(* that one alone.                                                          *)
SendsWhatWasBound ==
    sent.by # 0 =>
        /\ sent.ctx = given[sent.by] /\ sent.option = setting
        /\ Len(sent.entries) = Len(queued)
        /\ \A e \in 1..Len(queued) :
             LET entry == sent.entries[e]
                 r == queued[e].request
             IN  /\ entry.stmt = queued[e].stmt /\ Len(entry.values) = r.n
                 /\ \A i \in 1..r.n : Honours(r, entry.values[i], i, written)

=============================================================================
