# A TLA+ model of cqlx

cqlx wraps a Cassandra driver for Go: it binds structs and maps to named query
parameters, scans paged results into structs and slices, builds CQL statements
(`qb`) and derives CRUD statements from a table's metadata (`table`). This
directory holds TLA+ modules for those parts, the TLC configurations that check
them on small instances, and TLAPS proofs of what matters most. Paths below are
relative to `src/`.

## Components

| Component | State | Operations | What is hard | Correct when |
|---|---|---|---|---|
| Result iterator, `iterx.go`, `cqlx.go` | `err`, the cache `fields` / `values`, `strict`, `structOnly`, `applied`; the driver's page and position | `StructScan`, `Scan`, `Get`, `Select`, `Close`, `Strict`, `StructOnly`; `GetCAS`, `ExecCAS` of a query | pages that fail or are empty in the middle of a call; errors known only after `Close`; a cache filled in two steps; any sequence of calls on one iterator | a nil error means the destination is complete; an error met is an error returned; strict mode holds; a lightweight transaction is never reported as applied when it was not; calls return |
| Query, `queryx.go`, `queryx_wrap.go`, `transformer.go` | `err`, `tr`, `strict`, `ctx`; the values and options in the driver's query; the slice given to `Bind` | `Bind`, `BindStruct`, `BindMap`, `BindStructMap`, `WithBindTransformer`, `Strict`, `WithContext`, setters, executions | binds that fail between binds that succeed; errors that outlive their cause; values of an earlier bind; names that repeat; a slice the caller keeps and writes to | what is sent is what the last bind asked for, under the context and options set last; a failed bind is not forgotten |
| Batch, `batchx.go` | the driver's batch, shared; `ctx` of each wrapper; the slice given to `Bind` or `Query` | the four binds, `Query`, `WithContext`, setters, executions | several wrappers around one batch; a failed bind in the middle; a slice the caller keeps and writes to | what is sent is every successful bind and every `Query`, in order, under the wrapper's own context |
| Named query compiler, `queryx.go` | position, name, flag | one case of a `switch` per byte | escapes, the last byte | names and placeholders match, the rest is copied |
| USING clause, `qb/using.go`, `qb/utils.go` | three values, three names | six setters, `writeCql` | zero means "not set"; writing changes the state | each clause is the one last asked for |
| Statement builders, `qb/` | clauses | adding to a clause, `ToCql` | text and names are gathered apart | names are those of the placeholders, in order |
| Batch builder, `qb/batch.go` | texts, names, USING | `Add*`, `ToCql` | prefixes; names of several statements | same, for the batch |
| Table, `table/table.go` | metadata, two slices of comparisons, three statements | statements and builders from them | goroutines share one table and builders keep its slices | the table never changes; goroutines do not see each other |
| UDT wrappers, `udt.go` | mapper and strictness of one value | `MarshalUDT`, `UnmarshalUDT` | values wrapped in the caller's slice, once for all binds | a UDT never reaches the driver unwrapped; strict mode reports what the struct lacks |
| RewriteTable, `dbutil/rewrite.go` | an iterator, an insert query, a map | one loop | an insert that fails half way, perhaps applied; a second call; other writers; a transform that empties a row | nil means that each row was copied; no row mixes two; it ends |
| Schema generator, `cmd/schemagen/` | the keyspace's metadata | filter, resolve, delete, imports, render | passes that look at different tables; a view that shares its base table's metadata, which may be ignored | imports are exact; every type a column has is declared, and no other |
| Session, mapper, `session.go`, `mapper.go` | none of their own | create queries and batches | nothing that changes | - |
| Test support, `cqlxtest/` | `initOnce` | make the keyspace once | failure inside the once | - |

How they interact. `Session.Query` makes a Queryx from a statement and names,
which come from a builder of `qb`, from a `Table` or from `CompileNamedQuery`.
A bind lists values in the order of the names and hands them to the driver's
query; Batch uses a Queryx's names and transformer to bind into its own driver
batch. An execution makes an Iterx, which asks the driver for rows until it has
what the call wants, and closes it. `RewriteTable` is such a program: it takes
rows from one iterator and binds and executes an insert for each. Nothing in the
package starts a goroutine: concurrency is the program's, which shares a `Table`
(and its slices) between goroutines, the driver's, which fetches pages and may
fail at any of them, and that of other clients, who write to the same tables.

## Modules

| Module | Models | Proofs in |
|---|---|---|
| `RowStream` | what is promised of the rows of one query (abstract) | `IterxProofs` |
| `Iterx` | `iterx.go` | `IterxProofs` |
| `Binding`, `Queryx`, `Batch` | `queryx.go`, `queryx_wrap.go`, `transformer.go`, `udt.go`, `batchx.go` | `QueryxProofs`, `BatchProofs` |
| `NamedQuery` | `CompileNamedQuery` | `NamedQueryProofs` |
| `Using`, `UsingClause`, `Builders`, `Statements` | `qb/`, the statements of `table/table.go` | `StatementsProofs` |
| `Table` | the memory that `table/table.go` and `qb` share | `TableProofs` |
| `Rewrite` | `dbutil/rewrite.go` | `RewriteProofs` |
| `Schemagen` | `cmd/schemagen/` | `SchemagenProofs` |

`RowStream` is the abstract specification: rows are taken in order, some are held
by a call in progress, calls return with those they hold and perhaps an error,
and errors are not forgotten. How many rows there are, in which pages and what
goes wrong when is open. `Iterx` implements it, under a refinement mapping
that maps its variables to the detailed state (`held` to `Len(out)`, `ended` and
`failed` to the driver's page and the errors of both sides); `Rewrite` takes its rows through it.

`Iterx` models one iterator. `it` holds the fields of `Iterx` (`fields` as the
set of result columns that have a struct field, `bound` for `values` having been
allocated), `drv` the driver's iterator (columns, rows and position of the page,
whether more pages follow, its error). A call whose code needs a row is split at
the driver's `Scan`: the action `StructScan`, `Get`, `Select`... runs to that
point (through `ScanOrStructScan`, which is `scanAny` and the head of `scanAll`),
and `Row`, `BadRow`, `NextPage`, `PageFails` or `End` is the driver's answer and
the code after it (`Leave`). A row is its index in the result, so that what a
destination holds can be compared with what the server delivered. A destination
type is one of the kinds `isScannable` tells apart, with the columns it has
fields for. Among them may be `[applied]`, the column of the verdict: then the
field's pointer replaces that of `iter.applied` (`Applied`).

`Binding` has the pure parts of binding (`bindStructArgs`, `bindMapArgs`,
`udtWrapSlice`, the transformer, when it panics, whether `MarshalUDT` fails) and the
record of what a bind call asked for; `Queryx` and `Batch` are state machines over
it. A value is known by where it came from and by a number, 0 for the zero value of
its type and `Nil` for no value at all, and by whether it is unset or wrapped.
`Queryx` keeps apart the slice that a caller holds on to and the values of the
driver's query, which may be that very slice (`kept`): `udtWrapSlice` writes its
wrappers there, and the caller may write to any element at any time, before the
bind or after it (`WriteSlice`). In `Batch` a statement may likewise hold the
caller's slice instead of values of its own; the two modules do not share one slice.
What the driver's query holds is looked at when it is sent. `WithContext` replaces
the context in place; `SetOption` stands for the setters that replace how an option
of the driver's query is set, `NoSkipMetadata` for the one that only turns on, which
ExecCAS and GetCAS call too. In `Batch`, `Query` is what all binds end in;
`DirectQuery` is a program's own call, with any statement and any number of values.
`WithContext` makes a new wrapper from any wrapper, and all share the driver's batch,
its statements and its option.

`NamedQuery` is the loop of `CompileNamedQuery`, one action per case, over all
strings of four classes of byte, those the `switch` tells apart: `":"`, letters and
digits, `"_"` and `"."`, all others. The reference it is compared with
(`Statement`, `NamesOf`, `Malformed`) is a definition of a query's meaning by runs of
colons, without a scan.

The text of a statement is the sequence of its parts, each the clause it belongs
to and the names of its placeholders, or the literal of a USING clause, or a column
of a SELECT's or a DELETE's. Text and
names are made apart, as in the code: `Using` has the setters, `formatDuration`
and the two results of `writeCql` (`Clauses` and `Names`) as operators, and
`UsingClause` runs them in any order, by itself (`MCUsing`) and as the clause of
each builder of `Statements`, which instantiates it. `Builders` has the five
`ToCql` and what adds to a clause. `Statements` is a program that takes a builder
(or one of a table), adds clauses in any order, calls the setters of USING, has
it written, goes on, and gathers statements in a batch builder, which has setters
of its own.

`Table` models memory: `heap` holds arrays, a slice is an array and a length, and
`AppendTo` is Go's `append`, in place when the array has room, else in a new
array with room of its own. `New` makes the table's two arrays; `Where` and
`Columns` of a builder keep the slice they are given when they have none
(`KeepOrAppend`). A behaviour's callers are careful, or share slices with spare
room and write into what `Metadata` returned.

`Rewrite` is the loop of `RewriteTable`: `Call` begins, `ScanRow` is one turn up to
the insert (`MapScan`, the transform, the test for an empty map, `BindMap`),
`ExecOK` and `ExecFails` are the insert's round trip, `ScanEnds` and `Close` the
way out. `Fetch` is the driver, which reads rows a page ahead, and `Write` another
client. An insert that fails may have been applied. A cell of a row is known by
the row and version it was written with and by how often the transform changed
it; the transform treats each row in one of five ways. A caller may call again
after an error, so that rows are transformed that were transformed before.

`Schemagen` has one action per pass of `renderTemplate`: `Filter` (ignored names),
`resolveUDTReferences`, `DeleteOrphans`, `Imports` and `Render`. A column's type is
the set of leaves it is made of: a native type, a custom type (which the driver
could not resolve) or a user type. A view has no columns of its own, it shares
those of its base table, so that a table may be ignored and still be rendered.
`file` is what the template declares and uses, after `mapCqlTypeToGoType`.

`MCIterx`, `MCQueryx`, `MCBatch`, `MCUsing`, `MCStatements`, `MCTable` and
`MCSchemagen` give constants values.

## What the runs check

All run with deadlock checking except where the system may stop: the compiler at
the end of its input (`NamedQuery`), the callers of a table when they have added
what they may (`MCTable`), the caller of `RewriteTable` when it has made its calls
(`MCRewrite`), the generator when the file is written (`MCSchemagen`).

| Run | Checks |
|---|---|
| `iterx` | `SelectComplete`: nil from Select means every row the server delivered is there, across pages. `SelectIsRun`: what Select leaves, also with an error, are consecutive rows. `GetHonest`: nil from a fresh Get is the first row, ErrNotFound an empty result that was read to its end. `ErrorsSurface`: no call that closes returns nil after an error. `StrictRespected`: no row goes into a struct that lacks a column in strict mode. `CASVerdict`: GetCAS and ExecCAS never report as applied what was not, and report exactly the server's verdict into a struct without a field for it. `IsRowStream`: it implements `RowStream`, over calls of all kinds. `CallsReturn`: every call returns (liveness). |
| `queryx` | `SentIsLastBind`: Exec, Get, Select and GetCAS send the last bind, whole and alone; of a slice the caller keeps, what it last wrote to each element, also after the bind. `RefusesOnlyFailedBind`: after a bind that failed they report that and send nothing, whatever came since, and they report a bind error only as long as no bind by name has succeeded. `UDTsWrapped`: no UDT is sent unwrapped or with another strictness than at its bind, but for what the property says of a kept slice. `StrictReportsMissing`: what a strict query bound is never sent with a missing field as null. `SentAsConfigured`: every execution has the context given last and each option as it was last set, and metadata is not skipped from the first lightweight transaction on. |
| `batch` | `SendsWhatWasBound`: the statements sent are the binds that succeeded and the direct calls of `Query`, in order, through whichever wrapper, each with the values it asked for (of a kept slice those written last), with the option set last through any wrapper, under the sending wrapper's context. |
| `named_query` | `CompilesToMeaning`, `RejectsMalformed`, for all strings of up to seven bytes. |
| `statements` | `NamesLineUp`: names in the order of placeholders. `ClausesAsAsked`: each clause has all it was given, in order; the columns of a SELECT or a DELETE by name, those of DISTINCT since the last call of `Distinct` before the first Where. `BatchLinesUp`: the same for a batch with and without prefixes, whose builders change after they were added. `LastSetterWins`: whatever the order of setters and writes, each USING clause is the one last asked for; `Dropped` lists the calls for which the code does not do that. `TimeoutKept`: a timeout of a millisecond or more is written once, with an amount, that is within a millisecond of what was set. |
| `table` | `TableImmutable`: no caller changes the table's keys. `BuildersIsolated` and `NoSharedWrite`: careful callers neither see nor race with each other. |
| `rewrite` | `NilMeansCopied`: after nil every row was read in that call and is in the destination, transformed once as it was read or as another writer left it since. `RowsWhole`: a row of either table is one version of that row as a whole, in place too, and what is not inserted stays as its other writers left it. `Returns`: every call ends (liveness). |
| `schemagen` | `ImportsExact`: the packages imported are those used. `ColumnTypesDefined`: a column's user type is declared. `NoOrphans`: no other one is. `NothingLeftOpaque`: no column or field of a user type of the keyspace is left as `any`. |

The `TypeOK` of each module says more than that variables have their kinds: that
values are in the order of the names, that the cache of an iterator is never half
filled without an error, that a row about to be inserted has all its columns and
is the one just delivered.

Four runs end in a counterexample, each against a sentence of the documentation:

- `iterx_no_panic`: `structScan` sets `iter.fields` (iterx.go:268) before the
  strict check can return and `iter.values` (276) after it. The next scan finds
  `fields` set, skips both, and writes to a nil slice.
- `queryx_unchecked`: ExecCAS, Scan and Iter do not look at `q.err`
  (queryx.go:237, 267, 369). After a failed bind they execute the query with the
  values of the bind before.
- `using_timestamp`: `using.TTL` clears `timestampName` (using.go:39), so that
  `TimestampNamed("t").TTL(d)` writes no timestamp.
- `table_spare`: two builders given one slice with spare room append to the same
  cells (select.go:193-197), and one sends the other's condition.

Other disagreements and surprises show in the models as conditions of the
properties; they have no run of their own:

- Strict() after the first StructScan has no effect, the check runs when the
  cache is filled (iterx.go:264-275 against 36); `late` in `StrictRespected`.
- Get on an iterator whose page is used up returns nil and fills nothing, as
  NumRows counts the page (iterx.go:347 against 52); `fresh` in `GetHonest`.
- GetCAS into a destination that is not scanned as a struct, or into a struct that
  has a field for the column `[applied]`, reports an applied transaction as not
  applied: the destination gets the verdict, and `iter.applied` stays false
  (queryx.go:326, iterx.go:302-308 over 277). `CASVerdict` says of these only that
  nothing is reported as applied that was not.
- Bind does not clear the error of a failed bind by name, so that the checked
  executions go on to refuse (queryx.go:229-232), though its comment says that it
  "can also be used to rebind new query arguments to an existing query instance"
  (queryx.go:227-228). `RefusesOnlyFailedBind` leaves open whether they should.
- A slice bound twice with `Bind(v...)` keeps the wrappers, and the strictness, of
  the first time, and what is written to it after a bind is sent unwrapped
  (udt.go:76); the last two cases of `UDTsWrapped`.
- What is written to such a slice after the bind is what is sent, by a query
  (queryx.go:230) and by a batch, for statements added before as well
  (batchx.go:77, 201); `written` in `SentIsLastBind` and `SendsWhatWasBound`.
- UnsetEmptyTransformer panics on a nil value, as the zero reflect.Value has no
  IsZero (transformer.go:27-28); `Panics`. The call then leaves query and batch as
  they were.
- Batch binds do not wrap UDTs (batchx.go:67 against udt.go:17).
- A name that ends the query loses a final `_` or `.`, a final `:` vanishes
  (queryx.go:60-80); `EndsClean`.
- A zero TTL is gone after one ToCql, a TTL of minus one second is zero, the
  epoch and a zero timeout are not written (using.go:34-107); `Dropped`.
- A timeout other than zero that is shorter than a millisecond, and every negative
  one, is written as `USING TIMEOUT ` with nothing behind it (using.go:97-99,
  utils.go:40-60); `TimeoutKept` begins at a millisecond. Timeouts are cut, where the
  comment says "Round the duration to the nearest millisecond" (utils.go:41-47);
  `TimeoutKept` allows either.
- An INSERT with JSON has a placeholder and no name, which shifts a batch's names
  (insert.go:52-57); `JsonInBatch`.
- Distinct replaces the columns of an earlier call as long as there is no WHERE, and
  adds to them afterwards; without columns and before a WHERE it clears them
  (select.go:158-165). `ClausesAsAsked` has it so, in `Discards`.
- Metadata copies a struct, not its slices (table.go:68-71); `careful`.
- RewriteTable returns on a failed insert without closing its iterator
  (rewrite.go:36-38; `ExecFails` leaves `closed` alone). Called again in place, it
  transforms rows that it had transformed before; and it may write an older
  version over what another client wrote meanwhile. `NilMeansCopied` and
  `RowsWhole` promise neither: the row that is left is whole, not necessarily the
  latest. In the model a transform does not change the key of a row, and other
  clients write whole rows.
- The generator deletes a user type that only a field of another user type names
  (schemagen.go:122), and the struct of the latter then refers to a type that is not
  there; `ColumnTypesDefined` speaks of columns only. The import of the `table`
  package, which the template writes always, is unused when nothing is left to
  render; `ImportsExact` speaks of the imports that are collected.

## Bounds

- `iterx`: two columns, so that a struct has all, some or none of them; pages of
  up to two rows, so that a call may stop inside one; three pages, so that an
  empty one may be first, in the middle or last. The length of a sequence of
  calls is not bounded.
- `queryx`: two parameters, one a UDT; a struct or map with both names, one with the
  UDT alone, at zero, and one with the other name alone, as nil, so that any two of
  them are bound together and any one may lack a name; one context beside none and the
  background, one option of two settings beside that of a lightweight transaction.
  Unbounded sequences of calls. That a name may stand for several parameters is
  left to the proofs, which have any list of names.
- `batch`: two parameters, two statements, three wrappers, so that one is made from
  a wrapper that was itself made; one context beside none, one setting beside the
  default. The slice of the caller may be written at any time.
- `named_query`: seven bytes hold a name, an escape and another name, or two
  escapes in a row before a name.
- `statements`: four programs, so that what does not interact is not multiplied:
  two clauses from all kinds with two parameter names and named or literal USING
  clauses; two statements, INSERT or DELETE, in a batch with prefixes and USING
  clauses that have a placeholder; four clauses added to a SELECT, plain or of a
  table, so that `Distinct` is called twice on either side of a Where; the setters
  of USING with durations on both sides of zero, one below a millisecond and one
  with every part. Setters and writes are unbounded.
- `table`: two goroutines, one cell of spare room (more rooms hold the same
  conflict), two additions each: the first can use up the room of a slice, the
  second find it moved.
- `rewrite`: three rows, so that one lies between the first and the last; two
  calls, the second after an error of the first; one write by another client, at
  any time.
- `schemagen`: two tables, one view, two user types, one leaf per column type,
  one native type for each package and one for none. Two leaves (a map, a tuple) add
  the union of what each does alone, and the proofs do not bound them.

The proofs hold for all values of these bounds, for the properties named under
Proofs. In `statements` that is any number of clauses, statements and parameter
names and all durations and times; one call of Columns, GroupBy or Distinct has at
most two columns, and the columns of a table's statements are those of `FromTable`.

## Fairness

Two properties need it. For `CallsReturn`, `FairSpec` of `Iterx` is weakly fair to
`Driver`: the driver answers a `Scan` some time, with a row, a page, an error or the
end; its own timeouts and the query's context see to that. That a result has
finitely many pages is `MaxPages`. For `Returns`, `FairSpec` of `Rewrite` is
weakly fair to `Step`: the driver fetches pages and answers, the server
answers an insert or the driver gives up, and the loop's code goes on. Nothing is
assumed of callers or of other clients.

## Proofs

Assumptions: the named `ASSUME`s of the modules, which TLC evaluates in the runs
(`Columns` finite, sizes natural numbers, names, keys and columns sequences of
names). No bound of a run is assumed.

`IterxProofs`: all safety properties of the run. `TypeOK` is inductive because of
`ValuesAllocated`: `fields` may be set without `values` only together with an
error. `SelectComplete` speaks of the moment of return and is not inductive; its
strengthening `Inherited` adds that the rows delivered are those taken and those
left on the page (`RowsAccounted`), and that a Select in progress holds exactly
the rows taken since it began (`CallHoldsRun`); what it returns follows
(`SelectReturned`). There is a lemma for each way a call ends, and a step per
action. `Outcomes` strengthens the rest: calls of an unused iterator begin
at the first row (`CallIsFresh`), what a call that has returned told its caller
(`GetReturned`, `ErrorsTold`), and what is kept from
one scan to the next: after a strict check that passed the struct has all columns, and
a verdict the iterator keeps is the server's (`CacheKept`).

`IterxIsRowStream` is there too, from the same invariants: the initial states
map to initial states, and each action to a `Hold`, `Exhaust`, `Return` or `Break` of
`RowStream` or to a step that changes nothing there.

`QueryxProofs` and `BatchProofs` begin with the same lemmas on the pure operators of
`Binding`: the values of the three ways to bind are those that were asked for
(`PositionalIsAsked`, `StructIsAsked`, `MapIsAsked`); and wrapping changes nothing but
the wrapper (`WrapKeeps`).
`QueryxProofs`: all properties of the run. The invariant says that the caller's slice is
wrapped exactly where it was bound and not written since (`SliceIsOwn`), that what
the driver's query holds is what the last bind that succeeded asked for
(`HeldIsAsked`), that context and options are those that were given
(`ConfigIsGiven`), and what an execution sent (`ResultTold`). It is needed as the properties
speak of executions only, and a bind may lie any number of calls before.
`BatchProofs`: both properties. There is one batch however many wrappers were made
from whichever (`OneBatch`, `WrappersShareIt`), with a statement for each bind that was
answered with nil and each `Query`. What the values of a statement are depends on the
slice of the caller only where they are that slice (`EntryFor`), so that a write to it
(`SliceIsOwn`) changes those and no others.

`TableProofs`: all properties of the run. `TableNeverChanges` (`Spec => []TableImmutable`) and
`TypeCorrect` follow from `KeysStayFull`, the inductive invariant. That the keys do not change is not
inductive: a step could write behind a shorter slice of the table's array.
`KeysAreFull` adds that every slice a builder keeps of one of the table's arrays
ends where the array ends (`Fits`), so that append finds no room there and moves;
it holds because `New` makes arrays with capacity equal to length. `AppendKeeps` and
its neighbours state for each operation on memory what it keeps.
`BuildersStayIsolated` and `WritesAreNotShared` are about careful callers and need to
know who may write where. `Isolated` divides memory in two: the arrays of the table
and of all callers (`SharedArrays`) are as they were, since every slice of one shows all
of it (`Whole`), and every other array has at most one slice of one builder
(`OnePerArray`). What one call adds (`Adds`) then changes at most the
private array of the slice it adds to, so that whatever lies apart reads as before
(`OthersStay`), and what each builder shows is what was asked for (`AsAsked`).

`RewriteProofs`: `TypeCorrect`, `NilCopies` and `RowsStayWhole`. The invariant follows the loop
(`CallAt`): rows behind the iterator have been dealt with in this call, the row at
hand is the one just delivered, and the map is empty between rows; `RowsKept` says
of every row, in the tables and in the driver, which versions and how many transforms
it can have seen, whoever wrote it, that all cells of
a row have one version, and that a row which is not inserted is as written
(`LeftAlone`).

`NamedQueryProofs`: all properties of the run, for queries of any length. What a
query means up to a byte is a recursive function (`Joined`); that it exists, and
what its value is at each step, is an induction over the length, made with the
least number at which a statement fails (`NumbersAreInductive`). The invariant
`Compiling` says by what the loop is in (outside a name, behind the colon that opened one,
in one) what statement and names it has so far: `OutsideOK`, `OpenedOK`,
`InNameOK`; `ColonsOK` says that the flag is the parity of the colons just read, and
`RejectedOK` that an error means `Malformed`. A name lasts to the one position that is its
`NameEnd`, and it is added there, not before.

`SchemagenProofs`: all properties of the run. The properties speak of the file; the
invariant says after each pass what the passes done so far have established
(`PassesDone`).

`StatementsProofs`: all properties of the run, from the one assumption that durations
and times are integers and clauses those there are (`ProgramsAssumption`). Text and
names of a builder are gathered with `FlattenSeq`, a fold; what it does to one more
element and to a concatenation is again an induction made with least numbers
(`FlattenAppend`, `FlattenConcat`), and everything gathered from a text (its
placeholders, the parts of one clause) is `Collected` in that way. From that follows,
for any builder, what its `ToCql` writes (`WellWritten`): names in the order of the
placeholders, and of each clause what the builder holds. The invariant `Building` adds
that a builder holds what its history of calls asks for (`AsAsked`; of DISTINCT, what
was asked since the last call that discards, `DistinctAsked`, for which a history is cut
at a call and the cut compared with that of a history longer by one call), that its USING
value is what the last setter of each key and the writes since have made of it
(`UsingKept`: a TTL of zero is -1 until it is written; what a later TTL does to a named
timestamp is only said of the others), that a batch holds its additions (`BatchHolds`), and
that what was written last shows all this (`Showing`). It is needed as the properties
speak of what `ToCql` has returned, and it depends on all calls since the builder
was made. There is a lemma for each action.

Every invariant of a passing run is stated by a theorem, and so are the action
properties and the refinement. Not proved, only checked: `CallsReturn` and `Returns`
(liveness is out of the prover's reach).

## Not modelled

- The driver and the reflection mapper are not in the repository; their
  iterators, queries and batches appear as the code uses them, mapped as external.
- Session has no state that changes: `Query`, `ContextQuery`, `Batch` and
  `ContextBatch` are the initial states of `Queryx` and `Batch`.
- `Queryx.Scan` is an execution like `Iter`; that it wraps its destinations is not
  modelled, nor is the walk over the fields of one value by reflection in
  `MarshalUDT` and `UnmarshalUDT`. What a driver's query does after `Release`
  is the driver's.
- One slice that a caller passes to a query and to a batch: what the query wraps in
  it, the batch would send wrapped. Each module has a slice of its own.
- Table's `*Query` methods hand a statement to `Session.Query`; the slice of names
  that Get and Select share when they are called without columns is not in `Table`.
- The text of statements beyond clauses and placeholders, flags without
  placeholders, wording of errors.
- The generator's flags, session and file, the order of columns, and `camelize`: two
  names that become the same Go name would collide, which the compiler of the
  generated file reports.
- Two goroutines that use one builder, one query or one iterator: none of these is
  meant for it, and every field would be a race.
- `cqlxtest`: configuration of the tests, one `CREATE KEYSPACE` inside a
  `sync.Once`, and sample types; it has no behaviour of the library.
- Examples, benchmarks and documentation.

## Plan

Done: `RowStream`, `Iterx` and its refinement, `Binding`, `Queryx`, `Batch`,
`NamedQuery`, `Using`, `Builders`, `Statements`, `Table`, `Rewrite`, `Schemagen`
with their runs, and the proofs named above.

Left, in this order:

1. `Table`: the names of Get and Select, which all their callers share, as a slice,
   and that nobody writes to them, with the same invariant (`Fits`).
2. `Statements` implements `UsingClause` for the builder at hand, as a refinement:
   a new builder would have to be a step of it.
3. `Statements`: the flags that change the order of clauses.
