------------------------------- MODULE Iterx -------------------------------
(***************************************************************************)
(* One cqlx.Iterx (iterx.go): the wrapper that scans the rows of a paged   *)
(* driver iterator into structs, and the calls that drive it: StructScan,  *)
(* Scan, Get, Select, Close, and Queryx.GetCAS / ExecCAS, which create an  *)
(* iterator of their own.                                                  *)
(*                                                                         *)
(* A call that asks the driver for a row may cross a page boundary, so it  *)
(* is split there: its action runs the code up to the driver's Scan, the   *)
(* driver's answer (a row, a row it cannot unmarshal, a page, a failed     *)
(* page, the end) is a step of its own, and the code after Scan belongs to *)
(* the step that delivers the answer.  A row is its index in the result.   *)
(***************************************************************************)
EXTENDS Naturals, Sequences, FiniteSets

CONSTANTS
    Columns,    \* names a result column may have, appliedColumn aside
    MaxPage,    \* rows in one page, at most
    MaxPages    \* pages in one result, at most

(* The first column of the result of a lightweight transaction.             *)
appliedColumn == "[applied]"

ASSUME ColumnsAssumption ==
    /\ IsFiniteSet(Columns)
    /\ "unset" \notin Columns /\ appliedColumn \notin Columns
ASSUME PagesAssumption == MaxPage \in Nat /\ MaxPages \in Nat \ {0}

VARIABLES
    dtype,      \* the type of the caller's destination: [kind, fields]
    drv,        \* the embedded *gocqlv2.Iter
    it,         \* the fields of the Iterx
    call,       \* the call in progress
    ret,        \* what the last call returned
    out,        \* the slice v that Select is filling
    taken,      \* history: rows the driver has handed out
    delivered,  \* history: rows in the pages received so far
    pages,      \* history: pages received so far
    used,       \* history: some call has used the iterator
    late        \* history: Strict was called after structScan cached its fields

history == <<taken, delivered, pages, used, late>>
vars == <<dtype, drv, it, call, ret, out, history>>

-----------------------------------------------------------------------------
(***************************************************************************)
(* Destinations.  "custom" is a struct whose pointer implements            *)
(* Unmarshaler, UDTUnmarshaler or UDT, "opaque" one without exported       *)
(* fields, "scalar" a type that is not a struct.  A struct may have a      *)
(* field for the verdict of a lightweight transaction as well.  Running    *)
(* StructScan with different struct types on one iterator is documented as *)
(* unsafe, so a behaviour has one dtype.                                   *)
(***************************************************************************)
FieldNames == Columns \cup {appliedColumn}
Kinds == {"struct", "custom", "opaque", "scalar"}
IsStruct == dtype.kind # "scalar"
isScannable == dtype.kind # "struct"
DestTypes == [kind: {"struct", "custom"}, fields: SUBSET FieldNames]
                \cup [kind: {"opaque", "scalar"}, fields: {{}}]

(* What the driver or the wrapper may have met, and what a call may return. *)
Errors == {"none", "query", "page", "row", "pointer", "slice", "type",
           "columns", "missing"}
Returned == Errors \cup {"notfound", "panic"}

CASOps == {"GetCAS", "ExecCAS"}
Ops == {"StructScan", "Scan", "Get", "Select", "Close"} \cup CASOps
Unset == {"unset"}
Idle == [op |-> "idle", direct |-> FALSE, width |-> 0, from |-> 0, fresh |-> FALSE]
Silent == [op |-> "idle", err |-> "none", ok |-> FALSE, applied |-> FALSE,
           rows |-> <<>>, from |-> 0, fresh |-> FALSE]

-----------------------------------------------------------------------------
(***************************************************************************)
(* What the server may answer to the query behind the iterator.  The       *)
(* result of a lightweight transaction has appliedColumn before its other  *)
(* columns (cas), with the value lwt; an applied one has no other.         *)
(***************************************************************************)
FailedAnswer == [cols |-> {}, cas |-> FALSE, lwt |-> FALSE, n |-> 0, pos |-> 0,
                 more |-> FALSE, err |-> "query", closed |-> FALSE]
RowAnswers == [cols: SUBSET Columns, cas: {FALSE}, lwt: {FALSE}, n: 0..MaxPage,
               pos: {0}, more: BOOLEAN, err: {"none"}, closed: {FALSE}]
CASAnswers == [cols: SUBSET Columns, cas: {TRUE}, lwt: BOOLEAN, n: {1},
               pos: {0}, more: {FALSE}, err: {"none"}, closed: {FALSE}]
FirstAnswers ==
    {FailedAnswer}
      \cup {a \in RowAnswers : a.cols = {} => a.n = 0 /\ ~a.more}
      \cup {a \in CASAnswers : a.lwt => a.cols = {}}

(* len(iter.Columns()), and what the driver's Iter.Close and Scan need.     *)
ColumnCount == Cardinality(drv.cols) + (IF drv.cas THEN 1 ELSE 0)

(* Queryx.Iter: a new Iterx inherits the strictness of its query.           *)
NewIterx(strict) == [err |-> "none", fields |-> Unset, bound |-> FALSE,
                     strict |-> strict, structOnly |-> FALSE, applied |-> FALSE]

(* A field for the verdict is left out where the result has no column that  *)
(* would fill it.                                                           *)
Init ==
    /\ dtype \in DestTypes
    /\ drv \in FirstAnswers
    /\ appliedColumn \in dtype.fields => drv.cas
    /\ \E strict \in BOOLEAN : it = NewIterx(strict)
    /\ call = Idle /\ ret = Silent /\ out = <<>>
    /\ taken = 0 /\ delivered = drv.n /\ pages = 1
    /\ used = FALSE /\ late = FALSE

-----------------------------------------------------------------------------
(* The ends of a call.                                                      *)

(* Mutant: Close replaces the wrapper's own error.                          *)
DriverErr(own, driver) == driver

(* Close keeps the first error: the wrapper's own, else the driver's.       *)
CloseErr(own, driver) == IF own = "none" THEN driver ELSE own

(* Mutant: a result without rows is no longer an error.                     *)
EmptyIsFound(err, numRows) == err

checkErrAndNotFound(err, numRows) ==
    IF err # "none" THEN err ELSE IF numRows = 0 THEN "notfound" ELSE "none"

(* Mutant: Select returns the error it had before it closed the iterator.   *)
ErrBeforeClose(own, driver) == own

(* What Get and Select return: both close the iterator before they look at  *)
(* iter.err.                                                                *)
GetErr(own, driver, numRows) == checkErrAndNotFound(CloseErr(own, driver), numRows)
SelectErr(own, driver) == CloseErr(own, driver)

Return(op, err, ok, applied, rows) ==
    ret' = [op |-> op, err |-> err, ok |-> ok, applied |-> applied, rows |-> rows,
            from |-> IF call = Idle THEN taken ELSE call.from,
            fresh |-> IF call = Idle THEN ~used ELSE call.fresh]

Closed(i, d) == /\ it' = [i EXCEPT !.err = CloseErr(i.err, d.err)]
                /\ drv' = [d EXCEPT !.closed = TRUE]

(* The call op is over: i and d are the wrapper and the driver iterator as  *)
(* its last scan left them, ok is what that scan returned, rows what the    *)
(* destination got.                                                         *)
Leave(op, i, d, ok, rows) ==
    /\ call' = Idle /\ out' = <<>>
    /\ \/ /\ op \in {"StructScan", "Scan"}
          /\ it' = i /\ drv' = d
          /\ Return(op, "none", ok, FALSE, rows)
       \/ /\ op = "Get"
          /\ Closed(i, d)
          /\ Return(op, GetErr(i.err, d.err, d.n), ok, FALSE, rows)
       \/ /\ op = "Select"
          /\ Closed(i, d)
          /\ Return(op, SelectErr(i.err, d.err), ok, FALSE, rows)
       \/ /\ op \in CASOps
          /\ Closed(i, d)
          /\ LET err == GetErr(i.err, d.err, d.n)
             IN  Return(op, err, ok, err = "none" /\ i.applied, rows)

Panic(op, i) ==
    /\ it' = i /\ drv' = [drv EXCEPT !.closed = TRUE]
    /\ call' = Idle /\ out' = <<>>
    /\ Return(op, "panic", FALSE, FALSE, <<>>)

-----------------------------------------------------------------------------
(* structScan.                                                              *)

(* TraversalsByName maps each column to the field of its name; which        *)
(* columns have one is all that matters.                                    *)
ResultColumns == drv.cols \cup IF drv.cas THEN {appliedColumn} ELSE {}
Traversals == dtype.fields \cap ResultColumns

(* Mutant: strict mode objects only when no column at all has a field.      *)
AllFieldsMissing(i) == i.strict /\ ~drv.cas /\ Traversals = {}

(* The strict check, which a CAS result is exempt from.                     *)
missingFields(i) == i.strict /\ ~drv.cas /\ Traversals # drv.cols

StrictStop(i) == i.fields = Unset /\ missingFields(i)

(* Mutant: the traversals are cached without allocating the values.         *)
FieldsOnly(i) == IF i.fields # Unset THEN i ELSE [i EXCEPT !.fields = Traversals]

(* The first structScan caches the traversals and allocates iter.values     *)
(* (bound), unless the strict check stops it between the two.               *)
Cached(i) == IF i.fields # Unset THEN i
             ELSE [i EXCEPT !.fields = Traversals, !.bound = TRUE]

(* fieldsByTraversal stores a pointer in values[i] for every mapped column: *)
(* out of range when the values were never allocated.                       *)
OutOfRange(i) == ~i.bound /\ i.fields # {}

(* One scan of the call op: up to the driver's Scan, or to the error that   *)
(* comes before it.                                                         *)
scan(op, i) ==
    /\ it' = i
    /\ call' = [op |-> op, direct |-> TRUE, width |-> 1, from |-> taken, fresh |-> ~used]
    /\ UNCHANGED <<drv, ret, out>>

structScan(op, i) ==
    LET c == Cached(i) IN
    \/ /\ StrictStop(i)
       /\ Leave(op, [i EXCEPT !.fields = Traversals, !.err = "missing"], drv, FALSE, <<>>)
    \/ /\ ~StrictStop(i) /\ ~IsStruct
       /\ Leave(op, [c EXCEPT !.err = "type"], drv, FALSE, <<>>)
    \/ /\ ~StrictStop(i) /\ IsStruct /\ OutOfRange(c)
       /\ Panic(op, c)
    \/ /\ ~StrictStop(i) /\ IsStruct /\ ~OutOfRange(c)
       /\ it' = c
       /\ call' = [op |-> op, direct |-> FALSE, from |-> taken, fresh |-> ~used,
                   width |-> IF c.bound THEN ColumnCount ELSE 0]
       /\ UNCHANGED <<drv, ret, out>>

(* scanAny and scanAll choose between the two, after their type checks.     *)
ScanOrStructScan(op, i) ==
    \/ /\ i.structOnly /\ isScannable /\ ~IsStruct
       /\ Leave(op, [i EXCEPT !.err = "type"], drv, FALSE, <<>>)
    \/ /\ isScannable /\ ~i.structOnly /\ ColumnCount > 1
       /\ Leave(op, [i EXCEPT !.err = "columns"], drv, FALSE, <<>>)
    \/ /\ isScannable /\ ~i.structOnly /\ ColumnCount <= 1
       /\ scan(op, i)
    \/ /\ ~isScannable \/ (i.structOnly /\ IsStruct)
       /\ structScan(op, i)

-----------------------------------------------------------------------------
(* The calls.                                                               *)

Ready == call = Idle /\ ~drv.closed

Begin == /\ Ready
         /\ used' = TRUE
         /\ UNCHANGED <<dtype, taken, delivered, pages, late>>

Strict ==
    /\ Ready /\ ~it.strict
    /\ it' = [it EXCEPT !.strict = TRUE]
    /\ late' = (it.fields # Unset)
    /\ UNCHANGED <<dtype, drv, call, ret, out, taken, delivered, pages, used>>

StructOnly ==
    /\ Ready /\ ~it.structOnly
    /\ it' = [it EXCEPT !.structOnly = TRUE]
    /\ UNCHANGED <<dtype, drv, call, ret, out, history>>

(* A destination that is not a pointer, or is a nil one.                    *)
BadPointer(op) == Leave(op, [it EXCEPT !.err = "pointer"], drv, FALSE, <<>>)

StructScan == Begin /\ (structScan("StructScan", it) \/ BadPointer("StructScan"))

(* Iterx.Scan hands the caller's own destinations to the driver.            *)
Scan ==
    /\ Begin
    /\ it' = it
    /\ \E width \in {ColumnCount, ColumnCount + 1} :
         call' = [op |-> "Scan", direct |-> TRUE, width |-> width, from |-> taken,
                  fresh |-> ~used]
    /\ UNCHANGED <<drv, ret, out>>

Get == Begin /\ (ScanOrStructScan("Get", it) \/ BadPointer("Get"))

Select ==
    /\ Begin
    /\ \/ ScanOrStructScan("Select", it)
       \/ BadPointer("Select")
       \/ Leave("Select", [it EXCEPT !.err = "slice"], drv, FALSE, <<>>)

(* Both create the iterator they scan, so it is one nothing has used;       *)
(* ExecCAS makes it struct-only and scans into &struct{}{}.                 *)
GetCAS == Begin /\ ~used /\ (ScanOrStructScan("GetCAS", it) \/ BadPointer("GetCAS"))

ExecCAS ==
    /\ Begin /\ ~used /\ dtype = [kind |-> "opaque", fields |-> {}]
    /\ ScanOrStructScan("ExecCAS", [it EXCEPT !.structOnly = TRUE])

(* Close may be called again on a closed iterator, and after a panic.       *)
Close ==
    /\ call = Idle
    /\ Closed(it, drv)
    /\ Return("Close", CloseErr(it.err, drv.err), FALSE, FALSE, <<>>)
    /\ used' = TRUE
    /\ UNCHANGED <<dtype, call, out, taken, delivered, pages, late>>

-----------------------------------------------------------------------------
(* The driver's answers to the Scan in progress.                            *)

Waiting == call # Idle
AtPageEnd == drv.pos = drv.n
RowReady == Waiting /\ drv.err = "none" /\ drv.pos < drv.n

(* Mutant: the loop of Select goes on until it meets an error.              *)
LoopUntilError(d) ==
    \/ /\ call.op # "Select" \/ d.err # "none"
       /\ Leave(call.op, it, d, FALSE, out)
    \/ /\ call.op = "Select" /\ d.err = "none"
       /\ UNCHANGED <<drv, it, call, ret, out>>

(* The end of the pages, an earlier error or a failed page: Scan is false.  *)
ScanIsFalse(d) == Leave(call.op, it, d, FALSE, out)

(* Mutant: structScan does not point values[0] at iter.applied.             *)
AppliedUnbound == it.applied

(* values[0] of a CAS result is &iter.applied, unless the struct has a      *)
(* field for that column: then the field gets the verdict, and iter.applied *)
(* stays as it is.                                                          *)
Applied == IF drv.cas /\ ~call.direct /\ appliedColumn \notin it.fields
           THEN drv.lwt ELSE it.applied

(* Mutant: Select scans every row into the same new element.                *)
SharedElement(rows, row) == [k \in 1..Len(rows) + 1 |-> row]

(* Select scans each row into an element of its own and appends it.         *)
Collect(rows, row) == Append(rows, row)

(* A row was scanned: StructScan, Scan and Get are done, Select appends it  *)
(* and scans again (the prelude of structScan does nothing by then).        *)
Row ==
    /\ RowReady /\ call.width = ColumnCount
    /\ LET d == [drv EXCEPT !.pos = @ + 1]
           i == [it EXCEPT !.applied = Applied]
       IN  \/ /\ call.op # "Select"
              /\ Leave(call.op, i, d, TRUE, <<taken + 1>>)
           \/ /\ call.op = "Select"
              /\ out' = Collect(out, taken + 1)
              /\ it' = i /\ drv' = d
              /\ UNCHANGED <<call, ret>>
    /\ taken' = taken + 1
    /\ UNCHANGED <<dtype, delivered, pages, used, late>>

(* The number of destinations is wrong, or a column does not unmarshal.     *)
BadRow ==
    /\ RowReady
    /\ ScanIsFalse([drv EXCEPT !.err = "row"])
    /\ UNCHANGED <<dtype, history>>

(* The driver goes on to the next page, which may be empty.                 *)
NextPage ==
    /\ Waiting /\ drv.err = "none" /\ AtPageEnd /\ drv.more
    /\ pages < MaxPages
    /\ \E n \in 0..MaxPage, more \in BOOLEAN :
         /\ drv' = [drv EXCEPT !.n = n, !.pos = 0, !.more = more]
         /\ delivered' = delivered + n
    /\ pages' = pages + 1
    /\ UNCHANGED <<dtype, it, call, ret, out, taken, used, late>>

(* The fetch fails (timeout, cancelled context, lost node): what is left is *)
(* an iterator with the error, no rows and no columns.                      *)
PageFails ==
    /\ Waiting /\ drv.err = "none" /\ AtPageEnd /\ drv.more
    /\ ScanIsFalse([FailedAnswer EXCEPT !.err = "page"])
    /\ UNCHANGED <<dtype, history>>

End ==
    /\ Waiting
    /\ drv.err # "none" \/ (AtPageEnd /\ ~drv.more)
    /\ ScanIsFalse(drv)
    /\ UNCHANGED <<dtype, history>>

Driver == Row \/ BadRow \/ NextPage \/ PageFails \/ End

Next ==
    \/ Strict \/ StructOnly
    \/ StructScan \/ Scan \/ Get \/ Select \/ GetCAS \/ ExecCAS \/ Close
    \/ Driver

Spec == Init /\ [][Next]_vars
FairSpec == Spec /\ WF_vars(Driver)

-----------------------------------------------------------------------------
(* Properties.                                                              *)

DriverIters == [cols: SUBSET Columns, cas: BOOLEAN, lwt: BOOLEAN, n: Nat, pos: Nat,
                more: BOOLEAN, err: Errors, closed: BOOLEAN]
Iterxs == [err: Errors, fields: (SUBSET FieldNames) \cup {Unset}, bound: BOOLEAN,
           strict: BOOLEAN, structOnly: BOOLEAN, applied: BOOLEAN]
Calls == {Idle} \cup [op: Ops, direct: BOOLEAN, width: Nat, from: Nat, fresh: BOOLEAN]
Results == [op: Ops \cup {"idle"}, err: Returned, ok: BOOLEAN, applied: BOOLEAN,
            rows: Seq(Nat), from: Nat, fresh: BOOLEAN]

InPage(d) == d.pos <= d.n
ValuesAllocated(i) == i.fields # Unset /\ ~i.bound => i.err # "none"

(* Every variable holds a value of its kind, the driver's position stays    *)
(* within its page, and traversals are cached without values only after the *)
(* strict check has failed.                                                 *)
TypeOK ==
    /\ dtype \in DestTypes
    /\ drv \in DriverIters /\ InPage(drv)
    /\ it \in Iterxs /\ ValuesAllocated(it)
    /\ call \in Calls /\ ret \in Results /\ out \in Seq(Nat)
    /\ taken \in Nat /\ delivered \in Nat /\ pages \in Nat
    /\ used \in BOOLEAN /\ late \in BOOLEAN

(* Select returns nil only if the destination got every row the iterator    *)
(* still had when Select was called, in order, across all pages: a page     *)
(* that fails in the middle is never reported as a complete result.         *)
SelectComplete ==
    ret.op = "Select" /\ ret.err = "none" =>
        /\ ret.rows = [k \in 1..(delivered - ret.from) |-> ret.from + k]
        /\ ~drv.more

(* Whatever Select leaves in the destination, error or not, is a gap-free   *)
(* run of the result starting where the iterator stood.                     *)
SelectIsRun ==
    ret.op = "Select" =>
        \A k \in 1..Len(ret.rows) : ret.rows[k] = ret.from + k

(* Get on an iterator nothing has used: nil means the first row is in the   *)
(* destination even if it came in a later page, and ErrNotFound means that  *)
(* the whole result was read without error and has no row.                  *)
GetHonest ==
    ret.op \in {"Get"} \cup CASOps /\ ret.fresh =>
        /\ ret.err = "none" => ret.rows = <<1>>
        /\ ret.err = "notfound" => delivered = 0 /\ ~drv.more /\ drv.err = "none"

(* A call that closes the iterator cannot return nil once the wrapper or    *)
(* the driver has met an error, in this call or an earlier one, since       *)
(* iter.err once set is never cleared.                                      *)
ErrorsSurface ==
    /\ [](ret.op \in {"Get", "Select", "Close"} \cup CASOps /\ drv.closed
            /\ (it.err # "none" \/ drv.err # "none") => ret.err # "none")
    /\ [][it.err # "none" => it'.err # "none"]_vars

(* On an iterator that was strict when structScan first ran, no row is ever *)
(* scanned into a struct that lacks one of its columns; a row of a          *)
(* lightweight transaction is exempt.                                       *)
StrictRespected ==
    [][ (taken' # taken /\ ~call.direct /\ it.strict /\ ~late /\ ~drv.cas)
          => drv.cols \subseteq dtype.fields ]_vars

(* GetCAS and ExecCAS, strict or not and whatever columns the pre-image     *)
(* has, never report as applied what the server did not apply; and into a   *)
(* struct without a field for the verdict they report exactly what it       *)
(* decided.  A destination that takes the verdict itself, by such a field   *)
(* or as a scalar, takes it from the caller of GetCAS (iterx.go:302).       *)
CASVerdict ==
    ret.op \in CASOps /\ ret.err = "none" /\ drv.cas =>
        /\ ret.applied => drv.lwt
        /\ (dtype.kind = "struct" \/ ret.op = "ExecCAS")
             /\ appliedColumn \notin dtype.fields => ret.applied = drv.lwt

(* The abstract view: a call of the code is one of the calls of RowStream,  *)
(* the rows Select has collected are held, and the stream has failed when   *)
(* the wrapper or the driver has an error.                                  *)
KindOf(op) ==
    CASE op = "idle"                 -> "none"
      [] op = "Select"               -> "all"
      [] op = "Close"                -> "close"
      [] op \in {"Get"} \cup CASOps  -> "one"
      [] op \in {"StructScan", "Scan"} -> "next"
AbstractCall == IF ret.err = "panic" THEN "broken" ELSE KindOf(ret.op)

Stream == INSTANCE RowStream WITH
    held   <- Len(out),
    ended  <- drv.err # "none" \/ (drv.pos = drv.n /\ ~drv.more),
    failed <- it.err # "none" \/ drv.err # "none",
    closed <- drv.closed,
    last   <- [kind |-> AbstractCall, rows |-> ret.rows, err |-> ret.err # "none"]

(* Whatever calls are made in whatever order, with pages and failures       *)
(* between, the iterator is a RowStream: over all calls together no row is  *)
(* lost, repeated or out of order, no error is forgotten, and a Select that *)
(* returns nil has them all (iterx.go).                                     *)
IsRowStream == Stream!Spec

(* Every call returns: the loop of Select ends although a result may have   *)
(* empty pages.                                                             *)
CallsReturn == Waiting ~> ~Waiting

-----------------------------------------------------------------------------
(* What the comments of iterx.go promise and the code does not keep; a run  *)
(* of its own refutes it.                                                   *)

(* "Scan returns true if the row was successfully unmarshaled or false      *)
(* [...]" and strict mode reports an error (iterx.go:326, 36): no call      *)
(* panics.                                                                  *)
NoPanic == ret.err # "panic"
=============================================================================
