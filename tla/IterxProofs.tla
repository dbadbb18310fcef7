---------------------------- MODULE IterxProofs ----------------------------
(* Proofs about Iterx for every set of columns and every size and number of *)
(* pages: the type invariant, that Select returns nil only with the         *)
(* complete rest of the result, what the calls report (Get, the verdict of  *)
(* a lightweight transaction, errors, and strict mode), and that an Iterx   *)
(* is a RowStream.                                                          *)
EXTENDS Iterx, FiniteSetTheorems, SequenceTheorems, TLAPS

-----------------------------------------------------------------------------
(* The column of the verdict is not what stands for a cache without fields. *)
LEMMA NotUnset == appliedColumn # "unset" /\ appliedColumn \notin Unset
BY Zenon DEF appliedColumn, Unset

(* The number of destinations a row needs is a number.                      *)
LEMMA ColumnCountNat ==
    ASSUME TypeOK
    PROVE  ColumnCount \in Nat
<1>1. drv.cols \subseteq Columns /\ drv.cas \in BOOLEAN
  BY DEF TypeOK, DriverIters
<1>2. Cardinality(drv.cols) \in Nat
  BY <1>1, ColumnsAssumption, FS_Subset, FS_CardinalityType
<1> QED
  BY <1>1, <1>2 DEF ColumnCount

(* The error a call returns is one of the errors there are.                 *)
LEMMA ErrType ==
    ASSUME NEW own \in Errors, NEW driver \in Errors, NEW numRows \in Nat
    PROVE  /\ CloseErr(own, driver) \in Errors
           /\ SelectErr(own, driver) \in Errors
           /\ GetErr(own, driver, numRows) \in Errors \cup {"notfound"}
BY DEF CloseErr, SelectErr, GetErr, checkErrAndNotFound, Errors

LEMMA ReturnType ==
    ASSUME TypeOK, NEW op \in Ops, NEW e \in Returned, NEW ok \in BOOLEAN,
           NEW applied \in BOOLEAN, NEW rows \in Seq(Nat),
           Return(op, e, ok, applied, rows)
    PROVE  ret' \in Results
<1> DEFINE from == IF call = Idle THEN taken ELSE call.from
           fresh == IF call = Idle THEN ~used ELSE call.fresh
<1>1. from \in Nat /\ fresh \in BOOLEAN
  BY DEF TypeOK, Calls, Idle
<1> QED BY <1>1 DEF Return, Results

(* A call that returns leaves values of the right kind behind.              *)
LEMMA LeaveType ==
    ASSUME TypeOK,
           NEW op \in Ops, NEW i \in Iterxs, NEW d \in DriverIters,
           NEW ok \in BOOLEAN, NEW rows \in Seq(Nat),
           InPage(d), ValuesAllocated(i),
           Leave(op, i, d, ok, rows)
    PROVE  /\ drv' \in DriverIters /\ InPage(drv)'
           /\ it' \in Iterxs /\ ValuesAllocated(it)'
           /\ call' \in Calls /\ ret' \in Results /\ out' \in Seq(Nat)
           /\ call' = Idle /\ out' = <<>>
<1>2. call' = Idle /\ out' = <<>> /\ call' \in Calls /\ out' \in Seq(Nat)
  BY DEF Leave, Idle, Calls
<1>3. i.err \in Errors /\ d.err \in Errors /\ d.n \in Nat /\ i.applied \in BOOLEAN
  BY DEF Iterxs, DriverIters
<1>4. \/ it' = i /\ drv' = d
      \/ Closed(i, d)
  BY DEF Leave
<1>5. /\ drv' \in DriverIters /\ InPage(drv)'
      /\ it' \in Iterxs /\ ValuesAllocated(it)'
  <2>1. CASE it' = i /\ drv' = d
    BY <2>1 DEF InPage, ValuesAllocated
  <2>2. CASE Closed(i, d)
    BY <2>2, <1>3, ErrType
       DEF Closed, CloseErr, InPage, ValuesAllocated, Iterxs, DriverIters
  <2> QED BY <1>4, <2>1, <2>2
<1>6. ret' \in Results
  <2>1. "none" \in Returned /\ Errors \subseteq Returned /\ "notfound" \in Returned
    BY DEF Errors, Returned
  <2>2. /\ SelectErr(i.err, d.err) \in Returned
        /\ GetErr(i.err, d.err, d.n) \in Returned
    BY <2>1, <1>3, ErrType
  <2> QED
    BY <2>1, <2>2, <1>3, ReturnType DEF Leave
<1> QED BY <1>2, <1>5, <1>6

(* So does a panic.                                                         *)
LEMMA PanicType ==
    ASSUME TypeOK, NEW op \in Ops, NEW i \in Iterxs, ValuesAllocated(i), Panic(op, i)
    PROVE  /\ drv' \in DriverIters /\ InPage(drv)'
           /\ it' \in Iterxs /\ ValuesAllocated(it)'
           /\ call' \in Calls /\ ret' \in Results /\ out' \in Seq(Nat)
           /\ call' = Idle /\ out' = <<>>
<1>1. drv \in DriverIters /\ InPage(drv) /\ taken \in Nat /\ used \in BOOLEAN
      /\ call \in Calls
  BY DEF TypeOK
<1>2. drv' \in DriverIters /\ InPage(drv)'
  BY <1>1 DEF Panic, InPage, DriverIters
<1>3. it' \in Iterxs /\ ValuesAllocated(it)'
  BY DEF Panic, ValuesAllocated
<1>4. call' = Idle /\ out' = <<>> /\ call' \in Calls /\ out' \in Seq(Nat)
  BY DEF Panic, Idle, Calls
<1>5. "panic" \in Returned /\ FALSE \in BOOLEAN /\ <<>> \in Seq(Nat)
  BY DEF Returned
<1>6. ret' \in Results
  BY <1>5, ReturnType DEF Panic
<1> QED BY <1>2, <1>3, <1>4, <1>6

(* Up to the driver's Scan, a call keeps every value in its kind.           *)
LEMMA structScanType ==
    ASSUME TypeOK, NEW op \in Ops, NEW i \in Iterxs, ValuesAllocated(i),
           structScan(op, i)
    PROVE  /\ drv' \in DriverIters /\ InPage(drv)'
           /\ it' \in Iterxs /\ ValuesAllocated(it)'
           /\ call' \in Calls /\ ret' \in Results /\ out' \in Seq(Nat)
<1> DEFINE c == Cached(i)
<1>1. drv \in DriverIters /\ InPage(drv) /\ taken \in Nat /\ used \in BOOLEAN
      /\ call \in Calls /\ ret \in Results /\ out \in Seq(Nat)
  BY DEF TypeOK
<1>2. Traversals \in SUBSET FieldNames
  BY <1>1 DEF Traversals, ResultColumns, FieldNames, DriverIters
<1>3. c \in Iterxs /\ ValuesAllocated(c)
  BY <1>2 DEF Cached, Iterxs, ValuesAllocated
<1>4. FALSE \in BOOLEAN /\ <<>> \in Seq(Nat)
  OBVIOUS
<1>5. CASE Leave(op, [i EXCEPT !.fields = Traversals, !.err = "missing"], drv, FALSE, <<>>)
  <2>1. /\ [i EXCEPT !.fields = Traversals, !.err = "missing"] \in Iterxs
        /\ ValuesAllocated([i EXCEPT !.fields = Traversals, !.err = "missing"])
    BY <1>2 DEF Iterxs, ValuesAllocated, Errors
  <2> QED BY <1>1, <1>4, <1>5, <2>1, LeaveType
<1>6. CASE Leave(op, [c EXCEPT !.err = "type"], drv, FALSE, <<>>)
  <2>1. /\ [c EXCEPT !.err = "type"] \in Iterxs
        /\ ValuesAllocated([c EXCEPT !.err = "type"])
    BY <1>3 DEF Iterxs, ValuesAllocated, Errors
  <2> QED BY <1>1, <1>4, <1>6, <2>1, LeaveType
<1>7. CASE Panic(op, c)
  BY <1>3, <1>7, PanicType
<1>8. CASE /\ it' = c
           /\ call' = [op |-> op, direct |-> FALSE, from |-> taken, fresh |-> ~used,
                       width |-> IF c.bound THEN ColumnCount ELSE 0]
           /\ UNCHANGED <<drv, ret, out>>
  <2>1. ColumnCount \in Nat
    BY ColumnCountNat
  <2>2. call' \in Calls
    BY <1>1, <1>8, <2>1 DEF Calls
  <2> QED BY <1>1, <1>3, <1>8, <2>2 DEF InPage, ValuesAllocated
<1> QED BY <1>5, <1>6, <1>7, <1>8 DEF structScan

LEMMA ScanOrStructScanType ==
    ASSUME TypeOK, NEW op \in Ops, NEW i \in Iterxs, ValuesAllocated(i),
           ScanOrStructScan(op, i)
    PROVE  /\ drv' \in DriverIters /\ InPage(drv)'
           /\ it' \in Iterxs /\ ValuesAllocated(it)'
           /\ call' \in Calls /\ ret' \in Results /\ out' \in Seq(Nat)
<1>1. drv \in DriverIters /\ InPage(drv) /\ taken \in Nat /\ used \in BOOLEAN
      /\ call \in Calls /\ ret \in Results /\ out \in Seq(Nat)
  BY DEF TypeOK
<1>2. FALSE \in BOOLEAN /\ <<>> \in Seq(Nat)
  OBVIOUS
<1>3. ASSUME NEW e \in {"type", "columns"},
             Leave(op, [i EXCEPT !.err = e], drv, FALSE, <<>>)
      PROVE  /\ drv' \in DriverIters /\ InPage(drv)'
             /\ it' \in Iterxs /\ ValuesAllocated(it)'
             /\ call' \in Calls /\ ret' \in Results /\ out' \in Seq(Nat)
  <2>1. [i EXCEPT !.err = e] \in Iterxs /\ ValuesAllocated([i EXCEPT !.err = e])
    BY DEF Iterxs, ValuesAllocated, Errors
  <2> QED BY <1>1, <1>2, <1>3, <2>1, LeaveType
<1>4. CASE scan(op, i)
  BY <1>1, <1>4 DEF scan, Calls, InPage, ValuesAllocated
<1>5. CASE structScan(op, i)
  BY <1>5, structScanType
<1> QED BY <1>3, <1>4, <1>5 DEF ScanOrStructScan

-----------------------------------------------------------------------------
(* The calls and the driver's answers keep the type invariant.              *)
LEMMA BeginType ==
    ASSUME TypeOK, Begin,
           drv' \in DriverIters, InPage(drv)', it' \in Iterxs, ValuesAllocated(it)',
           call' \in Calls, ret' \in Results, out' \in Seq(Nat)
    PROVE  TypeOK'
BY DEF TypeOK, Begin

(* A call refused for its destination.                                      *)
LEMMA RefusedType ==
    ASSUME TypeOK, NEW op \in Ops, NEW e \in {"pointer", "slice"},
           Leave(op, [it EXCEPT !.err = e], drv, FALSE, <<>>)
    PROVE  /\ drv' \in DriverIters /\ InPage(drv)'
           /\ it' \in Iterxs /\ ValuesAllocated(it)'
           /\ call' \in Calls /\ ret' \in Results /\ out' \in Seq(Nat)
<1>1. /\ [it EXCEPT !.err = e] \in Iterxs
      /\ ValuesAllocated([it EXCEPT !.err = e])
  BY DEF TypeOK, Iterxs, ValuesAllocated, Errors
<1>2. drv \in DriverIters /\ InPage(drv) /\ FALSE \in BOOLEAN /\ <<>> \in Seq(Nat)
  BY DEF TypeOK
<1> QED BY <1>1, <1>2, LeaveType

LEMMA CallsType == ASSUME TypeOK,
                          StructScan \/ Scan \/ Get \/ Select \/ GetCAS \/ ExecCAS
                   PROVE  TypeOK'
<1>1. it \in Iterxs /\ ValuesAllocated(it)
  BY DEF TypeOK
<1>2. \A op \in {"StructScan", "Get", "Select", "GetCAS", "ExecCAS"} : op \in Ops
  BY DEF Ops, CASOps
<1>3. CASE StructScan
  <2>1. CASE structScan("StructScan", it)
    BY <1>1, <1>2, <1>3, <2>1, structScanType, BeginType DEF StructScan
  <2>2. CASE BadPointer("StructScan")
    BY <1>2, <1>3, <2>2, RefusedType, BeginType DEF StructScan, BadPointer
  <2> QED BY <1>3, <2>1, <2>2 DEF StructScan
<1>4. CASE Scan
  <2>1. PICK width \in {ColumnCount, ColumnCount + 1} :
             call' = [op |-> "Scan", direct |-> TRUE, width |-> width, from |-> taken,
                      fresh |-> ~used]
    BY <1>4 DEF Scan
  <2>2. width \in Nat
    BY ColumnCountNat
  <2>3. call' \in Calls
    BY <2>1, <2>2 DEF TypeOK, Calls, Ops
  <2>4. /\ drv' \in DriverIters /\ InPage(drv)' /\ it' \in Iterxs
        /\ ValuesAllocated(it)' /\ ret' \in Results /\ out' \in Seq(Nat)
    BY <1>4 DEF Scan, TypeOK, InPage, ValuesAllocated
  <2> QED BY <1>4, <2>3, <2>4, BeginType DEF Scan
<1>5. CASE Get
  <2>1. CASE ScanOrStructScan("Get", it)
    BY <1>1, <1>2, <1>5, <2>1, ScanOrStructScanType, BeginType DEF Get
  <2>2. CASE BadPointer("Get")
    BY <1>2, <1>5, <2>2, RefusedType, BeginType DEF Get, BadPointer
  <2> QED BY <1>5, <2>1, <2>2 DEF Get
<1>6. CASE Select
  <2>1. CASE ScanOrStructScan("Select", it)
    BY <1>1, <1>2, <1>6, <2>1, ScanOrStructScanType, BeginType DEF Select
  <2>2. CASE BadPointer("Select")
    BY <1>2, <1>6, <2>2, RefusedType, BeginType DEF Select, BadPointer
  <2>3. CASE Leave("Select", [it EXCEPT !.err = "slice"], drv, FALSE, <<>>)
    BY <1>2, <1>6, <2>3, RefusedType, BeginType DEF Select
  <2> QED BY <1>6, <2>1, <2>2, <2>3 DEF Select
<1>7. CASE GetCAS
  <2>1. CASE ScanOrStructScan("GetCAS", it)
    BY <1>1, <1>2, <1>7, <2>1, ScanOrStructScanType, BeginType DEF GetCAS
  <2>2. CASE BadPointer("GetCAS")
    BY <1>2, <1>7, <2>2, RefusedType, BeginType DEF GetCAS, BadPointer
  <2> QED BY <1>7, <2>1, <2>2 DEF GetCAS
<1>8. CASE ExecCAS
  <2>1. /\ [it EXCEPT !.structOnly = TRUE] \in Iterxs
        /\ ValuesAllocated([it EXCEPT !.structOnly = TRUE])
    BY <1>1 DEF Iterxs, ValuesAllocated
  <2> QED
    BY <1>2, <1>8, <2>1, ScanOrStructScanType, BeginType DEF ExecCAS
<1> QED BY <1>3, <1>4, <1>5, <1>6, <1>7, <1>8

LEMMA DriverType == ASSUME TypeOK, Driver
                    PROVE  TypeOK'
<1>1. /\ drv \in DriverIters /\ InPage(drv) /\ it \in Iterxs /\ ValuesAllocated(it)
      /\ call \in Calls /\ ret \in Results /\ out \in Seq(Nat)
      /\ taken \in Nat /\ delivered \in Nat /\ pages \in Nat
  BY DEF TypeOK
<1>2. Waiting
  BY DEF Driver, Row, BadRow, NextPage, PageFails, End, RowReady
<1>3. call.op \in Ops
  BY <1>1, <1>2 DEF Waiting, Calls
<1>4. ASSUME NEW d \in DriverIters, InPage(d), ScanIsFalse(d),
             UNCHANGED <<dtype, history>>
      PROVE  TypeOK'
  <2>1. FALSE \in BOOLEAN
    OBVIOUS
  <2>2. /\ drv' \in DriverIters /\ InPage(drv)'
        /\ it' \in Iterxs /\ ValuesAllocated(it)'
        /\ call' \in Calls /\ ret' \in Results /\ out' \in Seq(Nat)
    BY <1>1, <1>3, <1>4, <2>1, LeaveType DEF ScanIsFalse
  <2> QED BY <2>2, <1>4 DEF TypeOK, history
<1>5. CASE Row
  <2> DEFINE d == [drv EXCEPT !.pos = @ + 1]
             i == [it EXCEPT !.applied = Applied]
  <2>1. d \in DriverIters /\ InPage(d)
    BY <1>1, <1>5, SMTT(30) DEF Row, RowReady, DriverIters, InPage
  <2>2. i \in Iterxs /\ ValuesAllocated(i)
    BY <1>1 DEF Applied, Iterxs, DriverIters, ValuesAllocated
  <2>3. <<taken + 1>> \in Seq(Nat) /\ TRUE \in BOOLEAN
    BY <1>1
  <2>4. /\ drv' \in DriverIters /\ InPage(drv)'
        /\ it' \in Iterxs /\ ValuesAllocated(it)'
        /\ call' \in Calls /\ ret' \in Results /\ out' \in Seq(Nat)
    <3>1. CASE Leave(call.op, i, d, TRUE, <<taken + 1>>)
      BY <1>3, <2>1, <2>2, <2>3, <3>1, LeaveType
    <3>2. CASE /\ out' = Collect(out, taken + 1)
               /\ it' = i /\ drv' = d
               /\ UNCHANGED <<call, ret>>
      BY <1>1, <2>1, <2>2, <3>2 DEF Collect, InPage, ValuesAllocated
    <3> QED BY <1>5, <3>1, <3>2 DEF Row
  <2> QED BY <1>5, <2>4 DEF Row, TypeOK
<1>6. CASE BadRow
  <2>1. [drv EXCEPT !.err = "row"] \in DriverIters /\ InPage([drv EXCEPT !.err = "row"])
    BY <1>1 DEF DriverIters, InPage, Errors
  <2> QED BY <1>4, <1>6, <2>1 DEF BadRow
<1>7. CASE NextPage
  <2>1. PICK n \in 0..MaxPage, more \in BOOLEAN :
             /\ drv' = [drv EXCEPT !.n = n, !.pos = 0, !.more = more]
             /\ delivered' = delivered + n
    BY <1>7 DEF NextPage
  <2>2. n \in Nat
    BY PagesAssumption
  <2>3. drv' \in DriverIters
    BY <1>1, <2>1, <2>2 DEF DriverIters
  <2>4. drv.n \in Nat /\ drv'.pos = 0 /\ drv'.n = n
    BY <1>1, <2>1 DEF DriverIters
  <2>5. InPage(drv)'
    BY <2>2, <2>4 DEF InPage
  <2>6. delivered' \in Nat /\ pages' \in Nat
    BY <1>1, <1>7, <2>1, <2>2 DEF NextPage
  <2> QED BY <1>7, <2>3, <2>5, <2>6 DEF NextPage, TypeOK, ValuesAllocated
<1>8. CASE PageFails
  <2> DEFINE d == [FailedAnswer EXCEPT !.err = "page"]
  <2>1. FailedAnswer \in DriverIters /\ FailedAnswer.n = 0 /\ FailedAnswer.pos = 0
    BY DEF FailedAnswer, DriverIters, Errors
  <2>2. d \in DriverIters /\ d.n = 0 /\ d.pos = 0
    BY <2>1 DEF DriverIters, Errors
  <2>3. InPage(d)
    BY <2>2 DEF InPage
  <2> QED BY <1>4, <1>8, <2>2, <2>3 DEF PageFails
<1>9. CASE End
  BY <1>1, <1>4, <1>9 DEF End
<1> QED BY <1>5, <1>6, <1>7, <1>8, <1>9 DEF Driver

(* Every reachable state of the iterator satisfies TypeOK, whatever the     *)
(* columns, the destination type and the pages.                             *)
THEOREM TypeCorrect == Spec => []TypeOK
<1>1. Init => TypeOK
  <2> SUFFICES ASSUME Init PROVE TypeOK
    OBVIOUS
  <2>1. drv \in DriverIters /\ InPage(drv) /\ drv.n \in Nat
    <3>1. CASE drv = FailedAnswer
      BY <3>1 DEF FailedAnswer, DriverIters, Errors, InPage
    <3>2. CASE drv \in RowAnswers
      <4>1. drv \in DriverIters
        <5>1. drv = [cols |-> drv.cols, cas |-> drv.cas, lwt |-> drv.lwt, n |-> drv.n,
                     pos |-> drv.pos, more |-> drv.more, err |-> drv.err,
                     closed |-> drv.closed]
          BY <3>2 DEF RowAnswers
        <5>2. /\ drv.cols \in SUBSET Columns /\ drv.cas \in BOOLEAN
              /\ drv.lwt \in BOOLEAN /\ drv.more \in BOOLEAN /\ drv.closed \in BOOLEAN
          BY <3>2 DEF RowAnswers
        <5>3. drv.n \in Nat /\ drv.pos \in Nat
          BY <3>2, PagesAssumption DEF RowAnswers
        <5>4. drv.err \in Errors
          BY <3>2 DEF RowAnswers, Errors
        <5> QED BY <5>1, <5>2, <5>3, <5>4 DEF DriverIters
      <4>2. drv.n \in Nat /\ drv.pos = 0
        BY <3>2, PagesAssumption DEF RowAnswers
      <4> QED BY <4>1, <4>2 DEF InPage
    <3>3. CASE drv \in CASAnswers
      <4>1. drv \in DriverIters
        <5>1. drv = [cols |-> drv.cols, cas |-> drv.cas, lwt |-> drv.lwt, n |-> drv.n,
                     pos |-> drv.pos, more |-> drv.more, err |-> drv.err,
                     closed |-> drv.closed]
          BY <3>3 DEF CASAnswers
        <5>2. /\ drv.cols \in SUBSET Columns /\ drv.cas \in BOOLEAN
              /\ drv.lwt \in BOOLEAN /\ drv.more \in BOOLEAN /\ drv.closed \in BOOLEAN
          BY <3>3 DEF CASAnswers
        <5>3. drv.n \in Nat /\ drv.pos \in Nat
          BY <3>3 DEF CASAnswers
        <5>4. drv.err \in Errors
          BY <3>3 DEF CASAnswers, Errors
        <5> QED BY <5>1, <5>2, <5>3, <5>4 DEF DriverIters
      <4>2. drv.n = 1 /\ drv.pos = 0
        BY <3>3 DEF CASAnswers
      <4> QED BY <4>1, <4>2 DEF InPage
    <3> QED BY <3>1, <3>2, <3>3 DEF Init, FirstAnswers
  <2>2. it \in Iterxs /\ ValuesAllocated(it)
    <3>1. PICK strict \in BOOLEAN : it = NewIterx(strict)
      BY DEF Init
    <3>2. it \in Iterxs
      <4>1. "none" \in Errors
        BY DEF Errors
      <4>2. Unset \in (SUBSET FieldNames) \cup {Unset}
        OBVIOUS
      <4> QED BY <3>1, <4>1, <4>2 DEF NewIterx, Iterxs
    <3>3. it.fields = Unset
      BY <3>1 DEF NewIterx
    <3> QED BY <3>2, <3>3 DEF ValuesAllocated
  <2>3. call \in Calls /\ ret \in Results /\ out \in Seq(Nat)
    BY DEF Init, Idle, Silent, Calls, Results, Returned, Errors
  <2> QED BY <2>1, <2>2, <2>3 DEF Init, TypeOK
<1>2. TypeOK /\ [Next]_vars => TypeOK'
  <2> SUFFICES ASSUME TypeOK, [Next]_vars PROVE TypeOK'
    OBVIOUS
  <2>1. CASE Strict
    BY <2>1 DEF Strict, TypeOK, Iterxs, InPage, ValuesAllocated
  <2>2. CASE StructOnly
    BY <2>2 DEF StructOnly, TypeOK, Iterxs, InPage, ValuesAllocated, history
  <2>3. CASE StructScan \/ Scan \/ Get \/ Select \/ GetCAS \/ ExecCAS
    BY <2>3, CallsType
  <2>4. CASE Close
    <3>1. it \in Iterxs /\ drv \in DriverIters /\ it.err \in Errors /\ drv.err \in Errors
          /\ drv.n \in Nat /\ FALSE \in BOOLEAN /\ <<>> \in Seq(Nat) /\ "Close" \in Ops
      BY DEF TypeOK, Iterxs, DriverIters, Ops
    <3>2. ret' \in Results
      <4>1. CloseErr(it.err, drv.err) \in Returned
        BY <3>1, ErrType DEF Returned
      <4> QED BY <2>4, <3>1, <4>1, ReturnType DEF Close
    <3>3. /\ drv' \in DriverIters /\ InPage(drv)'
          /\ it' \in Iterxs /\ ValuesAllocated(it)'
      BY <2>4, <3>1, ErrType
         DEF Close, Closed, CloseErr, TypeOK, InPage, ValuesAllocated, Iterxs,
             DriverIters
    <3> QED BY <2>4, <3>2, <3>3 DEF Close, TypeOK
  <2>5. CASE Driver
    BY <2>5, DriverType
  <2>6. CASE UNCHANGED vars
    BY <2>6 DEF vars, history, TypeOK, InPage, ValuesAllocated
  <2> QED BY <2>1, <2>2, <2>3, <2>4, <2>5, <2>6 DEF Next
<1> QED BY <1>1, <1>2, PTL DEF Spec

-----------------------------------------------------------------------------
(* The rows after row from, up to row to, in order.                         *)
Run(from, to) == [k \in 1..(to - from) |-> from + k]

LEMMA RunType ==
    ASSUME NEW from \in Nat, NEW to \in Nat, from <= to
    PROVE  /\ Run(from, to) \in Seq(Nat)
           /\ Len(Run(from, to)) = to - from
           /\ \A k \in 1..(to - from) : Run(from, to)[k] = from + k
BY DEF Run

LEMMA RunEmpty == ASSUME NEW from \in Nat PROVE Run(from, from) = <<>>
<1>1. 1..(from - from) = {}
  OBVIOUS
<1> QED BY <1>1 DEF Run

LEMMA RunAppend ==
    ASSUME NEW from \in Nat, NEW to \in Nat, from <= to
    PROVE  Append(Run(from, to), to + 1) = Run(from, to + 1)
<1>1. PICK a : a = Append(Run(from, to), to + 1)
  OBVIOUS
<1>2. PICK b : b = Run(from, to + 1)
  OBVIOUS
<1>3. to + 1 \in Nat /\ from <= to + 1
  OBVIOUS
<1>4. /\ b \in Seq(Nat) /\ Len(b) = to + 1 - from
      /\ \A k \in 1..(to + 1 - from) : b[k] = from + k
  <2> DEFINE t == to + 1
  <2>1. t \in Nat /\ from <= t
    BY <1>3
  <2> HIDE DEF t
  <2>2. /\ Run(from, t) \in Seq(Nat) /\ Len(Run(from, t)) = t - from
        /\ \A k \in 1..(t - from) : Run(from, t)[k] = from + k
    BY <2>1, RunType
  <2> QED BY <1>2, <2>2 DEF t
<1>5. /\ Run(from, to) \in Seq(Nat) /\ Len(Run(from, to)) = to - from
      /\ \A k \in 1..(to - from) : Run(from, to)[k] = from + k
  BY RunType
<1>6. /\ a \in Seq(Nat) /\ Len(a) = to - from + 1
      /\ \A k \in 1..(to - from) : a[k] = Run(from, to)[k]
      /\ a[to - from + 1] = to + 1
  BY <1>1, <1>3, <1>5, AppendProperties
<1>7. Len(a) = Len(b)
  BY <1>4, <1>6
<1>8. ASSUME NEW k \in 1..Len(a) PROVE a[k] = b[k]
  <2>1. CASE k = to - from + 1
    BY <1>4, <1>6, <2>1
  <2>2. CASE k \in 1..(to - from)
    BY <1>4, <1>5, <1>6, <2>2
  <2> QED BY <1>6, <2>1, <2>2
<1>9. a = b
  BY <1>4, <1>6, <1>7, <1>8, SeqEqual
<1> QED BY <1>1, <1>2, <1>9

(* The rows received are those handed out and those left in the page.       *)
RowsAccounted == delivered = taken + (drv.n - drv.pos)

(* A call in progress has an open iterator.  Select holds the run of rows   *)
(* the driver has handed out since it began; another call holds none.       *)
CallHoldsRun ==
    /\ call = Idle => out = <<>>
    /\ call # Idle =>
        /\ ~drv.closed
        /\ call.from <= taken
        /\ call.op # "Select" => call.from = taken
        /\ out = Run(call.from, taken)

(* A Select that has returned left such a run, and a nil error means that   *)
(* no row and no page was left.                                             *)
SelectReturned ==
    ret.op = "Select" =>
        /\ drv.closed
        /\ ret.from <= taken
        /\ ret.rows = Run(ret.from, taken)
        /\ ret.err = "none" => taken = delivered /\ ~drv.more

(* With TypeOK, the inductive invariant.                                    *)
Inherited == RowsAccounted /\ CallHoldsRun /\ SelectReturned

(* What every way out of a call has in common.                              *)
LEMMA LeaveFacts ==
    ASSUME NEW op \in Ops, NEW i \in Iterxs, NEW d \in DriverIters, NEW ok, NEW rows,
           Leave(op, i, d, ok, rows)
    PROVE  /\ call' = Idle /\ out' = <<>>
           /\ drv'.n = d.n /\ drv'.pos = d.pos /\ drv'.more = d.more
           /\ ret'.op = op
           /\ op = "Select" =>
                /\ drv'.closed /\ ret'.rows = rows
                /\ ret'.from = IF call = Idle THEN taken ELSE call.from
                /\ ret'.err = SelectErr(i.err, d.err)
<1>1. /\ call' = Idle /\ out' = <<>>
  BY DEF Leave
<1>2. drv' = d \/ drv' = [d EXCEPT !.closed = TRUE]
  BY DEF Leave, Closed
<1>3. drv'.n = d.n /\ drv'.pos = d.pos /\ drv'.more = d.more
  BY <1>2 DEF DriverIters
<1>4. ret'.op = op
  BY DEF Leave, Return
<1>5. ASSUME op = "Select"
      PROVE  /\ drv'.closed /\ ret'.rows = rows
             /\ ret'.from = IF call = Idle THEN taken ELSE call.from
             /\ ret'.err = SelectErr(i.err, d.err)
  <2>1. Closed(i, d) /\ Return(op, SelectErr(i.err, d.err), ok, FALSE, rows)
    BY <1>5 DEF Leave, CASOps
  <2> QED BY <2>1 DEF Closed, Return, DriverIters
<1> QED BY <1>1, <1>3, <1>4, <1>5

LEMMA LeaveKeeps ==
    ASSUME TypeOK,
           NEW op \in Ops, NEW i \in Iterxs, NEW d \in DriverIters, NEW ok, NEW rows,
           Leave(op, i, d, ok, rows),
           delivered' = taken' + (d.n - d.pos),
           NEW from, from = IF call = Idle THEN taken ELSE call.from,
           op = "Select" =>
             /\ from <= taken' /\ rows = Run(from, taken')
             /\ i.err = "none" /\ d.err = "none" => taken' = delivered' /\ ~d.more
    PROVE  Inherited'
<1>1. /\ call' = Idle /\ out' = <<>>
      /\ drv'.n = d.n /\ drv'.pos = d.pos /\ drv'.more = d.more
      /\ ret'.op = op
      /\ op = "Select" => /\ drv'.closed /\ ret'.rows = rows /\ ret'.from = from
                          /\ ret'.err = SelectErr(i.err, d.err)
  BY LeaveFacts
<1>2. RowsAccounted'
  BY <1>1 DEF RowsAccounted
<1>3. CallHoldsRun'
  BY <1>1 DEF CallHoldsRun
<1>4. SelectReturned'
  <2>1. SelectErr(i.err, d.err) = "none" => i.err = "none" /\ d.err = "none"
    BY DEF SelectErr, CloseErr
  <2> QED BY <1>1, <2>1 DEF SelectReturned
<1> QED BY <1>2, <1>3, <1>4 DEF Inherited

(* A call up to the driver's Scan.                                          *)
LEMMA RefusedKeeps ==
    ASSUME TypeOK, Inherited, Ready, UNCHANGED <<taken, delivered>>,
           NEW op \in Ops, NEW i \in Iterxs, i.err # "none",
           Leave(op, i, drv, FALSE, <<>>)
    PROVE  Inherited'
<1>1. drv \in DriverIters /\ taken \in Nat /\ call = Idle
  BY DEF TypeOK, Ready
<1>2. delivered' = taken' + (drv.n - drv.pos)
  BY DEF Inherited, RowsAccounted
<1>3. taken <= taken' /\ <<>> = Run(taken, taken')
  BY <1>1, RunEmpty
<1> QED BY <1>1, <1>2, <1>3, LeaveKeeps

LEMMA ScanBegins ==
    ASSUME TypeOK, Inherited, Ready, UNCHANGED <<taken, delivered, drv, ret, out>>,
           call'.from = taken
    PROVE  Inherited'
<1>1. taken \in Nat /\ out = Run(taken, taken)
  BY RunEmpty DEF TypeOK, Inherited, CallHoldsRun, Ready
<1>2. RowsAccounted'
  BY DEF Inherited, RowsAccounted
<1>3. CallHoldsRun'
  BY <1>1 DEF Inherited, CallHoldsRun, Ready
<1>4. SelectReturned'
  BY DEF Inherited, SelectReturned, Ready
<1> QED BY <1>2, <1>3, <1>4 DEF Inherited

LEMMA structScanKeeps ==
    ASSUME TypeOK, Inherited, Ready, UNCHANGED <<taken, delivered>>,
           NEW op \in Ops, NEW i \in Iterxs, ValuesAllocated(i), structScan(op, i)
    PROVE  Inherited'
<1> DEFINE c == Cached(i)
<1>1. drv \in DriverIters /\ taken \in Nat
  BY DEF TypeOK
<1>2. Traversals \in SUBSET FieldNames
  BY <1>1 DEF Traversals, ResultColumns, FieldNames, DriverIters
<1>3. c \in Iterxs
  BY <1>2 DEF Cached, Iterxs
<1>4. CASE Leave(op, [i EXCEPT !.fields = Traversals, !.err = "missing"], drv, FALSE, <<>>)
  <2>1. /\ [i EXCEPT !.fields = Traversals, !.err = "missing"] \in Iterxs
        /\ [i EXCEPT !.fields = Traversals, !.err = "missing"].err # "none"
    BY <1>2 DEF Iterxs, Errors
  <2> QED BY <1>4, <2>1, RefusedKeeps
<1>5. CASE Leave(op, [c EXCEPT !.err = "type"], drv, FALSE, <<>>)
  <2>1. [c EXCEPT !.err = "type"] \in Iterxs /\ [c EXCEPT !.err = "type"].err # "none"
    BY <1>3 DEF Iterxs, Errors
  <2> QED BY <1>5, <2>1, RefusedKeeps
<1>6. CASE Panic(op, c)
  <2>1. /\ drv'.n = drv.n /\ drv'.pos = drv.pos /\ drv'.closed
        /\ call' = Idle /\ out' = <<>>
    BY <1>1, <1>6 DEF Panic, DriverIters
  <2>2. ret'.rows = <<>> /\ ret'.from = taken /\ ret'.err = "panic"
    BY <1>6 DEF Panic, Return, Ready
  <2>3. <<>> = Run(taken, taken)
    BY <1>1, RunEmpty
  <2>4. RowsAccounted' /\ CallHoldsRun'
    BY <2>1 DEF Inherited, RowsAccounted, CallHoldsRun
  <2>5. SelectReturned'
    BY <1>1, <2>1, <2>2, <2>3 DEF SelectReturned
  <2> QED BY <2>4, <2>5 DEF Inherited
<1>7. CASE /\ it' = c
           /\ call' = [op |-> op, direct |-> FALSE, from |-> taken, fresh |-> ~used,
                       width |-> IF c.bound THEN ColumnCount ELSE 0]
           /\ UNCHANGED <<drv, ret, out>>
  BY <1>7, ScanBegins
<1> QED BY <1>4, <1>5, <1>6, <1>7 DEF structScan

LEMMA ScanOrStructScanKeeps ==
    ASSUME TypeOK, Inherited, Ready, UNCHANGED <<taken, delivered>>,
           NEW op \in Ops, NEW i \in Iterxs, ValuesAllocated(i),
           ScanOrStructScan(op, i)
    PROVE  Inherited'
<1>1. ASSUME NEW e \in {"type", "columns"},
             Leave(op, [i EXCEPT !.err = e], drv, FALSE, <<>>)
      PROVE  Inherited'
  <2>1. [i EXCEPT !.err = e] \in Iterxs /\ [i EXCEPT !.err = e].err # "none"
    BY DEF Iterxs, Errors
  <2> QED BY <1>1, <2>1, RefusedKeeps
<1>2. CASE scan(op, i)
  BY <1>2, ScanBegins DEF scan
<1>3. CASE structScan(op, i)
  BY <1>3, structScanKeeps
<1> QED BY <1>1, <1>2, <1>3 DEF ScanOrStructScan

LEMMA CallsKeep ==
    ASSUME TypeOK, Inherited, StructScan \/ Scan \/ Get \/ Select \/ GetCAS \/ ExecCAS
    PROVE  Inherited'
<1>1. it \in Iterxs /\ ValuesAllocated(it)
  BY DEF TypeOK
<1>2. \A op \in {"StructScan", "Get", "Select", "GetCAS", "ExecCAS"} : op \in Ops
  BY DEF Ops, CASOps
<1>3. Ready /\ UNCHANGED <<taken, delivered>>
  BY DEF StructScan, Scan, Get, Select, GetCAS, ExecCAS, Begin
<1>4. ASSUME NEW op \in Ops, NEW e \in {"pointer", "slice"},
             Leave(op, [it EXCEPT !.err = e], drv, FALSE, <<>>)
      PROVE  Inherited'
  <2>1. [it EXCEPT !.err = e] \in Iterxs /\ [it EXCEPT !.err = e].err # "none"
    BY <1>1 DEF Iterxs, Errors
  <2> QED BY <1>3, <1>4, <2>1, RefusedKeeps
<1>5. CASE StructScan
  BY <1>1, <1>2, <1>3, <1>4, <1>5, structScanKeeps DEF StructScan, BadPointer
<1>6. CASE Scan
  <2>1. call'.from = taken /\ UNCHANGED <<drv, ret, out>>
    BY <1>6 DEF Scan
  <2> QED BY <1>3, <2>1, ScanBegins
<1>7. CASE Get
  BY <1>1, <1>2, <1>3, <1>4, <1>7, ScanOrStructScanKeeps DEF Get, BadPointer
<1>8. CASE Select
  BY <1>1, <1>2, <1>3, <1>4, <1>8, ScanOrStructScanKeeps DEF Select, BadPointer
<1>9. CASE GetCAS
  BY <1>1, <1>2, <1>3, <1>4, <1>9, ScanOrStructScanKeeps DEF GetCAS, BadPointer
<1>10. CASE ExecCAS
  <2>1. /\ [it EXCEPT !.structOnly = TRUE] \in Iterxs
        /\ ValuesAllocated([it EXCEPT !.structOnly = TRUE])
    BY <1>1 DEF Iterxs, ValuesAllocated
  <2> QED BY <1>2, <1>3, <1>10, <2>1, ScanOrStructScanKeeps DEF ExecCAS
<1> QED BY <1>5, <1>6, <1>7, <1>8, <1>9, <1>10

(* The driver's answers.                                                    *)
LEMMA DriverKeeps ==
    ASSUME TypeOK, Inherited, Driver
    PROVE  Inherited'
<1>1. /\ drv \in DriverIters /\ InPage(drv) /\ it \in Iterxs /\ call \in Calls
      /\ taken \in Nat /\ delivered \in Nat /\ drv.n \in Nat /\ drv.pos \in Nat
  BY DEF TypeOK, DriverIters
<1>2. Waiting
  BY DEF Driver, Row, BadRow, NextPage, PageFails, End, RowReady
<1>3. call.op \in Ops /\ call.from \in Nat
  BY <1>1, <1>2 DEF Waiting, Calls
<1>4. /\ call.from <= taken /\ out = Run(call.from, taken)
      /\ call.op # "Select" => call.from = taken
      /\ ~drv.closed /\ ret.op # "Select"
      /\ delivered = taken + (drv.n - drv.pos)
  BY <1>2 DEF Inherited, CallHoldsRun, SelectReturned, RowsAccounted, Waiting
<1>5. ASSUME NEW d \in DriverIters, ScanIsFalse(d), UNCHANGED <<taken, delivered>>,
             d.n - d.pos = drv.n - drv.pos,
             d.err = "none" => taken = delivered /\ ~d.more
      PROVE  Inherited'
  <2>1. call.from = IF call = Idle THEN taken ELSE call.from
    BY <1>2 DEF Waiting
  <2>2. delivered' = taken' + (d.n - d.pos)
    BY <1>4, <1>5
  <2> QED
    BY <1>1, <1>3, <1>4, <1>5, <2>1, <2>2, LeaveKeeps DEF ScanIsFalse
<1>6. CASE Row
  <2> DEFINE d == [drv EXCEPT !.pos = @ + 1]
             i == [it EXCEPT !.applied = Applied]
  <2>1. d \in DriverIters /\ d.n = drv.n /\ d.pos = drv.pos + 1
    BY <1>1 DEF DriverIters
  <2>2. i \in Iterxs
    BY <1>1 DEF Applied, Iterxs, DriverIters
  <2>3. taken' = taken + 1 /\ delivered' = delivered
    BY <1>6 DEF Row
  <2>4. delivered' = taken' + (d.n - d.pos)
    BY <1>1, <1>4, <2>1, <2>3
  <2>5. CASE call.op # "Select" /\ Leave(call.op, i, d, TRUE, <<taken + 1>>)
    <3> HIDE DEF d, i
    <3> QED BY <1>3, <2>1, <2>2, <2>4, <2>5, LeaveKeeps
  <2>6. CASE /\ call.op = "Select"
             /\ out' = Collect(out, taken + 1)
             /\ it' = i /\ drv' = d
             /\ UNCHANGED <<call, ret>>
    <3>1. out' = Run(call.from, taken')
      BY <1>1, <1>3, <1>4, <2>3, <2>6, RunAppend DEF Collect
    <3>2. RowsAccounted'
      BY <2>4, <2>6 DEF RowsAccounted
    <3>3. ~drv'.closed /\ call.from <= taken' /\ call.op = "Select"
      BY <1>1, <1>3, <1>4, <2>3, <2>6 DEF DriverIters
    <3>4. CallHoldsRun'
      BY <1>2, <2>6, <3>1, <3>3 DEF CallHoldsRun, Waiting
    <3>5. SelectReturned'
      BY <1>4, <2>6 DEF SelectReturned
    <3> QED BY <3>2, <3>4, <3>5 DEF Inherited
  <2> QED BY <1>6, <2>5, <2>6 DEF Row
<1>7. CASE BadRow
  <2> DEFINE d == [drv EXCEPT !.err = "row"]
  <2>1. /\ d \in DriverIters /\ d.n = drv.n /\ d.pos = drv.pos /\ d.err = "row"
    BY <1>1 DEF DriverIters, Errors
  <2>2. ScanIsFalse(d) /\ UNCHANGED <<taken, delivered>>
    BY <1>7 DEF BadRow, history
  <2> HIDE DEF d
  <2> QED BY <1>5, <2>1, <2>2
<1>8. CASE NextPage
  <2>1. PICK n \in 0..MaxPage, more \in BOOLEAN :
             /\ drv' = [drv EXCEPT !.n = n, !.pos = 0, !.more = more]
             /\ delivered' = delivered + n
    BY <1>8 DEF NextPage
  <2>2. drv'.n = n /\ drv'.pos = 0 /\ drv'.closed = drv.closed /\ n \in Nat
    BY <1>1, <2>1, PagesAssumption DEF DriverIters
  <2>3. taken' = taken /\ delivered = taken /\ UNCHANGED <<call, ret, out>>
    BY <1>1, <1>4, <1>8 DEF NextPage, AtPageEnd
  <2>4. RowsAccounted'
    BY <1>1, <2>1, <2>2, <2>3 DEF RowsAccounted
  <2>5. CallHoldsRun'
    BY <1>2, <1>4, <2>2, <2>3 DEF CallHoldsRun, Waiting
  <2>6. SelectReturned'
    BY <1>4, <2>3 DEF SelectReturned
  <2> QED BY <2>4, <2>5, <2>6 DEF Inherited
<1>9. CASE PageFails
  <2> DEFINE d == [FailedAnswer EXCEPT !.err = "page"]
  <2>1. FailedAnswer \in DriverIters /\ FailedAnswer.n = 0 /\ FailedAnswer.pos = 0
    BY DEF FailedAnswer, DriverIters, Errors
  <2>2. d \in DriverIters /\ d.n = 0 /\ d.pos = 0 /\ d.err = "page"
    BY <2>1 DEF DriverIters, Errors
  <2>3. ScanIsFalse(d) /\ UNCHANGED <<taken, delivered>> /\ drv.pos = drv.n
    BY <1>9 DEF PageFails, history, AtPageEnd
  <2> HIDE DEF d
  <2> QED BY <1>1, <1>5, <2>2, <2>3
<1>10. CASE End
  <2>1. ScanIsFalse(drv) /\ UNCHANGED <<taken, delivered>>
    BY <1>10 DEF End, history
  <2>2. drv.err = "none" => taken = delivered /\ ~drv.more
    BY <1>1, <1>4, <1>10 DEF End, AtPageEnd
  <2> QED BY <1>1, <1>5, <2>1, <2>2
<1> QED BY <1>6, <1>7, <1>8, <1>9, <1>10 DEF Driver

LEMMA Inductive == Spec => []Inherited
<1>1. Init => Inherited
  <2> SUFFICES ASSUME Init PROVE Inherited
    OBVIOUS
  <2>1. drv.pos = 0 /\ drv.n \in Nat
    <3>1. CASE drv = FailedAnswer
      BY <3>1 DEF FailedAnswer
    <3>2. CASE drv \in RowAnswers
      BY <3>2, PagesAssumption DEF RowAnswers
    <3>3. CASE drv \in CASAnswers
      BY <3>3 DEF CASAnswers
    <3> QED BY <3>1, <3>2, <3>3 DEF Init, FirstAnswers
  <2> QED
    BY <2>1 DEF Init, Idle, Silent, Inherited, RowsAccounted, CallHoldsRun, SelectReturned
<1>2. TypeOK /\ Inherited /\ [Next]_vars => Inherited'
  <2> SUFFICES ASSUME TypeOK, Inherited, [Next]_vars PROVE Inherited'
    OBVIOUS
  <2>1. CASE Strict
    BY <2>1 DEF Strict, Inherited, RowsAccounted, CallHoldsRun, SelectReturned
  <2>2. CASE StructOnly
    BY <2>2 DEF StructOnly, Inherited, RowsAccounted, CallHoldsRun, SelectReturned, history
  <2>3. CASE StructScan \/ Scan \/ Get \/ Select \/ GetCAS \/ ExecCAS
    BY <2>3, CallsKeep
  <2>4. CASE Close
    <3>1. /\ drv'.n = drv.n /\ drv'.pos = drv.pos /\ ret'.op = "Close"
          /\ call = Idle /\ UNCHANGED <<call, out, taken, delivered>>
      BY <2>4 DEF Close, Closed, Return, TypeOK, DriverIters
    <3> QED
      BY <3>1 DEF Inherited, RowsAccounted, CallHoldsRun, SelectReturned
  <2>5. CASE Driver
    BY <2>5, DriverKeeps
  <2>6. CASE UNCHANGED vars
    BY <2>6 DEF vars, history, Inherited, RowsAccounted, CallHoldsRun, SelectReturned
  <2> QED BY <2>1, <2>2, <2>3, <2>4, <2>5, <2>6 DEF Next
<1> QED BY <1>1, <1>2, TypeCorrect, PTL DEF Spec

(* Select returns nil only with the complete rest of the result, whatever   *)
(* the pages, their sizes and the calls made before.                        *)
THEOREM SelectIsComplete == Spec => []SelectComplete
<1>1. TypeOK /\ Inherited => SelectComplete
  BY DEF Inherited, SelectReturned, SelectComplete, Run
<1> QED BY <1>1, TypeCorrect, Inductive, PTL

(* Whatever Select leaves in the destination is a gap-free run of the       *)
(* result starting where the iterator stood, also when it fails.            *)
THEOREM SelectLeavesRun == Spec => []SelectIsRun
<1>1. TypeOK /\ Inherited => SelectIsRun
  <2> SUFFICES ASSUME TypeOK, Inherited, ret.op = "Select"
               PROVE  \A k \in 1..Len(ret.rows) : ret.rows[k] = ret.from + k
    BY DEF SelectIsRun
  <2>1. ret.from \in Nat /\ taken \in Nat /\ ret.from <= taken
        /\ ret.rows = Run(ret.from, taken)
    BY DEF TypeOK, Results, Inherited, SelectReturned
  <2>2. /\ Len(ret.rows) = taken - ret.from
        /\ \A k \in 1..(taken - ret.from) : ret.rows[k] = ret.from + k
    <3>1. PICK from \in Nat : from = ret.from
      BY <2>1
    <3>2. /\ Len(Run(from, taken)) = taken - from
          /\ \A k \in 1..(taken - from) : Run(from, taken)[k] = from + k
      BY <2>1, <3>1, RunType
    <3> QED BY <2>1, <3>1, <3>2
  <2> QED BY <2>2
<1> QED BY <1>1, TypeCorrect, Inductive, PTL

-----------------------------------------------------------------------------
(* What the calls report.                                                   *)
GetOps == {"Get"} \cup CASOps
Closers == {"Get", "Select", "Close"} \cup CASOps
VerdictWanted(op) ==
    (dtype.kind = "struct" \/ op = "ExecCAS") /\ appliedColumn \notin dtype.fields

(* On an iterator nothing has used, a call starts at the first row, and the *)
(* calls for lightweight transactions have such an iterator.                *)
CallIsFresh ==
    /\ ~used => call = Idle /\ taken = 0
    /\ drv.pos <= taken
    /\ call # Idle /\ call.fresh => call.from = 0
    /\ call # Idle /\ call.op \in CASOps =>
         call.fresh /\ (VerdictWanted(call.op) => ~call.direct)

(* What a Get, GetCAS or ExecCAS that has returned err reports, with d and  *)
(* all the rows as it left them.                                            *)
GetTold(fresh, err, rows, n, d) ==
    fresh => /\ err = "none" => rows = <<1>>
             /\ err = "notfound" => n = 0 /\ ~d.more /\ d.err = "none"
VerdictTold(op, err, applied, d) ==
    op \in CASOps /\ err = "none" /\ d.cas =>
        (applied => d.lwt) /\ (VerdictWanted(op) => applied = d.lwt)

GetReturned ==
    ret.op \in GetOps =>
        /\ GetTold(ret.fresh, ret.err, ret.rows, delivered, drv)
        /\ VerdictTold(ret.op, ret.err, ret.applied, drv)

(* A call that closes the iterator has told of the errors so far.           *)
ErrorsTold ==
    ret.op \in Closers =>
        drv.closed /\ (it.err # "none" \/ drv.err # "none" => ret.err # "none")

(* What the iterator keeps from one scan to the next: the values of a       *)
(* strict one are allocated after the strict check, if it was strict by     *)
(* then; the field for the verdict is one of the struct's, and a verdict    *)
(* kept is the server's.  Without values no row has a destination.          *)
AsFound(i, d, wasLate) ==
    /\ i.bound => /\ i.fields # Unset
                  /\ i.strict /\ ~wasLate /\ ~d.cas => d.cols \subseteq dtype.fields
    /\ appliedColumn \in i.fields => appliedColumn \in dtype.fields
    /\ i.applied /\ d.cas => d.lwt
CacheKept ==
    /\ AsFound(it, drv, late)
    /\ call # Idle /\ ~call.direct => it.bound \/ call.width = 0

(* With TypeOK and Inherited, the inductive invariant.                      *)
Outcomes == CallIsFresh /\ GetReturned /\ ErrorsTold /\ CacheKept

-----------------------------------------------------------------------------
(* A call that returns.                                                     *)
LEMMA LeaveTells ==
    ASSUME NEW op \in Ops \ {"Close"}, NEW i \in Iterxs, NEW d \in DriverIters,
           NEW ok, NEW rows,
           Leave(op, i, d, ok, rows),
           used', UNCHANGED dtype, d.pos <= taken',
           op \in GetOps =>
             GetTold(IF call = Idle THEN ~used ELSE call.fresh,
                     GetErr(i.err, d.err, d.n), rows, delivered', d),
           VerdictTold(op, GetErr(i.err, d.err, d.n), i.applied, d),
           AsFound(i, d, late')
    PROVE  Outcomes'
<1>1. call' = Idle /\ drv'.pos = d.pos /\ ret'.op = op
  BY LeaveFacts
<1>2. /\ drv'.err = d.err /\ drv'.cas = d.cas /\ drv'.cols = d.cols /\ drv'.lwt = d.lwt
      /\ drv'.more = d.more
      /\ it'.bound = i.bound /\ it'.strict = i.strict /\ it'.fields = i.fields
      /\ it'.applied = i.applied
  BY DEF Leave, Closed, DriverIters, Iterxs
<1>3. CallIsFresh'
  BY <1>1 DEF CallIsFresh
<1>4. ASSUME op \in GetOps
      PROVE  /\ ret'.err = GetErr(i.err, d.err, d.n) /\ ret'.rows = rows
             /\ ret'.fresh = IF call = Idle THEN ~used ELSE call.fresh
             /\ op \in CASOps /\ ret'.err = "none" => ret'.applied = i.applied
  <2>1. CASE op = "Get"
    BY <2>1 DEF Leave, Return, CASOps
  <2>2. CASE op \in CASOps
    <3>1. Return(op, GetErr(i.err, d.err, d.n), ok,
                 GetErr(i.err, d.err, d.n) = "none" /\ i.applied, rows)
      BY <2>2 DEF Leave, CASOps
    <3>2. i.applied \in BOOLEAN
      BY DEF Iterxs
    <3> QED BY <3>1, <3>2 DEF Return
  <2> QED BY <1>4, <2>1, <2>2 DEF GetOps
<1>5. GetReturned'
  <2>1. CASE op \in GetOps
    <3>1. GetTold(ret.fresh, ret.err, ret.rows, delivered, drv)'
      BY <1>2, <1>4, <2>1 DEF GetTold
    <3>2. VerdictTold(ret.op, ret.err, ret.applied, drv)'
      BY <1>1, <1>2, <1>4, <2>1 DEF VerdictTold, VerdictWanted
    <3> QED BY <3>1, <3>2 DEF GetReturned
  <2> QED BY <1>1, <2>1 DEF GetReturned
<1>6. ErrorsTold'
  <2>1. CASE op \in Closers
    <3>1. Closed(i, d)
      BY <2>1 DEF Leave, Closers, CASOps
    <3>2. drv'.closed /\ it'.err = CloseErr(i.err, d.err)
      BY <3>1 DEF Closed, DriverIters, Iterxs
    <3>3. ret'.err = SelectErr(i.err, d.err) \/ ret'.err = GetErr(i.err, d.err, d.n)
      BY <2>1 DEF Leave, Return, Closers, CASOps
    <3> QED BY <1>2, <3>2, <3>3
            DEF ErrorsTold, SelectErr, GetErr, CloseErr, checkErrAndNotFound
  <2> QED BY <1>1, <2>1 DEF ErrorsTold
<1>7. CacheKept'
  BY <1>1, <1>2 DEF CacheKept, AsFound
<1> QED BY <1>3, <1>5, <1>6, <1>7 DEF Outcomes

(* A call up to the driver's Scan.                                          *)
LEMMA RefusedTells ==
    ASSUME TypeOK, Outcomes, Ready, used', UNCHANGED <<dtype, taken, late>>,
           NEW op \in Ops \ {"Close"}, NEW i \in Iterxs, i.err # "none",
           AsFound(i, drv, late),
           Leave(op, i, drv, FALSE, <<>>)
    PROVE  Outcomes'
<1>1. drv \in DriverIters /\ drv.pos <= taken'
  BY DEF TypeOK, Outcomes, CallIsFresh
<1>2. GetErr(i.err, drv.err, drv.n) \notin {"none", "notfound"}
  BY DEF GetErr, CloseErr, checkErrAndNotFound, Iterxs, Errors
<1>3. /\ \A fresh : GetTold(fresh, GetErr(i.err, drv.err, drv.n), <<>>, delivered', drv)
      /\ VerdictTold(op, GetErr(i.err, drv.err, drv.n), i.applied, drv)
  BY <1>2 DEF GetTold, VerdictTold
<1>4. AsFound(i, drv, late')
  OBVIOUS
<1> QED BY <1>1, <1>3, <1>4, LeaveTells

(* A call that goes on to the driver's Scan.                                *)
LEMMA ScanBegun ==
    ASSUME TypeOK, Outcomes, Ready, used', UNCHANGED <<dtype, taken, late, drv, ret>>,
           NEW op \in Ops \ {"Close"}, NEW i \in Iterxs, i.err = it.err, it' = i,
           AsFound(i, drv, late),
           call'.from = taken, call'.fresh = ~used, call'.op = op,
           call'.direct \/ i.bound \/ call'.width = 0,
           op \in CASOps => ~used /\ (VerdictWanted(op) => ~call'.direct)
    PROVE  Outcomes'
<1>1. /\ ~drv.closed /\ ret.op \notin Closers /\ ret.op \notin GetOps
  BY DEF Ready, Outcomes, ErrorsTold, GetOps, Closers
<1>2. CallIsFresh'
  BY DEF Outcomes, CallIsFresh, VerdictWanted
<1>3. GetReturned' /\ ErrorsTold'
  BY <1>1 DEF GetReturned, ErrorsTold, GetOps, Closers
<1>4. CacheKept'
  BY DEF CacheKept, AsFound
<1> QED BY <1>2, <1>3, <1>4 DEF Outcomes

LEMMA PanicTells ==
    ASSUME TypeOK, Outcomes, Ready, used', UNCHANGED <<dtype, taken, late>>,
           NEW op \in Ops, NEW i \in Iterxs, AsFound(i, drv, late), Panic(op, i)
    PROVE  Outcomes'
<1>1. /\ it' = i /\ call' = Idle /\ drv' = [drv EXCEPT !.closed = TRUE] /\ ret'.err = "panic"
  BY DEF Panic, Return
<1>2. drv'.closed = TRUE /\ drv'.pos = drv.pos /\ drv'.cas = drv.cas /\ drv'.cols = drv.cols
  BY <1>1 DEF TypeOK, DriverIters
<1>3. CallIsFresh' /\ GetReturned' /\ ErrorsTold'
  BY <1>1, <1>2 DEF Outcomes, CallIsFresh, GetReturned, GetTold, VerdictTold, ErrorsTold
<1>4. CacheKept'
  BY <1>1, <1>2 DEF CacheKept, AsFound
<1> QED BY <1>3, <1>4 DEF Outcomes

LEMMA structScanTells ==
    ASSUME TypeOK, Outcomes, Ready, used', UNCHANGED <<dtype, taken, late>>,
           NEW op \in Ops \ {"Close"}, NEW i \in Iterxs, i.err = it.err,
           AsFound(i, drv, late), op \in CASOps => ~used,
           structScan(op, i)
    PROVE  Outcomes'
<1> DEFINE c == Cached(i)
<1>1. drv \in DriverIters /\ Traversals \in SUBSET FieldNames /\ Traversals # Unset
  <2>1. drv \in DriverIters
    BY DEF TypeOK
  <2>2. Traversals \in SUBSET FieldNames
    BY <2>1 DEF Traversals, ResultColumns, FieldNames, DriverIters
  <2>3. "unset" \notin FieldNames
    BY ColumnsAssumption, NotUnset DEF FieldNames
  <2> QED BY <2>1, <2>2, <2>3 DEF Unset
<1>2. c \in Iterxs /\ c.err = i.err
  BY <1>1 DEF Cached, Iterxs
<1>3. ASSUME NEW j \in Iterxs, j.err # "none", AsFound(j, drv, late),
             Leave(op, j, drv, FALSE, <<>>)
      PROVE  Outcomes'
  BY <1>3, RefusedTells
<1>8. CASE Leave(op, [i EXCEPT !.fields = Traversals, !.err = "missing"], drv, FALSE, <<>>)
           /\ StrictStop(i)
  <2>1. /\ [i EXCEPT !.fields = Traversals, !.err = "missing"] \in Iterxs
        /\ [i EXCEPT !.fields = Traversals, !.err = "missing"].err # "none"
    BY <1>1 DEF Iterxs, Errors
  <2>2. ~i.bound
    BY <1>8 DEF StrictStop, AsFound
  <2>3. AsFound([i EXCEPT !.fields = Traversals, !.err = "missing"], drv, late)
    <3>1. Traversals \subseteq dtype.fields
      BY DEF Traversals
    <3> QED BY <2>2, <3>1 DEF AsFound, Iterxs
  <2> QED BY <1>3, <1>8, <2>1, <2>3
<1>4. ASSUME ~StrictStop(i) PROVE AsFound(c, drv, late)
  <2>1. CASE i.fields # Unset
    BY <2>1 DEF Cached
  <2>2. CASE i.fields = Unset
    <3>1. c.fields = Traversals /\ c.strict = i.strict
      BY <2>2 DEF Cached, Iterxs
    <3>2. i.strict /\ ~drv.cas => drv.cols \subseteq dtype.fields
      <4>1. SUFFICES ASSUME i.strict, ~drv.cas PROVE drv.cols \subseteq dtype.fields
        OBVIOUS
      <4>2. Traversals = drv.cols
        BY <1>4, <2>2, <4>1 DEF StrictStop, missingFields
      <4> QED BY <4>2 DEF Traversals
    <3>3. c.applied = i.applied /\ Traversals \subseteq dtype.fields
      BY <2>2 DEF Cached, Iterxs, Traversals
    <3> QED BY <1>1, <3>1, <3>2, <3>3 DEF AsFound
  <2> QED BY <2>1, <2>2
<1>5. CASE ~StrictStop(i) /\ Leave(op, [c EXCEPT !.err = "type"], drv, FALSE, <<>>)
  <2>1. [c EXCEPT !.err = "type"] \in Iterxs /\ [c EXCEPT !.err = "type"].err # "none"
    BY <1>2 DEF Iterxs, Errors
  <2>2. AsFound(c, drv, late)
    BY <1>4, <1>5
  <2>3. AsFound([c EXCEPT !.err = "type"], drv, late)
    BY <1>2, <2>2 DEF AsFound, Iterxs
  <2> QED BY <1>3, <1>5, <2>1, <2>3
<1>6. CASE ~StrictStop(i) /\ Panic(op, c)
  <2>1. AsFound(c, drv, late)
    BY <1>4, <1>6
  <2> HIDE DEF c
  <2> QED BY <1>2, <1>6, <2>1, PanicTells
<1>7. CASE /\ ~StrictStop(i) /\ it' = c
           /\ call' = [op |-> op, direct |-> FALSE, from |-> taken, fresh |-> ~used,
                       width |-> IF c.bound THEN ColumnCount ELSE 0]
           /\ UNCHANGED <<drv, ret, out>>
  <2>1. AsFound(c, drv, late)
    BY <1>4, <1>7
  <2>2. /\ call'.from = taken /\ call'.fresh = ~used /\ call'.op = op /\ ~call'.direct
        /\ c.bound \/ call'.width = 0
    BY <1>7
  <2> HIDE DEF c
  <2> QED BY <1>2, <1>7, <2>1, <2>2, ScanBegun
<1> QED BY <1>5, <1>6, <1>7, <1>8 DEF structScan

LEMMA ScanOrStructScanTells ==
    ASSUME TypeOK, Outcomes, Ready, used', UNCHANGED <<dtype, taken, late>>,
           NEW op \in Ops \ {"Close"}, NEW i \in Iterxs, i.err = it.err,
           AsFound(i, drv, late),
           op \in CASOps => ~used, op = "ExecCAS" => i.structOnly,
           ScanOrStructScan(op, i)
    PROVE  Outcomes'
<1>1. ASSUME NEW e \in {"type", "columns"},
             Leave(op, [i EXCEPT !.err = e], drv, FALSE, <<>>)
      PROVE  Outcomes'
  <2>1. [i EXCEPT !.err = e] \in Iterxs /\ [i EXCEPT !.err = e].err # "none"
    BY DEF Iterxs, Errors
  <2>2. AsFound([i EXCEPT !.err = e], drv, late)
    BY DEF AsFound, Iterxs
  <2> QED BY <1>1, <2>1, <2>2, RefusedTells
<1>2. CASE isScannable /\ ~i.structOnly /\ scan(op, i)
  <2>1. /\ it' = i /\ UNCHANGED <<drv, ret>>
        /\ call'.from = taken /\ call'.fresh = ~used /\ call'.op = op /\ call'.direct
    BY <1>2 DEF scan
  <2>2. ~VerdictWanted(op)
    BY <1>2 DEF VerdictWanted, isScannable
  <2> QED BY <2>1, <2>2, ScanBegun
<1>3. CASE structScan(op, i)
  BY <1>3, structScanTells
<1> QED BY <1>1, <1>2, <1>3 DEF ScanOrStructScan

LEMMA CallsTell ==
    ASSUME TypeOK, Outcomes, StructScan \/ Scan \/ Get \/ Select \/ GetCAS \/ ExecCAS
    PROVE  Outcomes'
<1>1. it \in Iterxs /\ AsFound(it, drv, late)
  BY DEF TypeOK, Outcomes, CacheKept
<1>2. /\ \A op \in {"StructScan", "Get", "Select", "GetCAS", "ExecCAS"} :
             op \in Ops \ {"Close"}
      /\ CASOps = {"GetCAS", "ExecCAS"}
  BY DEF Ops, CASOps
<1>3. Ready /\ used' /\ UNCHANGED <<dtype, taken, late>>
  BY DEF StructScan, Scan, Get, Select, GetCAS, ExecCAS, Begin
<1>4. ASSUME NEW op \in Ops \ {"Close"}, NEW e \in {"pointer", "slice"},
             Leave(op, [it EXCEPT !.err = e], drv, FALSE, <<>>)
      PROVE  Outcomes'
  <2>1. [it EXCEPT !.err = e] \in Iterxs /\ [it EXCEPT !.err = e].err # "none"
    BY <1>1 DEF Iterxs, Errors
  <2>2. AsFound([it EXCEPT !.err = e], drv, late)
    BY <1>1 DEF AsFound, Iterxs
  <2> QED BY <1>3, <1>4, <2>1, <2>2, RefusedTells
<1>5. CASE StructScan
  BY <1>1, <1>2, <1>3, <1>4, <1>5, structScanTells DEF StructScan, BadPointer
<1>6. CASE Scan
  <2>1. /\ it' = it /\ UNCHANGED <<drv, ret>> /\ call'.from = taken /\ call'.fresh = ~used
        /\ call'.op = "Scan" /\ call'.direct
    BY <1>6 DEF Scan
  <2>2. "Scan" \in Ops \ {"Close"} /\ "Scan" \notin CASOps
    BY DEF Ops, CASOps
  <2> QED BY <1>1, <1>3, <2>1, <2>2, ScanBegun
<1>7. CASE Get
  BY <1>1, <1>2, <1>3, <1>4, <1>7, ScanOrStructScanTells DEF Get, BadPointer
<1>8. CASE Select
  BY <1>1, <1>2, <1>3, <1>4, <1>8, ScanOrStructScanTells DEF Select, BadPointer
<1>9. CASE GetCAS
  BY <1>1, <1>2, <1>3, <1>4, <1>9, ScanOrStructScanTells DEF GetCAS, BadPointer
<1>10. CASE ExecCAS
  <2>1. /\ [it EXCEPT !.structOnly = TRUE] \in Iterxs
        /\ AsFound([it EXCEPT !.structOnly = TRUE], drv, late)
        /\ [it EXCEPT !.structOnly = TRUE].err = it.err
        /\ [it EXCEPT !.structOnly = TRUE].structOnly
    BY <1>1 DEF Iterxs, AsFound
  <2> QED BY <1>2, <1>3, <1>10, <2>1, ScanOrStructScanTells DEF ExecCAS
<1> QED BY <1>5, <1>6, <1>7, <1>8, <1>9, <1>10

(* Strict, StructOnly and Close.                                            *)
LEMMA SettersTell == ASSUME TypeOK, Outcomes, Strict \/ StructOnly PROVE Outcomes'
<1>1. Ready /\ UNCHANGED <<dtype, drv, call, ret, taken, delivered, used>>
  BY DEF Strict, StructOnly, Ready, history
<1>2. /\ it'.bound = it.bound /\ it'.fields = it.fields /\ it'.err = it.err
      /\ it'.applied = it.applied
      /\ it'.strict /\ ~late' => it.bound = FALSE \/ (it.strict /\ ~late)
  <2>1. CASE Strict
    BY <2>1 DEF Strict, TypeOK, Iterxs, Outcomes, CacheKept, AsFound
  <2>2. CASE StructOnly
    BY <2>2 DEF StructOnly, history, TypeOK, Iterxs
  <2> QED BY <2>1, <2>2
<1>3. CallIsFresh' /\ GetReturned' /\ ErrorsTold'
  BY <1>1, <1>2 DEF Outcomes, CallIsFresh, VerdictWanted, GetReturned, GetTold, VerdictTold,
                    ErrorsTold
<1>4. CacheKept'
  BY <1>1, <1>2 DEF Ready, Outcomes, CacheKept, AsFound
<1> QED BY <1>3, <1>4 DEF Outcomes

LEMMA CloseTells == ASSUME TypeOK, Outcomes, Close PROVE Outcomes'
<1>1. /\ call = Idle /\ UNCHANGED <<dtype, call, taken, delivered, late>> /\ used'
      /\ it' = [it EXCEPT !.err = CloseErr(it.err, drv.err)]
      /\ drv' = [drv EXCEPT !.closed = TRUE]
      /\ ret'.op = "Close" /\ ret'.err = CloseErr(it.err, drv.err)
      /\ it \in Iterxs /\ drv \in DriverIters
  BY DEF Close, Closed, Return, TypeOK
<1>2. /\ drv'.closed = TRUE /\ drv'.err = drv.err /\ drv'.pos = drv.pos
      /\ drv'.cas = drv.cas /\ drv'.cols = drv.cols /\ drv'.lwt = drv.lwt
      /\ it'.err = CloseErr(it.err, drv.err) /\ it'.bound = it.bound
      /\ it'.applied = it.applied
      /\ it'.fields = it.fields /\ it'.strict = it.strict
  BY <1>1 DEF DriverIters, Iterxs
<1>3. CallIsFresh' /\ GetReturned'
  BY <1>1, <1>2 DEF Outcomes, CallIsFresh, GetReturned, GetOps, CASOps
<1>4. ErrorsTold'
  BY <1>1, <1>2 DEF ErrorsTold, CloseErr
<1>5. CacheKept'
  BY <1>1, <1>2 DEF Outcomes, CacheKept, AsFound
<1> QED BY <1>3, <1>4, <1>5 DEF Outcomes

-----------------------------------------------------------------------------
(* The driver's answers.                                                    *)
LEMMA DriverTells == ASSUME TypeOK, Inherited, Outcomes, Driver PROVE Outcomes'
<1>1. /\ drv \in DriverIters /\ InPage(drv) /\ it \in Iterxs /\ call \in Calls
      /\ taken \in Nat /\ delivered \in Nat /\ drv.n \in Nat /\ drv.pos \in Nat
      /\ used \in BOOLEAN
  BY DEF TypeOK, DriverIters
<1>2. call # Idle
  BY DEF Driver, Row, BadRow, NextPage, PageFails, End, RowReady, Waiting
<1>3. /\ call.op \in Ops /\ call.from \in Nat /\ ~drv.closed /\ used
      /\ call.op # "Select" => call.from = taken
      /\ call.fresh => call.from = 0
      /\ call.op \in CASOps => call.fresh /\ (VerdictWanted(call.op) => ~call.direct)
      /\ delivered = taken + (drv.n - drv.pos) /\ drv.pos <= taken
  BY <1>1, <1>2 DEF Calls, Inherited, CallHoldsRun, RowsAccounted, Outcomes, CallIsFresh
<1>4. AsFound(it, drv, late) /\ (~call.direct => it.bound \/ call.width = 0)
  BY <1>2 DEF Outcomes, CacheKept
<1>5. call.op \in GetOps => call.op # "Select"
  BY DEF GetOps, CASOps
<1>6. UNCHANGED <<dtype, used, late>>
  BY DEF Driver, Row, BadRow, NextPage, PageFails, End, history
<1>7. ASSUME NEW d \in DriverIters, ScanIsFalse(d), UNCHANGED <<taken, delivered>>,
             d.pos <= taken, AsFound(it, d, late),
             d.err # "none" \/ (d.n = d.pos /\ delivered = taken /\ ~d.more)
      PROVE  Outcomes'
  <2>1. Leave(call.op, it, d, FALSE, out)
    BY <1>7 DEF ScanIsFalse
  <2>2. call.op # "Close"
    BY <2>1 DEF Leave, CASOps
  <2> DEFINE e == GetErr(it.err, d.err, d.n)
  <2>3. it.err # "notfound" /\ d.err # "notfound"
    BY <1>1, <1>7 DEF Iterxs, DriverIters, Errors
  <2>4. call.op \in GetOps /\ call.fresh =>
          /\ e # "none"
          /\ e = "notfound" => delivered = 0 /\ ~d.more /\ d.err = "none"
    <3>1. SUFFICES ASSUME call.op \in GetOps, call.fresh
                   PROVE  /\ e # "none"
                          /\ e = "notfound" => delivered = 0 /\ ~d.more /\ d.err = "none"
      OBVIOUS
    <3>2. taken = 0 /\ d.pos \in Nat
      BY <1>3, <1>5, <1>7, <3>1 DEF DriverIters
    <3>3. d.err # "none" \/ (d.n = 0 /\ delivered = 0 /\ ~d.more)
      BY <1>7, <3>2
    <3> QED BY <2>3, <3>3 DEF GetErr, CloseErr, checkErrAndNotFound
  <2>5. call.op \in GetOps => GetTold(call.fresh, e, out, delivered', d)
    BY <1>7, <2>4 DEF GetTold
  <2>6. VerdictTold(call.op, e, it.applied, d)
    BY <1>3, <2>4 DEF VerdictTold, GetOps
  <2> HIDE DEF e
  <2>7. d.pos <= taken' /\ used' /\ UNCHANGED dtype /\ AsFound(it, d, late')
    BY <1>3, <1>6, <1>7
  <2> QED BY <1>1, <1>2, <1>3, <2>1, <2>2, <2>5, <2>6, <2>7, LeaveTells DEF e
<1>8. CASE Row
  <2> DEFINE d == [drv EXCEPT !.pos = @ + 1]
             i == [it EXCEPT !.applied = Applied]
  <2>1. /\ d \in DriverIters /\ d.pos = drv.pos + 1 /\ d.n = drv.n /\ d.cas = drv.cas
        /\ d.lwt = drv.lwt /\ d.cols = drv.cols /\ d.err = drv.err /\ d.closed = drv.closed
    BY <1>1 DEF DriverIters
  <2>2. /\ i \in Iterxs /\ i.applied = Applied /\ i.bound = it.bound /\ i.strict = it.strict
        /\ i.fields = it.fields
    BY <1>1 DEF Applied, Iterxs, DriverIters
  <2>3. taken' = taken + 1 /\ delivered' = delivered /\ drv.pos < drv.n
    BY <1>8 DEF Row, RowReady
  <2>8. drv.cas => (i.applied => drv.lwt) /\ (VerdictWanted(call.op) /\ ~call.direct
                                                => i.applied = drv.lwt)
    <3>1. CASE Applied = drv.lwt
      BY <2>2, <3>1
    <3>2. CASE Applied = it.applied
               /\ (call.direct \/ appliedColumn \in dtype.fields \/ ~drv.cas)
      BY <1>4, <2>2, <3>2 DEF AsFound, VerdictWanted
    <3> QED BY <1>4, <3>1, <3>2 DEF AsFound, Applied
  <2>4. AsFound(i, d, late) /\ d.pos <= taken'
    <3>1. d.pos <= taken'
      BY <1>1, <1>3, <2>1, <2>3
    <3>2. AsFound(i, d, late)
      <4> HIDE DEF i, d
      <4> QED BY <1>4, <2>1, <2>2, <2>8 DEF AsFound
    <3> QED BY <3>1, <3>2
  <2>5. CASE call.op # "Select" /\ Leave(call.op, i, d, TRUE, <<taken + 1>>)
    <3>1. call.op # "Close"
      BY <2>5 DEF Leave, CASOps
    <3> DEFINE e == GetErr(i.err, d.err, d.n)
    <3>2. e # "notfound"
      <4>1. i.err # "notfound" /\ d.err # "notfound"
        BY <2>1, <2>2 DEF Iterxs, DriverIters, Errors
      <4>2. d.n # 0
        BY <1>1, <2>1, <2>3
      <4> QED BY <4>1, <4>2 DEF GetErr, CloseErr, checkErrAndNotFound
    <3>3. GetTold(call.fresh, e, <<taken + 1>>, delivered', d)
      <4>1. call.fresh => <<taken + 1>> = <<1>>
        BY <1>1, <1>3, <2>5
      <4> QED BY <3>2, <4>1 DEF GetTold
    <3>4. VerdictTold(call.op, e, i.applied, d)
      <4> HIDE DEF d, i, e
      <4> QED BY <1>3, <2>1, <2>8 DEF VerdictTold
    <3>5. used' /\ UNCHANGED dtype /\ AsFound(i, d, late')
      BY <1>3, <1>6, <2>4
    <3> HIDE DEF d, i, e
    <3> QED BY <1>2, <1>3, <2>1, <2>2, <2>4, <2>5, <3>1, <3>3, <3>4, <3>5, LeaveTells DEF e
  <2>6. CASE call.op = "Select" /\ it' = i /\ drv' = d /\ UNCHANGED <<call, ret>>
    <3>1. /\ drv'.pos = d.pos /\ drv'.cas = d.cas /\ drv'.cols = d.cols
          /\ it'.bound = i.bound /\ it'.strict = i.strict /\ it'.fields = i.fields
      BY <2>6
    <3> HIDE DEF d, i
    <3>2. CallIsFresh'
      BY <1>1, <1>2, <1>3, <1>6, <2>1, <2>3, <2>4, <2>6, <3>1 DEF CallIsFresh, CASOps
    <3>3. ret.op \notin Closers /\ ret.op \notin GetOps
      BY <1>3 DEF Outcomes, ErrorsTold, GetOps, Closers
    <3>4. GetReturned' /\ ErrorsTold'
      BY <2>6, <3>3 DEF GetReturned, ErrorsTold, GetOps, Closers
    <3>5. CacheKept'
      BY <1>4, <1>6, <2>2, <2>4, <2>6, <3>1 DEF CacheKept, AsFound
    <3> QED BY <3>2, <3>4, <3>5 DEF Outcomes
  <2> QED BY <1>8, <2>5, <2>6 DEF Row
<1>9. CASE BadRow
  <2> DEFINE d == [drv EXCEPT !.err = "row"]
  <2>1. /\ d \in DriverIters /\ d.pos = drv.pos /\ d.err = "row" /\ d.cas = drv.cas
        /\ d.cols = drv.cols
    BY <1>1 DEF DriverIters, Errors
  <2>2. ScanIsFalse(d) /\ UNCHANGED <<taken, delivered>> /\ AsFound(it, d, late)
    BY <1>4, <1>9, <2>1 DEF BadRow, history, AsFound
  <2> HIDE DEF d
  <2> QED BY <1>3, <1>7, <2>1, <2>2
<1>10. CASE NextPage
  <2>1. PICK n \in 0..MaxPage, more \in BOOLEAN :
             drv' = [drv EXCEPT !.n = n, !.pos = 0, !.more = more]
    BY <1>10 DEF NextPage
  <2>2. drv'.pos = 0 /\ drv'.cas = drv.cas /\ drv'.cols = drv.cols /\ drv'.lwt = drv.lwt
    BY <1>1, <2>1 DEF DriverIters
  <2>3. UNCHANGED <<taken, it, call, ret>>
    BY <1>10 DEF NextPage
  <2>4. CallIsFresh'
    BY <1>1, <1>2, <1>3, <1>6, <2>2, <2>3 DEF CallIsFresh, VerdictWanted
  <2>5. ret.op \notin Closers /\ ret.op \notin GetOps
    BY <1>3 DEF Outcomes, ErrorsTold, GetOps, Closers
  <2>6. GetReturned' /\ ErrorsTold'
    BY <2>3, <2>5 DEF GetReturned, ErrorsTold, GetOps, Closers
  <2>7. CacheKept'
    BY <1>4, <1>6, <2>2, <2>3 DEF CacheKept, AsFound
  <2> QED BY <2>4, <2>6, <2>7 DEF Outcomes
<1>11. CASE PageFails
  <2> DEFINE d == [FailedAnswer EXCEPT !.err = "page"]
  <2>1. d \in DriverIters /\ d.pos = 0 /\ d.err = "page" /\ d.cols = {} /\ ~d.cas
    BY DEF FailedAnswer, DriverIters, Errors
  <2>2. ScanIsFalse(d) /\ UNCHANGED <<taken, delivered>>
    BY <1>11 DEF PageFails, history
  <2>3. AsFound(it, d, late)
    BY <1>4, <2>1 DEF AsFound
  <2> HIDE DEF d
  <2> QED BY <1>1, <1>7, <2>1, <2>2, <2>3
<1>12. CASE End
  <2>1. ScanIsFalse(drv) /\ UNCHANGED <<taken, delivered>>
    BY <1>12 DEF End, history
  <2>2. drv.err # "none" \/ (drv.n = drv.pos /\ delivered = taken /\ ~drv.more)
    BY <1>1, <1>3, <1>12 DEF End, AtPageEnd
  <2> QED BY <1>1, <1>3, <1>4, <1>7, <2>1, <2>2
<1> QED BY <1>8, <1>9, <1>10, <1>11, <1>12 DEF Driver

LEMMA OutcomesHold == Spec => []Outcomes
<1>1. Init => Outcomes
  <2> SUFFICES ASSUME Init PROVE Outcomes
    OBVIOUS
  <2>1. drv.pos = 0
    <3>1. drv = FailedAnswer => drv.pos = 0
      BY DEF FailedAnswer
    <3>2. drv \in RowAnswers => drv.pos = 0
      BY DEF RowAnswers
    <3>3. drv \in CASAnswers => drv.pos = 0
      BY DEF CASAnswers
    <3> QED BY <3>1, <3>2, <3>3 DEF Init, FirstAnswers
  <2>2. it.bound = FALSE /\ it.applied = FALSE /\ it.fields = Unset
    BY DEF Init, NewIterx
  <2>3. call = Idle /\ ret.op = "idle" /\ taken = 0
    BY DEF Init, Silent
  <2> QED BY <2>1, <2>2, <2>3, NotUnset
          DEF Outcomes, CallIsFresh, GetReturned, GetOps, ErrorsTold, Closers, CASOps,
              CacheKept, AsFound
<1>2. TypeOK /\ Inherited /\ Outcomes /\ [Next]_vars => Outcomes'
  <2> SUFFICES ASSUME TypeOK, Inherited, Outcomes, [Next]_vars PROVE Outcomes'
    OBVIOUS
  <2>1. CASE Strict \/ StructOnly
    BY <2>1, SettersTell
  <2>2. CASE StructScan \/ Scan \/ Get \/ Select \/ GetCAS \/ ExecCAS
    BY <2>2, CallsTell
  <2>3. CASE Close
    BY <2>3, CloseTells
  <2>4. CASE Driver
    BY <2>4, DriverTells
  <2>5. CASE UNCHANGED vars
    <3>1. UNCHANGED <<dtype, drv, it, call, ret, taken, delivered, used, late>>
      BY <2>5 DEF vars, history
    <3>2. CallIsFresh' /\ ErrorsTold' /\ CacheKept'
      BY <3>1 DEF Outcomes, CallIsFresh, VerdictWanted, ErrorsTold, CacheKept, AsFound
    <3>3. /\ GetTold(ret.fresh, ret.err, ret.rows, delivered, drv)
              => GetTold(ret.fresh, ret.err, ret.rows, delivered, drv)'
          /\ VerdictTold(ret.op, ret.err, ret.applied, drv)
              => VerdictTold(ret.op, ret.err, ret.applied, drv)'
      BY <3>1 DEF GetTold, VerdictTold, VerdictWanted
    <3>4. GetReturned'
      BY <3>1, <3>3 DEF Outcomes, GetReturned
    <3> QED BY <3>2, <3>4 DEF Outcomes
  <2> QED BY <2>1, <2>2, <2>3, <2>4, <2>5 DEF Next
<1> QED BY <1>1, <1>2, TypeCorrect, Inductive, PTL DEF Spec

-----------------------------------------------------------------------------
(* Get on an iterator nothing has used reports nil only with the first row  *)
(* of the result, and ErrNotFound only for a result without rows that was   *)
(* read to its end.                                                         *)
THEOREM GetIsHonest == Spec => []GetHonest
<1>1. TypeOK /\ Outcomes => GetHonest
  BY DEF Outcomes, GetReturned, GetTold, GetOps, GetHonest
<1> QED BY <1>1, TypeCorrect, OutcomesHold, PTL

(* GetCAS and ExecCAS never report an applied transaction that the server   *)
(* did not apply; into a struct without a field for the verdict they report *)
(* what it decided.                                                         *)
THEOREM VerdictIsKept == Spec => []CASVerdict
<1>1. TypeOK /\ Outcomes => CASVerdict
  BY DEF Outcomes, GetReturned, VerdictTold, VerdictWanted, GetOps, CASVerdict
<1> QED BY <1>1, TypeCorrect, OutcomesHold, PTL
(* Once the wrapper or the driver has met an error, a call that closes the  *)
(* iterator does not return nil, and the wrapper's own error stays.         *)
THEOREM ErrorsAreReported == Spec => ErrorsSurface
<1>1. Outcomes => (ret.op \in {"Get", "Select", "Close"} \cup CASOps /\ drv.closed
                     /\ (it.err # "none" \/ drv.err # "none") => ret.err # "none")
  BY DEF Outcomes, ErrorsTold, Closers
<1>2. TypeOK /\ [Next]_vars => [it.err # "none" => it'.err # "none"]_vars
  <2> SUFFICES ASSUME TypeOK, Next, it.err # "none" PROVE it'.err # "none"
    OBVIOUS
  <2>1. it \in Iterxs
    BY DEF TypeOK
  <2>2. ASSUME NEW op, NEW i \in Iterxs, i.err # "none", NEW d, NEW ok, NEW rows,
               Leave(op, i, d, ok, rows)
        PROVE  it'.err # "none"
    BY <2>2 DEF Leave, Closed, CloseErr, Iterxs
  <2>3. Traversals \in SUBSET FieldNames
    BY DEF TypeOK, Traversals, ResultColumns, FieldNames, DriverIters
  <2>4. ASSUME NEW op, NEW i \in Iterxs, i.err # "none", structScan(op, i)
        PROVE  it'.err # "none"
    <3>1. Cached(i) \in Iterxs /\ Cached(i).err = i.err
      BY <2>3 DEF Cached, Iterxs
    <3>2. /\ [i EXCEPT !.fields = Traversals, !.err = "missing"] \in Iterxs
          /\ [i EXCEPT !.fields = Traversals, !.err = "missing"].err # "none"
      BY <2>3 DEF Iterxs, Errors
    <3>3. /\ [Cached(i) EXCEPT !.err = "type"] \in Iterxs
          /\ [Cached(i) EXCEPT !.err = "type"].err # "none"
      BY <3>1 DEF Iterxs, Errors
    <3> QED BY <2>2, <2>4, <3>1, <3>2, <3>3 DEF structScan, Panic
  <2>5. ASSUME NEW op, NEW i \in Iterxs, i.err # "none", ScanOrStructScan(op, i)
        PROVE  it'.err # "none"
    <3>1. ASSUME NEW e \in {"type", "columns"}
          PROVE  [i EXCEPT !.err = e] \in Iterxs /\ [i EXCEPT !.err = e].err # "none"
      BY DEF Iterxs, Errors
    <3> QED BY <2>2, <2>4, <2>5, <3>1 DEF ScanOrStructScan, scan
  <2>6. ASSUME NEW e \in {"pointer", "slice"}
        PROVE  [it EXCEPT !.err = e] \in Iterxs /\ [it EXCEPT !.err = e].err # "none"
    BY <2>1 DEF Iterxs, Errors
  <2>7. /\ [it EXCEPT !.structOnly = TRUE] \in Iterxs
        /\ [it EXCEPT !.structOnly = TRUE].err = it.err
    BY <2>1 DEF Iterxs
  <2>8. CASE Strict \/ StructOnly \/ Close
    BY <2>1, <2>8 DEF Strict, StructOnly, Close, Closed, CloseErr, Iterxs
  <2>9. CASE StructScan \/ Scan \/ Get \/ Select \/ GetCAS \/ ExecCAS
    BY <2>1, <2>2, <2>4, <2>5, <2>6, <2>7, <2>9
       DEF StructScan, Scan, Get, Select, GetCAS, ExecCAS, BadPointer
  <2>10. CASE Driver
    <3>1. CASE Row
      <4>1. /\ [it EXCEPT !.applied = Applied] \in Iterxs
            /\ [it EXCEPT !.applied = Applied].err = it.err
        BY <2>1 DEF Applied, Iterxs, TypeOK, DriverIters
      <4> QED BY <2>2, <3>1, <4>1 DEF Row
    <3>2. CASE BadRow \/ PageFails \/ End
      BY <2>1, <2>2, <3>2 DEF BadRow, PageFails, End, ScanIsFalse
    <3>3. CASE NextPage
      BY <3>3 DEF NextPage
    <3> QED BY <2>10, <3>1, <3>2, <3>3 DEF Driver
  <2> QED BY <2>8, <2>9, <2>10 DEF Next
<1> QED BY <1>1, <1>2, TypeCorrect, OutcomesHold, PTL DEF Spec, ErrorsSurface

(* On an iterator that was strict when its fields were cached, no row goes  *)
(* into a struct that lacks one of its columns.                             *)
THEOREM StrictIsRespected == Spec => StrictRespected
<1>1. TypeOK /\ Outcomes /\ [Next]_vars
        => [ (taken' # taken /\ ~call.direct /\ it.strict /\ ~late /\ ~drv.cas)
               => drv.cols \subseteq dtype.fields ]_vars
  <2> SUFFICES ASSUME TypeOK, Outcomes, Next, taken' # taken,
                      ~call.direct, it.strict, ~late, ~drv.cas
               PROVE  drv.cols \subseteq dtype.fields
    OBVIOUS
  <2>1. Row
    BY DEF Next, Strict, StructOnly, StructScan, Scan, Get, Select, GetCAS, ExecCAS, Begin,
           Close, Driver, BadRow, NextPage, PageFails, End, history
  <2>2. call # Idle /\ call.width = ColumnCount
    BY <2>1 DEF Row, RowReady, Waiting
  <2>3. CASE it.bound
    BY <2>3 DEF Outcomes, CacheKept, AsFound
  <2>4. CASE call.width = 0
    <3>1. drv.cols \subseteq Columns /\ IsFiniteSet(drv.cols)
      BY ColumnsAssumption, FS_Subset DEF TypeOK, DriverIters
    <3>2. Cardinality(drv.cols) = 0
      BY <2>2, <2>4, <3>1, FS_CardinalityType DEF ColumnCount
    <3>3. drv.cols = {}
      BY <3>1, <3>2, FS_EmptySet
    <3> QED BY <3>3
  <2> QED BY <2>2, <2>3, <2>4 DEF Outcomes, CacheKept
<1> QED BY <1>1, TypeCorrect, OutcomesHold, PTL DEF Spec, StrictRespected

-----------------------------------------------------------------------------
(* That an Iterx is a RowStream, whatever calls are made of it and whatever *)
(* pages and errors the driver meets.                                       *)

(* The abstract variables, where they are not the detailed ones.            *)
Held == Len(out)
EndOf(d) == d.err # "none" \/ (d.pos = d.n /\ ~d.more)
FailedOf(i, d) == i.err # "none" \/ d.err # "none"
HeldAnd(n) == [k \in 1 .. Held + n |-> taken - Held + k]
LastOf == [kind |-> AbstractCall, rows |-> ret.rows, err |-> ret.err # "none"]

(* The abstract steps in these terms.                                       *)
Steps ==
    \/ Stream!Hold \/ Stream!Exhaust \/ Stream!Break
    \/ \E kind \in Stream!Calls, n \in {0, 1} : Stream!Return(kind, n)
    \/ UNCHANGED Stream!vars

LEMMA StepsSuffice == Steps => [Stream!Next]_(Stream!vars)
BY DEF Steps, Stream!Next

LEMMA KindsAreCalls ==
    ASSUME NEW op \in Ops
    PROVE  KindOf(op) \in Stream!Calls
BY DEF KindOf, Ops, CASOps, Stream!Calls

(* What is held is what a call has taken.                                   *)
LEMMA HeldRows ==
    ASSUME TypeOK, Inherited
    PROVE  /\ call = Idle => out = <<>> /\ Held = 0
           /\ call # Idle => /\ Held = taken - call.from
                             /\ out = [k \in 1 .. Held |-> taken - Held + k]
                             /\ call.op # "Select" => Held = 0
<1>1. taken \in Nat
  BY DEF TypeOK
<1>2. CASE call = Idle
  BY <1>2 DEF Inherited, CallHoldsRun, Held
<1>3. CASE call # Idle
  <2>1. /\ call.from \in Nat /\ call.from <= taken /\ out = Run(call.from, taken)
        /\ call.op # "Select" => call.from = taken
    BY <1>3 DEF TypeOK, Calls, Inherited, CallHoldsRun
  <2>2. Held = taken - call.from
    <3>1. PICK from \in Nat : from = call.from
      BY <2>1
    <3>2. Len(Run(from, taken)) = taken - from
      BY <1>1, <2>1, <3>1, RunType
    <3> QED BY <2>1, <3>1, <3>2 DEF Held
  <2>3. taken - Held = call.from
    BY <1>1, <2>1, <2>2
  <2> QED BY <1>1, <1>3, <2>1, <2>2, <2>3 DEF Run
<1> QED BY <1>2, <1>3

LEMMA RowsLeft ==
    ASSUME NEW op, NEW i, NEW d, NEW ok, NEW rows, Leave(op, i, d, ok, rows)
    PROVE  ret'.rows = rows
<1>1. ASSUME NEW e, NEW a, Return(op, e, ok, a, rows) PROVE ret'.rows = rows
  BY <1>1 DEF Return
<1> QED BY <1>1 DEF Leave

LEMMA NothingTaken ==
    ASSUME taken \in Nat, taken' = taken, EndOf(drv) => EndOf(drv)'
    PROVE  Stream!Take(0)
<1>1. EndOf(drv)' \in {EndOf(drv), TRUE}
  <2>1. EndOf(drv) \in BOOLEAN /\ EndOf(drv)' \in BOOLEAN
    BY DEF EndOf
  <2> QED BY <2>1
<1>2. PICK n \in {0, 1} : n = 0
  OBVIOUS
<1>3. taken' = taken + n /\ n # 1
  BY <1>2
<1>4. Stream!Take(n)
  BY <1>1, <1>3 DEF Stream!Take, EndOf
<1> QED BY <1>2, <1>4

(* What there is to show of a call that returns.                            *)
LEMMA ReturnSuffices ==
    ASSUME NEW kind, NEW n, NEW err \in BOOLEAN,
           Stream!Take(n), Held' = 0,
           FailedOf(it, drv)' \in {FailedOf(it, drv), TRUE},
           drv.closed' = (drv.closed \/ kind \in Stream!Closing),
           LastOf' = Stream!Given(kind, HeldAnd(n), err),
           kind \in Stream!Closing /\ FailedOf(it, drv)' => err,
           kind \in {"all", "close"} /\ ~FailedOf(it, drv)' => ~err,
           kind = "all" /\ ~err => EndOf(drv)',
           kind = "next" /\ Held + n = 0 => EndOf(drv)' \/ FailedOf(it, drv)'
    PROVE  Stream!Return(kind, n)
BY DEF Stream!Return, HeldAnd, Held, FailedOf, EndOf, LastOf

(* A call that returns, after n rows of its last scan.                      *)
LEMMA LeaveReturns ==
    ASSUME TypeOK,
           NEW op \in Ops \ {"Close"}, NEW i \in Iterxs, NEW d \in DriverIters,
           NEW ok, NEW rows, NEW n \in {0, 1},
           Leave(op, i, d, ok, rows), taken' = taken + n,
           rows = HeldAnd(n),
           op # "Select" => Held = 0,
           n = 1 => op # "Select" /\ ~EndOf(drv),
           n = 0 => FailedOf(i, d) \/ EndOf(d),
           EndOf(drv) => EndOf(d),
           it.err # "none" => i.err # "none", drv.err # "none" => d.err # "none",
           ~drv.closed, ~d.closed
    PROVE  Stream!Return(KindOf(op), n)
<1>1. /\ out' = <<>> /\ drv'.n = d.n /\ drv'.pos = d.pos /\ drv'.more = d.more /\ ret'.op = op
  BY LeaveFacts
<1>2. drv'.err = d.err /\ (FailedOf(it', drv') <=> FailedOf(i, d))
  BY DEF Leave, Closed, CloseErr, FailedOf, DriverIters, Iterxs
<1>3. (EndOf(drv)' <=> EndOf(d)) /\ Held' = 0
  BY <1>1, <1>2 DEF EndOf, Held
<1>4. ret'.rows = rows
  BY RowsLeft
<1>5. KindOf(op) \in {"next", "one", "all"} /\ (KindOf(op) = "next" <=> op \in {"StructScan", "Scan"})
      /\ (KindOf(op) = "all" <=> op = "Select")
  BY DEF KindOf, Ops, CASOps
<1>6. drv'.closed <=> KindOf(op) \in Stream!Closing
  BY <1>5 DEF Leave, Closed, CASOps, Ops, Stream!Closing, Stream!Calls, DriverIters
<1>7. KindOf(op) \in {"one", "all"} /\ FailedOf(i, d) => ret'.err # "none"
  BY <1>5 DEF Leave, Return, FailedOf, GetErr, SelectErr, CloseErr, checkErrAndNotFound
<1>8. KindOf(op) = "all" /\ ~FailedOf(i, d) => ret'.err = "none"
  BY <1>5 DEF Leave, Return, CASOps, FailedOf, SelectErr, CloseErr
<1>9. ret'.err # "panic"
  <2>1. {i.err, d.err} \subseteq Errors /\ "panic" \notin Errors
    BY DEF Iterxs, DriverIters, Errors
  <2>2. CloseErr(i.err, d.err) # "panic" /\ GetErr(i.err, d.err, d.n) # "panic"
    BY <2>1 DEF GetErr, CloseErr, checkErrAndNotFound
  <2> QED BY <2>1, <2>2 DEF Leave, Return, SelectErr
<1>10. /\ EndOf(drv)' \in {EndOf(drv), TRUE}
       /\ FailedOf(it, drv)' \in {FailedOf(it, drv), TRUE}
  <2>1. FailedOf(it, drv) => FailedOf(it, drv)'
    BY <1>2 DEF FailedOf
  <2>2. EndOf(drv) => EndOf(drv)'
    BY <1>3
  <2>3. EndOf(drv) \in BOOLEAN /\ FailedOf(it, drv) \in BOOLEAN
        /\ EndOf(drv)' \in BOOLEAN /\ FailedOf(it, drv)' \in BOOLEAN
    BY DEF EndOf, FailedOf
  <2> QED BY <2>1, <2>2, <2>3
<1>11. drv.closed' = (drv.closed \/ KindOf(op) \in Stream!Closing)
  <2>1. drv' = d \/ drv'.closed = TRUE
    BY DEF Leave, Closed, DriverIters
  <2> QED BY <1>6, <2>1 DEF DriverIters, TypeOK
<1>12. Stream!Take(n)
  BY <1>10 DEF Stream!Take, EndOf
<1>13. LastOf' = Stream!Given(KindOf(op), HeldAnd(n), ret'.err # "none")
  BY <1>1, <1>4, <1>9 DEF Stream!Given, LastOf, AbstractCall
<1>14. KindOf(op) \in Stream!Closing => KindOf(op) \in {"one", "all"}
  BY <1>5 DEF Stream!Closing, Stream!Calls
<1>15. FailedOf(it, drv)' <=> FailedOf(i, d)
  BY <1>2 DEF FailedOf
<1>16. KindOf(op) = "all" /\ ret'.err = "none" => EndOf(drv)'
  BY <1>3, <1>5, <1>7
<1>17. KindOf(op) = "next" /\ Held + n = 0 => EndOf(drv)' \/ FailedOf(it, drv)'
  BY <1>3, <1>5, <1>15
<1> QED BY <1>3, <1>5, <1>7, <1>8, <1>10, <1>11, <1>12, <1>13, <1>14, <1>15, <1>16, <1>17,
           ReturnSuffices

-----------------------------------------------------------------------------
(* A call that goes no further than an error of the wrapper.                *)
LEMMA RefusedReturns ==
    ASSUME TypeOK, Inherited, Ready, UNCHANGED taken,
           NEW op \in Ops \ {"Close"}, NEW i \in Iterxs, i.err # "none",
           Leave(op, i, drv, FALSE, <<>>)
    PROVE  Stream!Return(KindOf(op), 0)
<1>1. /\ drv \in DriverIters /\ taken \in Nat /\ call = Idle /\ ~drv.closed
      /\ taken' = taken + 0
  BY DEF TypeOK, Ready
<1>2. Held = 0 /\ <<>> = HeldAnd(0)
  BY <1>1, HeldRows DEF HeldAnd
<1>3. FailedOf(i, drv)
  BY DEF FailedOf
<1>4. PICK n \in {0, 1} : n = 0
  OBVIOUS
<1>5. /\ taken' = taken + n /\ <<>> = HeldAnd(n) /\ Held = 0 /\ n # 1
      /\ n = 0 => FailedOf(i, drv) \/ EndOf(drv)
      /\ it.err # "none" => i.err # "none"
  BY <1>1, <1>2, <1>3, <1>4
<1>6. Stream!Return(KindOf(op), n)
  BY <1>1, <1>5, LeaveReturns
<1> QED BY <1>4, <1>6

(* A panic comes after an error only: the values were not allocated because *)
(* the strict check had failed.                                             *)
LEMMA PanicBreaks ==
    ASSUME TypeOK, Inherited, Ready, UNCHANGED taken,
           NEW op \in Ops, NEW i \in Iterxs, i.err = it.err, ValuesAllocated(i),
           i.fields # Unset, OutOfRange(i), Panic(op, i)
    PROVE  Stream!Break
<1>1. i.err # "none"
  BY DEF OutOfRange, ValuesAllocated
<1>2. /\ it'.err = it.err /\ drv' = [drv EXCEPT !.closed = TRUE] /\ out' = <<>>
      /\ ret'.rows = <<>> /\ ret'.err = "panic"
  BY DEF Panic, Return
<1>3. /\ drv'.err = drv.err /\ drv'.pos = drv.pos /\ drv'.n = drv.n /\ drv'.more = drv.more
      /\ drv'.closed = TRUE
  BY <1>2 DEF TypeOK, DriverIters
<1>4. LastOf' = Stream!Given("broken", <<>>, TRUE)
  BY <1>2 DEF LastOf, AbstractCall, Stream!Given
<1>5. FailedOf(it, drv) /\ FailedOf(it, drv)' = FailedOf(it, drv)
  BY <1>1, <1>2, <1>3 DEF FailedOf
<1>6. Stream!Take(0) /\ Held' = 0
  <2>1. EndOf(drv)' = EndOf(drv) /\ taken \in Nat
    BY <1>2, <1>3 DEF EndOf, TypeOK
  <2> QED BY <1>2, <2>1, NothingTaken DEF Held
<1> QED BY <1>3, <1>4, <1>5, <1>6
        DEF Stream!Break, Stream!Take, FailedOf, EndOf, LastOf, Held

(* A step that the caller cannot see.                                       *)
LEMMA Invisible ==
    ASSUME UNCHANGED <<drv, ret, out, taken>>, it'.err = it.err
    PROVE  UNCHANGED Stream!vars
<1>1. UNCHANGED <<AbstractCall, ret.rows, ret.err>>
  BY DEF AbstractCall, KindOf
<1> QED BY <1>1 DEF Stream!vars

LEMMA structScanSteps ==
    ASSUME TypeOK, Inherited, Ready, UNCHANGED taken,
           NEW op \in Ops \ {"Close"}, NEW i \in Iterxs, ValuesAllocated(i), i.err = it.err,
           structScan(op, i)
    PROVE  Steps
<1> DEFINE c == Cached(i)
<1>1. drv \in DriverIters /\ Traversals \in SUBSET FieldNames
  BY DEF TypeOK, Traversals, ResultColumns, FieldNames, DriverIters
<1>2. c \in Iterxs /\ ValuesAllocated(c) /\ c.err = i.err
  BY <1>1 DEF Cached, Iterxs, ValuesAllocated
<1>3. c.fields # Unset \/ c.bound
  BY DEF Cached, Iterxs
<1>4. ASSUME NEW j \in Iterxs, j.err # "none", Leave(op, j, drv, FALSE, <<>>)
      PROVE  Steps
  <2>1. Stream!Return(KindOf(op), 0)
    BY <1>4, RefusedReturns
  <2> QED BY <2>1, KindsAreCalls DEF Steps
<1>5. CASE Leave(op, [i EXCEPT !.fields = Traversals, !.err = "missing"], drv, FALSE, <<>>)
  <2>1. /\ [i EXCEPT !.fields = Traversals, !.err = "missing"] \in Iterxs
        /\ [i EXCEPT !.fields = Traversals, !.err = "missing"].err # "none"
    BY <1>1 DEF Iterxs, Errors
  <2> QED BY <1>4, <1>5, <2>1
<1>6. CASE Leave(op, [c EXCEPT !.err = "type"], drv, FALSE, <<>>)
  <2>1. [c EXCEPT !.err = "type"] \in Iterxs /\ [c EXCEPT !.err = "type"].err # "none"
    BY <1>2 DEF Iterxs, Errors
  <2> QED BY <1>4, <1>6, <2>1
<1>7. CASE OutOfRange(c) /\ Panic(op, c)
  <2>1. c.fields # Unset
    BY <1>3, <1>7 DEF OutOfRange
  <2> HIDE DEF c
  <2>2. Stream!Break
    BY <1>2, <1>7, <2>1, PanicBreaks
  <2> QED BY <2>2 DEF Steps
<1>8. CASE it' = c /\ UNCHANGED <<drv, ret, out>>
  <2>1. UNCHANGED Stream!vars
    BY <1>2, <1>8, Invisible
  <2> QED BY <2>1 DEF Steps
<1> QED BY <1>5, <1>6, <1>7, <1>8 DEF structScan

LEMMA ScanOrStructScanSteps ==
    ASSUME TypeOK, Inherited, Ready, UNCHANGED taken,
           NEW op \in Ops \ {"Close"}, NEW i \in Iterxs, ValuesAllocated(i), i.err = it.err,
           ScanOrStructScan(op, i)
    PROVE  Steps
<1>1. ASSUME NEW e \in {"type", "columns"},
             Leave(op, [i EXCEPT !.err = e], drv, FALSE, <<>>)
      PROVE  Steps
  <2>1. [i EXCEPT !.err = e] \in Iterxs /\ [i EXCEPT !.err = e].err # "none"
    BY DEF Iterxs, Errors
  <2>2. Stream!Return(KindOf(op), 0)
    BY <1>1, <2>1, RefusedReturns
  <2> QED BY <2>2, KindsAreCalls DEF Steps
<1>2. CASE scan(op, i)
  <2>1. UNCHANGED Stream!vars
    BY <1>2, Invisible DEF scan
  <2> QED BY <2>1 DEF Steps
<1>3. CASE structScan(op, i)
  BY <1>3, structScanSteps
<1> QED BY <1>1, <1>2, <1>3 DEF ScanOrStructScan

LEMMA CallsStep ==
    ASSUME TypeOK, Inherited, StructScan \/ Scan \/ Get \/ Select \/ GetCAS \/ ExecCAS
    PROVE  Steps
<1>1. it \in Iterxs /\ ValuesAllocated(it)
  BY DEF TypeOK
<1>2. \A op \in {"StructScan", "Get", "Select", "GetCAS", "ExecCAS"} : op \in Ops \ {"Close"}
  BY DEF Ops, CASOps
<1>3. Ready /\ UNCHANGED taken
  BY DEF StructScan, Scan, Get, Select, GetCAS, ExecCAS, Begin
<1>4. ASSUME NEW op \in Ops \ {"Close"}, NEW e \in {"pointer", "slice"},
             Leave(op, [it EXCEPT !.err = e], drv, FALSE, <<>>)
      PROVE  Steps
  <2>1. [it EXCEPT !.err = e] \in Iterxs /\ [it EXCEPT !.err = e].err # "none"
    BY <1>1 DEF Iterxs, Errors
  <2>2. Stream!Return(KindOf(op), 0)
    BY <1>3, <1>4, <2>1, RefusedReturns
  <2> QED BY <2>2, KindsAreCalls DEF Steps
<1>5. CASE StructScan
  BY <1>1, <1>2, <1>3, <1>4, <1>5, structScanSteps DEF StructScan, BadPointer
<1>6. CASE Scan
  <2>1. UNCHANGED Stream!vars
    BY <1>3, <1>6, Invisible DEF Scan
  <2> QED BY <2>1 DEF Steps
<1>7. CASE Get
  BY <1>1, <1>2, <1>3, <1>4, <1>7, ScanOrStructScanSteps DEF Get, BadPointer
<1>8. CASE Select
  BY <1>1, <1>2, <1>3, <1>4, <1>8, ScanOrStructScanSteps DEF Select, BadPointer
<1>9. CASE GetCAS
  BY <1>1, <1>2, <1>3, <1>4, <1>9, ScanOrStructScanSteps DEF GetCAS, BadPointer
<1>10. CASE ExecCAS
  <2>1. /\ [it EXCEPT !.structOnly = TRUE] \in Iterxs
        /\ ValuesAllocated([it EXCEPT !.structOnly = TRUE])
        /\ [it EXCEPT !.structOnly = TRUE].err = it.err
    BY <1>1 DEF Iterxs, ValuesAllocated
  <2> QED BY <1>2, <1>3, <1>10, <2>1, ScanOrStructScanSteps DEF ExecCAS
<1> QED BY <1>5, <1>6, <1>7, <1>8, <1>9, <1>10

LEMMA CloseReturns == ASSUME TypeOK, Inherited, Close PROVE Stream!Return("close", 0)
<1>1. /\ call = Idle /\ Closed(it, drv) /\ UNCHANGED <<out, taken>> /\ taken \in Nat
      /\ Return("Close", CloseErr(it.err, drv.err), FALSE, FALSE, <<>>)
      /\ it \in Iterxs /\ drv \in DriverIters
  BY DEF Close, TypeOK
<1>2. /\ it'.err = CloseErr(it.err, drv.err) /\ drv'.err = drv.err /\ drv'.pos = drv.pos
      /\ drv'.n = drv.n /\ drv'.more = drv.more /\ drv'.closed = TRUE
  BY <1>1 DEF Closed, Iterxs, DriverIters
<1>3. ret'.op = "Close" /\ ret'.rows = <<>> /\ ret'.err = CloseErr(it.err, drv.err)
  BY <1>1 DEF Return
<1>4. Held = 0 /\ Held' = 0 /\ <<>> = HeldAnd(0)
  BY <1>1, HeldRows DEF HeldAnd, Held
<1>5. (FailedOf(it, drv)' <=> FailedOf(it, drv)) /\ (FailedOf(it, drv)' <=> ret'.err # "none")
  BY <1>2, <1>3 DEF FailedOf, CloseErr
<1>6. FailedOf(it, drv)' \in {FailedOf(it, drv), TRUE}
  <2>1. FailedOf(it, drv) \in BOOLEAN /\ FailedOf(it, drv)' \in BOOLEAN
    BY DEF FailedOf
  <2> QED BY <1>5, <2>1
<1>7. Stream!Take(0)
  <2>1. EndOf(drv)' = EndOf(drv)
    BY <1>2 DEF EndOf
  <2> QED BY <1>1, <2>1, NothingTaken
<1>8. ret'.err # "panic"
  BY <1>1, <1>3 DEF CloseErr, Iterxs, DriverIters, Errors
<1>9. LastOf' = Stream!Given("close", HeldAnd(0), ret'.err # "none")
  BY <1>3, <1>4, <1>8 DEF Stream!Given, LastOf, AbstractCall, KindOf, CASOps
<1>10. "close" \in Stream!Closing /\ drv.closed' = (drv.closed \/ "close" \in Stream!Closing)
  BY <1>2 DEF Stream!Closing, Stream!Calls
<1> QED BY <1>4, <1>5, <1>6, <1>7, <1>9, <1>10, ReturnSuffices

(* The driver's answers.                                                    *)
LEMMA DriverSteps == ASSUME TypeOK, Inherited, Driver PROVE Steps
<1>1. /\ drv \in DriverIters /\ InPage(drv) /\ it \in Iterxs /\ call \in Calls
      /\ taken \in Nat /\ drv.n \in Nat /\ drv.pos \in Nat /\ out \in Seq(Nat)
  BY DEF TypeOK, DriverIters
<1>2. Waiting
  BY DEF Driver, Row, BadRow, NextPage, PageFails, End, RowReady
<1>3. /\ call.op \in Ops /\ ~drv.closed
      /\ Held = taken - call.from /\ out = [k \in 1 .. Held |-> taken - Held + k]
      /\ call.op # "Select" => Held = 0
  BY <1>1, <1>2, HeldRows DEF Waiting, Calls, Inherited, CallHoldsRun
<1>4. Held \in Nat /\ out = HeldAnd(0)
  BY <1>1, <1>3 DEF HeldAnd, Held
<1>5. ASSUME NEW d \in DriverIters, ScanIsFalse(d), UNCHANGED taken, ~d.closed,
             d.err # "none" \/ (d = drv /\ EndOf(drv))
      PROVE  Steps
  <2>1. call.op # "Close"
    BY <1>5 DEF ScanIsFalse, Leave, CASOps
  <2>2. PICK n \in {0, 1} : n = 0
    OBVIOUS
  <2>3. /\ taken' = taken + n /\ out = HeldAnd(n) /\ n # 1 /\ EndOf(d)
        /\ FailedOf(it, d) \/ EndOf(d)
        /\ drv.err # "none" => d.err # "none"
    BY <1>1, <1>4, <1>5, <2>2 DEF EndOf
  <2>4. Stream!Return(KindOf(call.op), n)
    BY <1>1, <1>3, <1>5, <2>1, <2>3, LeaveReturns DEF ScanIsFalse
  <2> QED BY <1>3, <2>4, KindsAreCalls DEF Steps
<1>6. CASE Row
  <2> DEFINE d == [drv EXCEPT !.pos = @ + 1]
             i == [it EXCEPT !.applied = Applied]
  <2>1. /\ d \in DriverIters /\ d.err = drv.err /\ ~d.closed
        /\ drv.err = "none" /\ drv.pos < drv.n
    BY <1>1, <1>3, <1>6 DEF DriverIters, Row, RowReady
  <2>2. i \in Iterxs /\ i.err = it.err
    BY <1>1 DEF Applied, Iterxs, DriverIters
  <2>3. ~EndOf(drv) /\ taken' = taken + 1
    BY <1>1, <1>6, <2>1 DEF EndOf, Row
  <2>4. CASE call.op # "Select" /\ Leave(call.op, i, d, TRUE, <<taken + 1>>)
    <3>1. call.op # "Close"
      BY <2>4 DEF Leave, CASOps
    <3>2. PICK n \in {0, 1} : n = 1
      OBVIOUS
    <3>3. <<taken + 1>> = HeldAnd(n) /\ taken' = taken + n /\ n # 0
      BY <1>1, <1>3, <2>3, <2>4, <3>2 DEF HeldAnd
    <3> HIDE DEF d, i
    <3>4. Stream!Return(KindOf(call.op), n)
      BY <1>3, <2>1, <2>2, <2>3, <2>4, <3>1, <3>3, LeaveReturns
    <3> QED BY <1>3, <3>4, KindsAreCalls DEF Steps
  <2>5. CASE /\ call.op = "Select"
             /\ out' = Collect(out, taken + 1)
             /\ it' = i /\ drv' = d
             /\ UNCHANGED <<call, ret>>
    <3>1. Held' = Held + 1
      BY <1>1, <2>5 DEF Held, Collect
    <3>2. drv'.err = drv.err /\ it'.err = it.err /\ drv'.closed = drv.closed
      BY <1>1, <2>1, <2>2, <2>5 DEF DriverIters
    <3>3. EndOf(drv)' \in {EndOf(drv), TRUE}
      <4>1. EndOf(drv)' \in BOOLEAN /\ EndOf(drv) = FALSE
        BY <2>3 DEF EndOf
      <4> QED BY <4>1
    <3>4. Stream!Take(1)
      BY <1>3, <2>3, <3>3 DEF Stream!Take, EndOf
    <3>5. UNCHANGED LastOf
      BY <2>5 DEF LastOf, AbstractCall, KindOf
    <3>6. UNCHANGED <<FailedOf(it, drv), drv.closed>>
      BY <3>2 DEF FailedOf
    <3> QED BY <3>1, <3>4, <3>5, <3>6 DEF Steps, Stream!Hold, Held, FailedOf, LastOf
  <2> QED BY <1>6, <2>4, <2>5 DEF Row
<1>7. CASE BadRow
  <2> DEFINE d == [drv EXCEPT !.err = "row"]
  <2>1. d \in DriverIters /\ ~d.closed /\ d.err # "none"
    BY <1>1, <1>3 DEF DriverIters, Errors
  <2>2. ScanIsFalse(d) /\ UNCHANGED taken
    BY <1>7 DEF BadRow, history
  <2> HIDE DEF d
  <2> QED BY <1>5, <2>1, <2>2
<1>8. CASE NextPage
  <2>1. PICK n \in 0 .. MaxPage, more \in BOOLEAN :
             drv' = [drv EXCEPT !.n = n, !.pos = 0, !.more = more]
    BY <1>8 DEF NextPage
  <2>2. drv'.err = drv.err /\ drv'.closed = drv.closed
    BY <1>1, <2>1 DEF DriverIters
  <2>3. ~EndOf(drv) /\ UNCHANGED <<taken, it, call, ret, out>>
    BY <1>8 DEF EndOf, NextPage
  <2>4. Stream!Take(0)
    BY <1>1, <2>3, NothingTaken
  <2>5. UNCHANGED <<LastOf, Held>>
    BY <2>3 DEF LastOf, AbstractCall, KindOf, Held
  <2>6. UNCHANGED <<FailedOf(it, drv), drv.closed>>
    BY <2>2, <2>3 DEF FailedOf
  <2> QED BY <2>4, <2>5, <2>6 DEF Steps, Stream!Exhaust, Held, FailedOf, LastOf
<1>9. CASE PageFails
  <2> DEFINE d == [FailedAnswer EXCEPT !.err = "page"]
  <2>1. d \in DriverIters /\ ~d.closed /\ d.err # "none"
    BY DEF FailedAnswer, DriverIters, Errors
  <2>2. ScanIsFalse(d) /\ UNCHANGED taken
    BY <1>9 DEF PageFails, history
  <2> HIDE DEF d
  <2> QED BY <1>5, <2>1, <2>2
<1>10. CASE End
  <2>1. ScanIsFalse(drv) /\ UNCHANGED taken /\ EndOf(drv)
    BY <1>10 DEF End, history, EndOf, AtPageEnd
  <2> QED BY <1>1, <1>3, <1>5, <2>1
<1> QED BY <1>6, <1>7, <1>8, <1>9, <1>10 DEF Driver

-----------------------------------------------------------------------------
(* The iterator of cqlx is a RowStream: over all the calls made of it no    *)
(* row is lost, repeated or out of order, no error is forgotten, and a      *)
(* Select that returns nil has all the rows.                                *)
THEOREM IterxIsRowStream == Spec => IsRowStream
<1>1. Init => Stream!Init
  <2> SUFFICES ASSUME Init PROVE Stream!Init
    OBVIOUS
  <2>1. taken = 0 /\ Held = 0 /\ LastOf = Stream!NothingYet
    BY DEF Init, Held, LastOf, AbstractCall, KindOf, CASOps, Silent, Stream!NothingYet, Stream!Given
  <2>2. drv.closed = FALSE
    <3>1. drv = FailedAnswer => drv.closed = FALSE
      BY DEF FailedAnswer
    <3>2. drv \in RowAnswers => drv.closed = FALSE
      BY DEF RowAnswers
    <3>3. drv \in CASAnswers => drv.closed = FALSE
      BY DEF CASAnswers
    <3> QED BY <3>1, <3>2, <3>3 DEF Init, FirstAnswers
  <2>3. EndOf(drv) \in BOOLEAN /\ FailedOf(it, drv) \in BOOLEAN
    BY DEF EndOf, FailedOf
  <2> QED BY <2>1, <2>2, <2>3 DEF Stream!Init, Held, LastOf, EndOf, FailedOf
<1>2. TypeOK /\ Inherited /\ [Next]_vars => [Stream!Next]_(Stream!vars)
  <2> SUFFICES ASSUME TypeOK, Inherited, [Next]_vars PROVE Steps
    BY StepsSuffice
  <2>1. CASE Strict \/ StructOnly
    <3>1. it'.err = it.err /\ UNCHANGED <<drv, ret, out, taken>>
      BY <2>1 DEF Strict, StructOnly, history, TypeOK, Iterxs
    <3> QED BY <3>1, Invisible DEF Steps
  <2>2. CASE StructScan \/ Scan \/ Get \/ Select \/ GetCAS \/ ExecCAS
    BY <2>2, CallsStep
  <2>3. CASE Close
    <3>1. "close" \in Stream!Calls /\ 0 \in {0, 1}
      BY DEF Stream!Calls
    <3> QED BY <2>3, <3>1, CloseReturns DEF Steps
  <2>4. CASE Driver
    BY <2>4, DriverSteps
  <2>5. CASE UNCHANGED vars
    BY <2>5, Invisible DEF vars, history, Steps
  <2> QED BY <2>1, <2>2, <2>3, <2>4, <2>5 DEF Next
<1> QED BY <1>1, <1>2, TypeCorrect, Inductive, PTL DEF Spec, IsRowStream, Stream!Spec
=============================================================================
