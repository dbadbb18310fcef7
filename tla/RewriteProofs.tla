--------------------------- MODULE RewriteProofs ---------------------------
(* Proofs about RewriteTable for tables of any size, any number of calls    *)
(* and any number of writes of others.                                      *)
EXTENDS Rewrite, TLAPS

-----------------------------------------------------------------------------
(* The cells of a map come from version v of row r, changed t times at most.*)
OfRow(map, r, v, t) ==
    /\ DOMAIN map \subseteq Columns /\ map \in [DOMAIN map -> Cell]
    /\ \A c \in DOMAIN map : map[c].row = r /\ map[c].version = v /\ map[c].times <= t

(* A row of src after n writes of others, and a row of dst when dst is      *)
(* another table.                                                           *)
SrcRow(map, r, n, t) ==
    DOMAIN map = SrcColumns /\ \E v \in 0 .. n : OfRow(map, r, v, t)
DstRow(map, r) ==
    \/ map = NoRow
    \/ /\ ~inPlace /\ how[r] \notin {"empty", "drop"}
       /\ DOMAIN map = DstColumns /\ \E v \in 0 .. version : OfRow(map, r, v, calls)

(* A row of src that is never inserted there.                               *)
LeftAlone(r) ==
    ~inPlace \/ NotInserted(r) => \E v \in 0 .. version : tables["src"][r] = Written(r, v)

(* Row r is where a call that has got past it must leave it.                *)
Copied(r) ==
    how[r] # "empty" =>
        \/ tables[Dst][r] = Wanted(r)
        \/ inPlace /\ \E v \in 1 .. version :
                v > read[r]["data"].version /\ tables[Dst][r] = Written(r, v)

Typed ==
    /\ how \in [Row -> Ways] /\ inPlace \in BOOLEAN /\ extra \in BOOLEAN /\ (inPlace => ~extra)
    /\ version \in 0 .. MaxWrites /\ calls \in 0 .. MaxCalls
    /\ pc \in {"idle", "scan", "exec", "close"} /\ m \in Maps
    /\ ret \in {"none", "nil", "error"} /\ fetched \in 0 .. N
    /\ taken \in 0 .. fetched /\ held = 0
    /\ ended \in BOOLEAN /\ failed \in BOOLEAN /\ closed \in BOOLEAN

(* The rows of the tables and those in the driver, by how often the         *)
(* transform can have changed them.                                         *)
RowsKept ==
    /\ tables \in [{"src", "dst"} -> [Row -> Maps]] /\ read \in [Row -> Maps]
    /\ \A r \in Row : SrcRow(tables["src"][r], r, version, calls)
    /\ pc # "idle" =>
         calls > 0 /\ \A r \in Row : r > taken => SrcRow(tables["src"][r], r, version, calls - 1)
    /\ \A r \in Row : DstRow(tables["dst"][r], r) /\ LeftAlone(r)
    /\ \A r \in Row : r <= fetched => calls > 0 /\ SrcRow(read[r], r, version, calls - 1)

(* Where the call is, what it holds, and what it has done.                  *)
CallAt ==
    /\ pc \in {"scan", "close"} => m = NoRow
    /\ pc = "exec" =>
         /\ taken > 0 /\ m = transform(how[taken], read[taken]) /\ DstColumns \subseteq DOMAIN m
    /\ pc # "idle" => ret = "none"
    /\ pc = "close" => ended /\ (failed \/ taken = N)
    /\ ret = "nil" => taken = N
    /\ pc # "idle" \/ ret = "nil" =>
         \A r \in 1 .. taken : (pc = "exec" => r < taken) => Copied(r)

IInv == Typed /\ RowsKept /\ CallAt

-----------------------------------------------------------------------------
(* Into an empty map a row is scanned as it is.                             *)
LEMMA ScannedIntoNoRow ==
    ASSUME NEW r, NEW n, NEW t, NEW x, SrcRow(x, r, n, t)
    PROVE  MapScan(NoRow, x) = x
<1>1. x = [c \in SrcColumns |-> x[c]]
  BY DEF SrcRow, OfRow
<1>2. DOMAIN NoRow = {}
  BY DEF NoRow
<1> QED BY <1>1, <1>2 DEF MapScan, SrcRow

(* A transform changes a row once, or takes all of its columns.             *)
LEMMA TransformRow ==
    ASSUME NEW way \in Ways, NEW r \in Row, NEW t \in Nat, t < MaxCalls,
           NEW x, SrcRow(x, r, version, t), version \in 0 .. MaxWrites, NEW y, y = transform(way, x)
    PROVE  /\ y \in Maps
           /\ \E v \in 0 .. version : OfRow(y, r, v, t + 1)
           /\ y = NoRow <=> way = "empty"
           /\ way = "drop" => DOMAIN y = {"key"}
           /\ way \notin {"empty", "drop"} => SrcColumns \subseteq DOMAIN y
<1>1. PICK v \in 0 .. version : OfRow(x, r, v, t)
  BY DEF SrcRow
<1>2. /\ DOMAIN x = {"key", "data"} /\ x \in [{"key", "data"} -> Cell]
      /\ x["key"].row = r /\ x["key"].version = v /\ x["key"].times <= t
      /\ x["data"].row = r /\ x["data"].version = v /\ x["data"].times <= t
  BY <1>1 DEF SrcRow, OfRow, SrcColumns
<1>3. \A z : OfRow(z, r, v, t + 1) => z \in Maps
  BY DEF OfRow, Maps
<1>4. \A z : DOMAIN z # {} => z # NoRow
  BY DEF NoRow
<1>5. x["key"] \in Cell /\ x["data"] \in Cell
  BY <1>2
<1>6. x["key"].times \in Nat /\ x["data"].times \in Nat
  BY <1>5, SizeAssumption DEF Cell
<1>7. CASE way = "keep"
  <2>1. y = x
    BY <1>7 DEF transform
  <2>2. OfRow(y, r, v, t + 1)
    BY <1>2, <1>6, <2>1 DEF OfRow, Columns, SrcColumns
  <2> QED BY <1>2, <1>3, <1>4, <1>7, <2>1, <2>2 DEF SrcColumns
<1>8. CASE way = "change"
  <2>1. y = [x EXCEPT !["data"].times = @ + 1]
    BY <1>8 DEF transform
  <2>2. /\ DOMAIN y = {"key", "data"} /\ y["key"] = x["key"]
        /\ y["data"] = [x["data"] EXCEPT !.times = @ + 1]
    BY <1>2, <2>1
  <2>3. /\ y["data"].row = r /\ y["data"].version = v /\ y["data"].times = x["data"].times + 1
        /\ y["data"] \in Cell
    BY <1>2, <1>5, <1>6, <2>2, SizeAssumption DEF Cell
  <2>4. y \in [{"key", "data"} -> Cell]
    BY <1>2, <1>5, <2>1, <2>2, <2>3
  <2>5. x["data"].times + 1 <= t + 1 /\ x["key"].times <= t + 1
    BY <1>2, <1>6
  <2>6. \A c \in DOMAIN y : y[c].row = r /\ y[c].version = v /\ y[c].times <= t + 1
    BY <1>2, <2>2, <2>3, <2>5
  <2>7. OfRow(y, r, v, t + 1)
    BY <2>2, <2>4, <2>6 DEF OfRow, Columns, SrcColumns
  <2> QED BY <1>3, <1>4, <1>8, <2>2, <2>7 DEF SrcColumns
<1>9. CASE way = "add"
  <2>1. y = [c \in Columns |-> IF c = "extra" THEN x["data"] ELSE x[c]]
    BY <1>9 DEF transform
  <2>2. OfRow(y, r, v, t + 1) /\ DOMAIN y = Columns
    BY <1>2, <1>5, <1>6, <2>1 DEF OfRow, Columns, SrcColumns
  <2> QED BY <1>3, <1>4, <1>9, <2>2 DEF SrcColumns, Columns
<1>10. CASE way = "drop"
  <2>1. y = [c \in {"key"} |-> x[c]]
    BY <1>10 DEF transform
  <2>2. OfRow(y, r, v, t + 1) /\ DOMAIN y = {"key"}
    BY <1>2, <1>5, <1>6, <2>1 DEF OfRow, Columns, SrcColumns
  <2> QED BY <1>3, <1>4, <1>10, <2>2
<1>11. CASE way = "empty"
  <2>1. y = NoRow /\ DOMAIN y = {}
    BY <1>11 DEF transform, NoRow
  <2>2. OfRow(y, r, v, t + 1)
    BY <2>1 DEF OfRow, NoRow
  <2> QED BY <1>3, <1>11, <2>1, <2>2
<1> QED BY <1>7, <1>8, <1>9, <1>10, <1>11 DEF Ways

(* The row that a writer leaves.                                            *)
LEMMA WrittenRow ==
    ASSUME NEW r \in Row, NEW v \in 0 .. MaxWrites, NEW t \in Nat
    PROVE  /\ Written(r, v) \in Maps /\ DOMAIN Written(r, v) = SrcColumns
           /\ OfRow(Written(r, v), r, v, t)
<1>1. [row |-> r, version |-> v, times |-> 0] \in Cell
  BY SizeAssumption DEF Cell
<1>2. DOMAIN Written(r, v) = SrcColumns /\ OfRow(Written(r, v), r, v, t)
  BY <1>1 DEF Written, OfRow, SrcColumns, Columns
<1> QED BY <1>2 DEF OfRow, Maps

(* What holds with fewer changes and writes holds with more.                *)
LEMMA RowsGrow ==
    ASSUME NEW x, NEW r, NEW n \in Nat, NEW k \in Nat, n <= k,
           NEW t \in Nat, NEW u \in Nat, t <= u, SrcRow(x, r, n, t)
    PROVE  SrcRow(x, r, k, u)
BY SizeAssumption DEF SrcRow, OfRow, Cell

LEMMA InitIInv == Init => IInv
<1> SUFFICES ASSUME Init PROVE IInv
  OBVIOUS
<1>1. NoRow \in Maps
  BY DEF NoRow, Maps
<1>2. Typed
  <2>1. m \in Maps
    BY <1>1 DEF Init
  <2>2. version \in 0 .. MaxWrites /\ calls \in 0 .. MaxCalls /\ fetched \in 0 .. N
    BY SizeAssumption DEF Init
  <2>3. taken \in 0 .. fetched /\ held = 0
    BY DEF Init
  <2>4. how \in [Row -> Ways] /\ inPlace \in BOOLEAN /\ extra \in BOOLEAN /\ (inPlace => ~extra)
    BY DEF Init
  <2>5. /\ pc \in {"idle", "scan", "exec", "close"} /\ ret \in {"none", "nil", "error"}
        /\ ended \in BOOLEAN /\ failed \in BOOLEAN /\ closed \in BOOLEAN
    BY DEF Init
  <2> QED BY <2>1, <2>2, <2>3, <2>4, <2>5 DEF Typed
<1>3. RowsKept
  <2>1. /\ tables["src"] = [r \in Row |-> Written(r, 0)] /\ tables["dst"] = [r \in Row |-> NoRow]
        /\ version = 0 /\ calls = 0 /\ pc = "idle" /\ fetched = 0
    BY DEF Init
  <2>2. \A r \in Row : SrcRow(tables["src"][r], r, version, calls) /\ tables["src"][r] \in Maps
    BY <2>1, WrittenRow, SizeAssumption DEF SrcRow
  <2>3. tables \in [{"src", "dst"} -> [Row -> Maps]] /\ read \in [Row -> Maps]
    BY <1>1, <2>1, <2>2 DEF Init
  <2>4. \A r \in Row : DstRow(tables["dst"][r], r) /\ ~(r <= fetched)
    BY <2>1, SizeAssumption DEF DstRow, Row
  <2>5. \A r \in Row : LeftAlone(r)
    BY <2>1, SizeAssumption DEF LeftAlone
  <2> QED BY <2>1, <2>2, <2>3, <2>4, <2>5 DEF RowsKept
<1>4. CallAt
  BY DEF Init, CallAt
<1> QED BY <1>2, <1>3, <1>4 DEF IInv

-----------------------------------------------------------------------------
(* What a step of the iterator may do.                                      *)
LEMMA Iterated ==
    ASSUME Typed, NEW kind \in {"next", "close"}, NEW n \in {0, 1}, Iterate(kind, n)
    PROVE  /\ taken' = taken + n /\ taken + n <= fetched /\ held' = 0
           /\ ended' \in BOOLEAN /\ failed' \in BOOLEAN /\ closed' \in BOOLEAN
           /\ ended' => failed' \/ (n = 0 /\ taken = N)
           /\ ended => failed' = failed
           /\ kind = "next" /\ n = 0 => ended'
           /\ kind = "close" => last'.err = failed'
<1>1. /\ Source!Return(kind, n)
      /\ taken' <= fetched
      /\ ended' <=> failed' \/ (n = 0 /\ taken' = N)
      /\ ended => failed' = failed
  BY DEF Iterate
<1>2. /\ taken' = taken + n /\ ended' \in {ended, TRUE} /\ held' = 0 /\ failed' \in {failed, TRUE}
      /\ closed' = (closed \/ kind \in Source!Closing)
  BY <1>1 DEF Source!Return, Source!Take
<1>3. PICK err \in BOOLEAN :
         /\ last' = Source!Given(kind, [k \in 1 .. held + n |-> taken - held + k], err)
         /\ kind \in Source!Closing /\ failed' => err
         /\ kind \in {"all", "close"} /\ ~failed' => ~err
         /\ kind = "next" /\ held + n = 0 => ended' \/ failed'
  BY <1>1 DEF Source!Return
<1>4. ASSUME kind = "close" PROVE last'.err = failed'
  <2>1. last'.err = err
    BY <1>3 DEF Source!Given
  <2>2. kind \in Source!Closing
    BY <1>4 DEF Source!Closing, Source!Calls
  <2>3. failed' <=> err
    BY <1>3, <1>4, <2>2
  <2>4. failed' \in BOOLEAN
    BY <1>2 DEF Typed
  <2> QED BY <2>1, <2>3, <2>4
<1>5. kind = "next" /\ n = 0 => ended'
  BY <1>1, <1>2, <1>3 DEF Typed
<1>6. ended' => failed' \/ (n = 0 /\ taken = N)
  BY <1>1, <1>2 DEF Typed
<1>7. ended' \in BOOLEAN /\ failed' \in BOOLEAN /\ closed' \in BOOLEAN
  BY <1>2 DEF Typed
<1> QED BY <1>1, <1>2, <1>4, <1>5, <1>6, <1>7

(* Steps that leave the tables and the driver alone.                        *)
LEMMA RowsStay ==
    ASSUME RowsKept, Typed, UNCHANGED <<config, tables, version, calls, read, fetched>>,
           pc' # "idle" => pc # "idle", taken' \in Nat, taken <= taken'
    PROVE  RowsKept'
<1>1. \A r \in Row : r > taken' => r > taken
  BY DEF Typed, Row
<1> QED BY <1>1 DEF RowsKept, DstRow, LeftAlone, NotInserted, config, DstColumns

LEMMA CopiedStays ==
    ASSUME UNCHANGED <<config, tables, version, read>>
    PROVE  \A r : Copied(r)' <=> Copied(r)
BY DEF config, Copied, Wanted, Dst, DstColumns

LEMMA CallKeeps == ASSUME IInv, Call PROVE IInv'
<1>1. NoRow \in Maps
  BY DEF NoRow, Maps
<1>2. Typed'
  <2>1. calls' \in 0 .. MaxCalls
    BY SizeAssumption DEF Call, IInv, Typed
  <2>2. taken' \in 0 .. fetched' /\ fetched' \in 0 .. N
    BY SizeAssumption DEF Call
  <2> QED BY <1>1, <2>1, <2>2 DEF Call, IInv, Typed, config
<1>3. RowsKept'
  <2>1. /\ UNCHANGED <<config, tables, version>> /\ calls' = calls + 1 /\ calls \in Nat
        /\ read' = [r \in Row |-> NoRow] /\ fetched' = 0 /\ taken' = 0 /\ version \in Nat
        /\ calls' \in Nat
    BY DEF Call, IInv, Typed
  <2>2. \A r \in Row : SrcRow(tables["src"][r], r, version, calls)
    BY DEF IInv, RowsKept
  <2>3. \A r \in Row : SrcRow(tables'["src"][r], r, version', calls')
    BY <2>1, <2>2, RowsGrow
  <2>4. calls' > 0 /\ \A r \in Row : SrcRow(tables'["src"][r], r, version', calls' - 1)
    BY <2>1, <2>2
  <2>5. \A r \in Row : DstRow(tables["dst"][r], r)'
    <3>1. \A x, r, v : OfRow(x, r, v, calls) => OfRow(x, r, v, calls')
      BY <2>1, SizeAssumption DEF OfRow, Cell
    <3> QED BY <2>1, <3>1 DEF IInv, RowsKept, DstRow, config, DstColumns
  <2>6. \A r \in Row : ~(r <= fetched')
    BY <2>1, SizeAssumption DEF Row
  <2>7. \A r \in Row : LeftAlone(r)'
    BY <2>1 DEF IInv, RowsKept, LeftAlone, NotInserted, config
  <2> QED BY <1>1, <2>1, <2>3, <2>4, <2>5, <2>6, <2>7 DEF IInv, RowsKept
<1>4. CallAt'
  BY SizeAssumption DEF Call, CallAt
<1> QED BY <1>2, <1>3, <1>4 DEF IInv

LEMMA FetchKeeps == ASSUME IInv, Fetch PROVE IInv'
<1>1. /\ pc # "idle" /\ fetched < N /\ fetched' = fetched + 1
      /\ read' = [read EXCEPT ![fetched + 1] = tables["src"][fetched + 1]]
      /\ UNCHANGED <<config, tables, version, calls, pc, m, ret, stream>>
  BY DEF Fetch
<1>2. fetched + 1 \in Row /\ fetched \in Nat /\ taken \in 0 .. fetched
  BY <1>1, SizeAssumption DEF IInv, Typed, Row
<1>3. Typed'
  BY <1>1, <1>2, SizeAssumption DEF IInv, Typed, config, stream
<1>4. RowsKept'
  <2>1. /\ calls > 0 /\ SrcRow(tables["src"][fetched + 1], fetched + 1, version, calls - 1)
        /\ tables["src"][fetched + 1] \in Maps
    BY <1>1, <1>2 DEF IInv, RowsKept
  <2>2. \A r \in Row : r <= fetched' => SrcRow(read'[r], r, version, calls - 1)
    BY <1>1, <1>2, <2>1 DEF IInv, RowsKept, Row
  <2>3. read' \in [Row -> Maps]
    BY <1>1, <2>1 DEF IInv, RowsKept
  <2>4. \A r \in Row : LeftAlone(r)'
    BY <1>1 DEF IInv, RowsKept, LeftAlone, NotInserted, config
  <2> QED BY <1>1, <2>1, <2>2, <2>3, <2>4 DEF IInv, RowsKept, DstRow, config, DstColumns, stream
<1>5. CallAt'
  <2>1. \A r \in 1 .. taken : read'[r] = read[r]
    BY <1>1, <1>2 DEF IInv, RowsKept
  <2>2. \A r \in 1 .. taken : Copied(r) => Copied(r)'
    BY <1>1, <2>1 DEF Copied, Wanted, Dst, DstColumns, config
  <2>3. taken > 0 => read'[taken] = read[taken]
    BY <1>2, <2>1
  <2> QED BY <1>1, <2>2, <2>3 DEF IInv, CallAt, DstColumns, config, stream
<1> QED BY <1>3, <1>4, <1>5 DEF IInv

(* The map that is scanned: one row, transformed once more.                 *)
LEMMA ScannedRow ==
    ASSUME IInv, pc # "idle", NEW r \in Row, r <= fetched,
           NEW y, y = transform(how[r], read[r])
    PROVE  /\ y \in Maps
           /\ \E v \in 0 .. version : OfRow(y, r, v, calls)
           /\ y = NoRow <=> how[r] = "empty"
           /\ how[r] = "drop" => DOMAIN y = {"key"}
           /\ how[r] \notin {"empty", "drop"} => SrcColumns \subseteq DOMAIN y
<1>1. /\ how[r] \in Ways /\ calls - 1 \in Nat /\ calls - 1 < MaxCalls /\ (calls - 1) + 1 = calls
      /\ SrcRow(read[r], r, version, calls - 1) /\ version \in 0 .. MaxWrites
  BY SizeAssumption DEF IInv, Typed, RowsKept
<1> QED BY <1>1, TransformRow

LEMMA ScanRowKeeps == ASSUME IInv, ScanRow PROVE IInv'
<1>1. /\ pc = "scan" /\ Iterate("next", 1) /\ ~failed'
      /\ m' = transform(how[taken + 1], MapScan(m, read[taken + 1]))
      /\ UNCHANGED <<config, tables, version, calls, read, fetched>>
      /\ \/ m' = NoRow /\ UNCHANGED <<pc, ret>>
         \/ m' # NoRow /\ BindMapFails(m') /\ pc' = "idle" /\ ret' = "error"
         \/ m' # NoRow /\ ~BindMapFails(m') /\ pc' = "exec" /\ UNCHANGED ret
  BY DEF ScanRow, ReturnError
<1>2. /\ taken' = taken + 1 /\ taken + 1 <= fetched /\ held' = 0
      /\ ended' \in BOOLEAN /\ failed' \in BOOLEAN /\ closed' \in BOOLEAN
  BY <1>1, Iterated DEF IInv
<1>3. taken \in Nat /\ taken + 1 \in Row /\ taken' \in 0 .. fetched'
  BY <1>1, <1>2, SizeAssumption DEF IInv, Typed, Row
<1>4. m' = transform(how[taken + 1], read[taken + 1])
  <2>1. SrcRow(read[taken + 1], taken + 1, version, calls - 1) /\ m = NoRow
    BY <1>1, <1>2, <1>3 DEF IInv, RowsKept, CallAt
  <2> QED BY <1>1, <2>1, ScannedIntoNoRow
<1>5. m' \in Maps /\ (m' = NoRow <=> how[taken + 1] = "empty")
  BY <1>1, <1>2, <1>3, <1>4, ScannedRow
<1>6. Typed'
  BY <1>1, <1>2, <1>3, <1>5 DEF IInv, Typed, config
<1>7. RowsKept'
  BY <1>1, <1>2, <1>3, RowsStay DEF IInv
<1>8. CallAt'
  <2>1. \A r \in 1 .. taken : Copied(r)'
    BY <1>1, <1>3, CopiedStays DEF IInv, CallAt
  <2>2. m' = NoRow => Copied(taken)'
    BY <1>1, <1>2, <1>5 DEF Copied, config
  <2>3. \A r \in 1 .. taken' : r \in 1 .. taken \/ r = taken'
    BY <1>2, <1>3
  <2>4. ret = "none" /\ m' = transform(how'[taken'], read'[taken']) /\ taken' > 0
    BY <1>1, <1>2, <1>3, <1>4 DEF IInv, CallAt, config
  <2>5. CASE m' = NoRow /\ UNCHANGED <<pc, ret>>
    <3>1. \A r \in 1 .. taken' : Copied(r)'
      BY <2>1, <2>2, <2>3, <2>5
    <3>2. pc' = "scan" /\ m' = NoRow /\ ret' = "none"
      BY <1>1, <2>4, <2>5
    <3> QED BY <3>1, <3>2 DEF CallAt
  <2>6. CASE pc' = "idle" /\ ret' = "error"
    BY <2>6 DEF CallAt
  <2>7. CASE ~BindMapFails(m') /\ pc' = "exec" /\ UNCHANGED ret
    <3>1. DstColumns' \subseteq DOMAIN m'
      BY <1>1, <2>7 DEF BindMapFails, DstColumns, config
    <3>2. \A r \in 1 .. taken' : r < taken' => Copied(r)'
      BY <1>3, <2>1, <2>3
    <3> QED BY <2>4, <2>7, <3>1, <3>2 DEF CallAt
  <2> QED BY <1>1, <2>5, <2>6, <2>7
<1> QED BY <1>6, <1>7, <1>8 DEF IInv

LEMMA ScanEndsKeeps == ASSUME IInv, ScanEnds PROVE IInv'
<1>1. /\ pc = "scan" /\ Iterate("next", 0) /\ pc' = "close"
      /\ UNCHANGED <<config, tables, version, calls, m, read, fetched, ret>>
  BY DEF ScanEnds, AfterLoop
<1>2. /\ taken' = taken + 0 /\ held' = 0
      /\ ended' \in BOOLEAN /\ failed' \in BOOLEAN /\ closed' \in BOOLEAN
      /\ ended' /\ (failed' \/ taken = N)
  BY <1>1, Iterated DEF IInv
<1>3. taken' = taken /\ taken \in Nat
  BY <1>2, SizeAssumption DEF IInv, Typed
<1>4. Typed'
  BY <1>1, <1>2, <1>3 DEF IInv, Typed, config
<1>5. RowsKept'
  BY <1>1, <1>3, RowsStay DEF IInv
<1>6. CallAt'
  BY <1>1, <1>2, <1>3, CopiedStays DEF IInv, CallAt
<1> QED BY <1>4, <1>5, <1>6 DEF IInv

LEMMA CloseKeeps == ASSUME IInv, Close PROVE IInv'
<1>1. /\ pc = "close" /\ Iterate("close", 0) /\ pc' = "idle" /\ ret' = Closed(last'.err)
      /\ UNCHANGED <<config, tables, version, calls, m, read, fetched>>
  BY DEF Close
<1>2. /\ taken' = taken + 0 /\ held' = 0
      /\ ended' \in BOOLEAN /\ failed' \in BOOLEAN /\ closed' \in BOOLEAN
      /\ ended => failed' = failed /\ last'.err = failed'
  BY <1>1, Iterated DEF IInv
<1>3. taken' = taken /\ taken \in Nat
  BY <1>2, SizeAssumption DEF IInv, Typed
<1>4. ret' \in {"nil", "error"} /\ (ret' = "nil" => taken = N)
  BY <1>1, <1>2 DEF Closed, IInv, CallAt
<1>5. Typed'
  BY <1>1, <1>2, <1>3, <1>4 DEF IInv, Typed, config
<1>6. RowsKept'
  BY <1>1, <1>3, RowsStay DEF IInv
<1>7. CallAt'
  BY <1>1, <1>3, <1>4, CopiedStays DEF IInv, CallAt
<1> QED BY <1>5, <1>6, <1>7 DEF IInv

(* What an insert writes: the row taken last, as it is wanted.              *)
LEMMA InsertedRow ==
    ASSUME IInv, pc = "exec", tables' = Inserted(m),
           UNCHANGED <<config, version, calls, read, fetched, taken>>
    PROVE  RowsKept' /\ \A r \in 1 .. taken : Copied(r)'
<1> DEFINE x == [c \in DstColumns |-> m[c]]
<1>1. /\ taken \in Row /\ taken \in Nat /\ taken <= fetched /\ m = transform(how[taken], read[taken])
      /\ DstColumns \subseteq DOMAIN m /\ "key" \in DstColumns /\ "data" \in DstColumns
      /\ calls > 0 /\ SrcColumns \subseteq DstColumns /\ DstColumns \subseteq Columns
      /\ (inPlace => DstColumns = SrcColumns)
  BY SizeAssumption DEF IInv, Typed, CallAt, RowsKept, Row, DstColumns, Columns, SrcColumns
<1>2. PICK v \in 0 .. version : OfRow(m, taken, v, calls)
  BY <1>1, ScannedRow
<1>3. DOMAIN x = DstColumns /\ OfRow(x, taken, v, calls) /\ x \in Maps
  BY <1>1, <1>2 DEF OfRow, Maps
<1>4. how[taken] \notin {"empty", "drop"}
  <2>1. how[taken] = "drop" => DOMAIN m = {"key"}
    BY <1>1, ScannedRow
  <2>2. how[taken] = "empty" => m = NoRow
    BY <1>1, ScannedRow
  <2>3. DOMAIN NoRow = {}
    BY DEF NoRow
  <2> QED BY <1>1, <2>1, <2>2, <2>3
<1>5. tables' = [tables EXCEPT ![Dst][taken] = x]
  BY <1>1, <1>2 DEF Inserted, OfRow
<1>6. /\ tables' \in [{"src", "dst"} -> [Row -> Maps]] /\ Dst \in {"src", "dst"}
      /\ tables'[Dst][taken] = x
      /\ \A t \in {"src", "dst"}, r \in Row :
            t # Dst \/ r # taken => tables'[t][r] = tables[t][r]
  BY <1>1, <1>3, <1>5 DEF IInv, RowsKept, Dst
<1>7. RowsKept'
  <2>1. ASSUME NEW r \in Row PROVE SrcRow(tables'["src"][r], r, version, calls)
    <3>1. CASE r = taken /\ inPlace
      BY <1>1, <1>3, <1>6, <3>1 DEF SrcRow, Dst
    <3>2. CASE ~(r = taken /\ inPlace)
      <4>1. tables'["src"][r] = tables["src"][r]
        BY <1>6, <3>2 DEF Dst
      <4> QED BY <4>1 DEF IInv, RowsKept
    <3> QED BY <3>1, <3>2
  <2>2. ASSUME NEW r \in Row, r > taken
        PROVE  SrcRow(tables'["src"][r], r, version, calls - 1)
    <3>1. tables'["src"][r] = tables["src"][r] /\ pc # "idle"
      BY <1>1, <1>6, <2>2
    <3> QED BY <2>2, <3>1 DEF IInv, RowsKept
  <2>3. ASSUME NEW r \in Row PROVE DstRow(tables["dst"][r], r)'
    <3>1. CASE r = taken /\ ~inPlace
      BY <1>1, <1>3, <1>4, <1>6, <3>1 DEF DstRow, Dst, DstColumns, config
    <3>2. CASE ~(r = taken /\ ~inPlace)
      <4>1. tables'["dst"][r] = tables["dst"][r]
        BY <1>6, <3>2 DEF Dst
      <4> QED BY <4>1 DEF IInv, RowsKept, DstRow, DstColumns, config
    <3> QED BY <3>1, <3>2
  <2>4. ASSUME NEW r \in Row PROVE LeftAlone(r)'
    <3>1. CASE r = taken /\ inPlace
      BY <1>1, <1>4, <3>1 DEF LeftAlone, NotInserted, config
    <3>2. CASE ~(r = taken /\ inPlace)
      <4>1. tables'["src"][r] = tables["src"][r]
        BY <1>6, <3>2 DEF Dst
      <4> QED BY <4>1 DEF IInv, RowsKept, LeftAlone, NotInserted, config
    <3> QED BY <3>1, <3>2
  <2> QED BY <1>1, <1>6, <2>1, <2>2, <2>3, <2>4 DEF IInv, RowsKept
<1>8. ASSUME NEW r \in 1 .. taken PROVE Copied(r)'
  <2>1. r \in Row /\ (r # taken => r < taken)
    BY <1>1, SizeAssumption DEF Row
  <2>2. CASE r = taken
    <3>1. Wanted(r)' = x
      BY <1>1, <2>2 DEF Wanted, DstColumns, config
    <3>2. tables'[Dst'][r] = x
      BY <1>6, <2>2 DEF Dst, config
    <3> QED BY <3>1, <3>2 DEF Copied
  <2>3. CASE r # taken
    <3>1. Copied(r)
      BY <2>1, <2>3 DEF IInv, CallAt
    <3>2. tables'[Dst][r] = tables[Dst][r]
      BY <1>6, <2>1, <2>3
    <3> QED BY <3>1, <3>2 DEF Copied, Wanted, Dst, DstColumns, config
  <2> QED BY <2>2, <2>3
<1> QED BY <1>7, <1>8

LEMMA ExecOKKeeps == ASSUME IInv, ExecOK PROVE IInv'
<1>1. /\ pc = "exec" /\ tables' = Inserted(m) /\ m' = NoRow /\ pc' = "scan"
      /\ UNCHANGED <<config, version, calls, read, fetched, ret, stream>>
  BY DEF ExecOK, CleanMap
<1>2. RowsKept' /\ \A r \in 1 .. taken : Copied(r)'
  BY <1>1, InsertedRow DEF stream
<1>3. Typed'
  <2>1. NoRow \in Maps
    BY DEF NoRow, Maps
  <2> QED BY <1>1, <2>1 DEF IInv, Typed, config, stream
<1>4. CallAt'
  BY <1>1, <1>2 DEF IInv, CallAt, stream
<1> QED BY <1>2, <1>3, <1>4 DEF IInv

LEMMA ExecFailsKeeps == ASSUME IInv, ExecFails PROVE IInv'
<1>1. /\ pc = "exec" /\ pc' = "idle" /\ ret' = "error"
      /\ tables' = tables \/ tables' = Inserted(m)
      /\ UNCHANGED <<config, version, calls, m, read, fetched, stream>>
  BY DEF ExecFails, ReturnError
<1>2. RowsKept'
  <2>1. CASE tables' = Inserted(m)
    BY <1>1, <2>1, InsertedRow DEF stream
  <2>2. CASE tables' = tables
    <3>1. taken' \in Nat /\ taken <= taken'
      BY <1>1, SizeAssumption DEF IInv, Typed, stream
    <3> QED BY <1>1, <2>2, <3>1, RowsStay DEF IInv
  <2> QED BY <1>1, <2>1, <2>2
<1>3. Typed'
  BY <1>1 DEF IInv, Typed, config, stream
<1>4. CallAt'
  BY <1>1 DEF CallAt
<1> QED BY <1>2, <1>3, <1>4 DEF IInv

LEMMA WriteKeeps == ASSUME IInv, NEW w \in Row, Write(w) PROVE IInv'
<1>1. /\ version < MaxWrites /\ version' = version + 1
      /\ tables' = [tables EXCEPT !["src"][w] = Written(w, version + 1)]
      /\ UNCHANGED <<config, calls, pc, m, read, fetched, ret, stream>>
  BY DEF Write
<1>2. /\ version \in Nat /\ version' \in 0 .. MaxWrites /\ version <= version' /\ version' \in Nat
      /\ calls \in Nat
  BY <1>1, SizeAssumption DEF IInv, Typed
<1>3. Typed'
  BY <1>1, <1>2 DEF IInv, Typed, config, stream
<1>4. /\ tables' \in [{"src", "dst"} -> [Row -> Maps]]
      /\ tables'["src"][w] = Written(w, version') /\ tables'["dst"] = tables["dst"]
      /\ \A r \in Row : r # w => tables'["src"][r] = tables["src"][r]
  <2>1. Written(w, version') \in Maps
    BY <1>2, WrittenRow
  <2> QED BY <1>1, <2>1 DEF IInv, RowsKept
<1>5. ASSUME NEW t \in Nat PROVE SrcRow(tables'["src"][w], w, version', t)
  BY <1>2, <1>4, WrittenRow DEF SrcRow
<1>6. RowsKept'
  <2>1. ASSUME NEW r \in Row PROVE SrcRow(tables'["src"][r], r, version', calls)
    <3>1. CASE r = w
      BY <1>2, <1>5, <3>1
    <3>2. CASE r # w
      BY <1>2, <1>4, <3>2, RowsGrow DEF IInv, RowsKept
    <3> QED BY <3>1, <3>2
  <2>2. ASSUME pc # "idle", NEW r \in Row, r > taken
        PROVE  calls > 0 /\ SrcRow(tables'["src"][r], r, version', calls - 1)
    <3>1. calls > 0 /\ calls - 1 \in Nat
      BY <1>2, <2>2 DEF IInv, RowsKept
    <3>2. CASE r = w
      BY <1>5, <3>1, <3>2
    <3>3. CASE r # w
      BY <1>2, <1>4, <2>2, <3>1, <3>3, RowsGrow DEF IInv, RowsKept
    <3> QED BY <3>1, <3>2, <3>3
  <2>3. ASSUME NEW r \in Row PROVE DstRow(tables["dst"][r], r)'
    BY <1>1, <1>2, <1>4 DEF IInv, RowsKept, DstRow, DstColumns, config
  <2>4. ASSUME NEW r \in Row, r <= fetched
        PROVE  calls > 0 /\ SrcRow(read[r], r, version', calls - 1)
    <3>1. calls > 0 /\ calls - 1 \in Nat /\ SrcRow(read[r], r, version, calls - 1)
      BY <1>2, <2>4 DEF IInv, RowsKept
    <3> QED BY <1>2, <3>1, RowsGrow
  <2>5. pc # "idle" => calls > 0
    BY DEF IInv, RowsKept
  <2>6. ASSUME NEW r \in Row PROVE LeftAlone(r)'
    <3>1. CASE r = w
      BY <1>2, <1>4, <3>1 DEF LeftAlone
    <3>2. CASE r # w
      <4>1. tables'["src"][r] = tables["src"][r] /\ 0 .. version \subseteq 0 .. version'
        BY <1>2, <1>4, <3>2
      <4> QED BY <1>1, <4>1 DEF IInv, RowsKept, LeftAlone, NotInserted, config
    <3> QED BY <3>1, <3>2
  <2> QED BY <1>1, <1>4, <2>1, <2>2, <2>3, <2>4, <2>5, <2>6 DEF IInv, RowsKept, stream
<1>7. CallAt'
  <2>1. ASSUME NEW r \in 1 .. taken, Copied(r) PROVE Copied(r)'
    <3>1. r \in Row /\ r <= fetched /\ "data" \in SrcColumns
      BY <2>1, SizeAssumption DEF IInv, Typed, Row, SrcColumns
    <3>2. CASE inPlace /\ r = w
      <4>1. read[r]["data"].version <= version /\ version' \in 1 .. version'
        BY <1>1, <1>2, <3>1 DEF IInv, RowsKept, SrcRow, OfRow
      <4>2. read[r]["data"].version < version'
        BY <1>1, <1>2, <3>1, <4>1 DEF IInv, RowsKept, SrcRow, OfRow
      <4>3. tables'[Dst'][r] = Written(r, version') /\ inPlace'
        BY <1>1, <1>4, <3>2 DEF Dst, config
      <4> QED BY <1>1, <4>1, <4>2, <4>3 DEF Copied
    <3>3. CASE ~(inPlace /\ r = w)
      <4>1. tables'[Dst'][r] = tables[Dst][r]
        BY <1>1, <1>4, <3>1, <3>3 DEF Dst, config
      <4>2. Wanted(r)' = Wanted(r) /\ read' = read /\ how' = how /\ inPlace' = inPlace
        BY <1>1 DEF Wanted, DstColumns, config
      <4>3. 1 .. version \subseteq 1 .. version'
        BY <1>2
      <4> QED BY <2>1, <4>1, <4>2, <4>3 DEF Copied
    <3> QED BY <3>2, <3>3
  <2> QED BY <1>1, <2>1 DEF IInv, CallAt, DstColumns, config, stream
<1> QED BY <1>3, <1>6, <1>7 DEF IInv

(* Every step keeps the inductive invariant.                                *)
LEMMA Inductive == Spec => []IInv
<1>1. IInv /\ [Next]_vars => IInv'
  <2> SUFFICES ASSUME IInv, [Next]_vars PROVE IInv'
    OBVIOUS
  <2>1. CASE Call
    BY <2>1, CallKeeps
  <2>2. CASE Fetch
    BY <2>2, FetchKeeps
  <2>3. CASE ScanRow
    BY <2>3, ScanRowKeeps
  <2>4. CASE ScanEnds
    BY <2>4, ScanEndsKeeps
  <2>5. CASE ExecOK
    BY <2>5, ExecOKKeeps
  <2>6. CASE ExecFails
    BY <2>6, ExecFailsKeeps
  <2>7. CASE Close
    BY <2>7, CloseKeeps
  <2>8. CASE \E r \in Row : Write(r)
    BY <2>8, WriteKeeps
  <2>9. CASE UNCHANGED vars
    <3>1. /\ UNCHANGED <<config, tables, version, calls, pc, m, read, fetched, ret, stream>>
          /\ taken' \in Nat /\ taken <= taken'
      BY <2>9, SizeAssumption DEF vars, stream, IInv, Typed
    <3>2. Typed'
      BY <3>1 DEF IInv, Typed, config, stream
    <3>3. RowsKept'
      BY <3>1, RowsStay DEF IInv
    <3>4. CallAt'
      BY <3>1, CopiedStays DEF IInv, CallAt, config, stream, DstColumns
    <3> QED BY <3>2, <3>3, <3>4 DEF IInv
  <2> QED BY <2>1, <2>2, <2>3, <2>4, <2>5, <2>6, <2>7, <2>8, <2>9 DEF Next, Step
<1> QED BY <1>1, InitIInv, PTL DEF Spec

-----------------------------------------------------------------------------
(* Every variable holds a value of its kind, and during an insert the map   *)
(* has every column that is bound, of the row that was taken last.          *)
THEOREM TypeCorrect == Spec => []TypeOK
<1>1. IInv => TypeOK
  <2> SUFFICES ASSUME IInv PROVE TypeOK
    OBVIOUS
  <2>1. ASSUME pc = "exec" PROVE DstColumns \subseteq DOMAIN m /\ m["key"].row = taken
    <3>1. /\ taken \in Row /\ taken <= fetched /\ m = transform(how[taken], read[taken])
          /\ DstColumns \subseteq DOMAIN m /\ "key" \in DOMAIN m
      BY <2>1, SizeAssumption DEF IInv, Typed, CallAt, Row, DstColumns, Columns, SrcColumns
    <3>2. \E v \in 0 .. version : OfRow(m, taken, v, calls)
      BY <2>1, <3>1, ScannedRow
    <3> QED BY <3>1, <3>2 DEF OfRow
  <2> QED BY <2>1 DEF IInv, Typed, RowsKept, TypeOK
<1> QED BY <1>1, Inductive, PTL

(* When RewriteTable returns nil, every row was read, and each one that the *)
(* transform does not empty is in dst, transformed once as it was read in   *)
(* this call, or as another writer left it since.                           *)
THEOREM NilCopies == Spec => []NilMeansCopied
<1>1. IInv => NilMeansCopied
  <2> SUFFICES ASSUME IInv, ret = "nil", NEW r \in Row PROVE read[r] # NoRow /\ Copied(r)
    BY DEF NilMeansCopied, Copied
  <2>1. r \in 1 .. taken /\ r <= fetched /\ pc = "idle"
    BY SizeAssumption DEF IInv, CallAt, Typed, Row
  <2>2. DOMAIN read[r] = SrcColumns
    BY <2>1 DEF IInv, RowsKept, SrcRow
  <2>3. read[r] # NoRow
    BY <2>2 DEF SrcColumns, NoRow
  <2>4. Copied(r)
    BY <2>1 DEF IInv, CallAt
  <2> QED BY <2>3, <2>4
<1> QED BY <1>1, Inductive, PTL

(* A row of either table, in place too, is one version of that row; what is *)
(* only read, and rows that the transform empties or takes a column from,   *)
(* are as their other writers left them.                                    *)
THEOREM RowsStayWhole == Spec => []RowsWhole
<1>1. IInv => RowsWhole
  <2> SUFFICES ASSUME IInv, NEW r \in Row
               PROVE  /\ tables["dst"][r] # NoRow =>
                           /\ ~inPlace /\ ~NotInserted(r)
                           /\ OneVersion(tables["dst"][r], r, DstColumns)
                      /\ OneVersion(tables["src"][r], r, SrcColumns)
                      /\ LeftAlone(r)
    BY DEF RowsWhole, LeftAlone
  <2>1. /\ DstRow(tables["dst"][r], r) /\ LeftAlone(r)
        /\ SrcRow(tables["src"][r], r, version, calls)
    BY DEF IInv, RowsKept
  <2>2. OneVersion(tables["src"][r], r, SrcColumns)
    BY <2>1 DEF SrcRow, OfRow, OneVersion
  <2> QED BY <2>1, <2>2 DEF DstRow, OfRow, OneVersion, NotInserted
<1> QED BY <1>1, Inductive, PTL
=============================================================================
