---------------------------- MODULE TableProofs ----------------------------
(***************************************************************************)
(* A table's key comparisons never change, however many builders share     *)
(* them (Table).  The reason is in the capacities: a slice on one of the   *)
(* table's two arrays always ends where the array ends, so an append to it *)
(* moves to a new array.  And callers that share no slice with spare cells *)
(* behind it do not disturb each other, for a like reason: an array that   *)
(* several of them have is never written, every other array is of one.     *)
(***************************************************************************)
EXTENDS Table, SequenceTheorems, TLAPS

Cells == Names \cup Callers
Heaps == Seq(Seq(Cells))
TableArrays == {KeyArray, PartArray}

(* The arrays of the table hold the keys and nothing else, and those of the *)
(* callers are as long as the slices the callers have on them.              *)
KeepsKeys(h) ==
    /\ h \in Heaps /\ Len(h) >= 5
    /\ h[KeyArray] = KeyCells /\ h[PartArray] = PartKey
    /\ Len(h[ColumnsArray]) >= Len(Columns) /\ Len(h[CommonArray]) >= Len(Common)

(* A slice lies within its array, and fills it when it is the table's.      *)
Fits(h, s) ==
    /\ s \in [arr : Nat, len : Nat]
    /\ s.arr \in 1 .. Len(h) /\ s.len <= Len(h[s.arr])
    /\ s.arr \in TableArrays => s.len = Len(h[s.arr])

(* No array of h goes away or changes its size.                             *)
Extends(h, k) == Len(h) <= Len(k) /\ \A a \in 1 .. Len(h) : Len(k[a]) = Len(h[a])

Keeps(h, r) == KeepsKeys(r.heap) /\ Extends(h, r.heap) /\ Fits(r.heap, r.slice)

BuilderFits(h, bld) ==
    /\ bld \in [kind : {"none", "select", "update", "delete"},
                where : [arr : Nat, len : Nat], columns : [arr : Nat, len : Nat],
                adds : Nat]
    /\ Fits(h, bld.where) /\ Fits(h, bld.columns)
    /\ bld.kind = "none" => bld = NoBuilder

(* The inductive invariant.                                                 *)
KeysAreFull ==
    /\ KeepsKeys(heap)
    /\ builder \in [Callers -> [kind : {"none", "select", "update", "delete"},
                                where : [arr : Nat, len : Nat],
                                columns : [arr : Nat, len : Nat], adds : Nat]]
    /\ \A g \in Callers : BuilderFits(heap, builder[g])

-----------------------------------------------------------------------------
(* A slice that fits goes on fitting as memory grows.                       *)
LEMMA StillFits ==
    ASSUME NEW h, NEW k, NEW s, Fits(h, s), Extends(h, k)
    PROVE  Fits(k, s)
  BY DEF Fits, Extends

LEMMA ExtendsTransitive ==
    ASSUME NEW h \in Heaps, NEW k \in Heaps, NEW l \in Heaps,
           Extends(h, k), Extends(k, l)
    PROVE  Extends(h, l)
  <1>1. Len(h) \in Nat /\ Len(k) \in Nat /\ Len(l) \in Nat
    BY LenProperties DEF Heaps
  <1> QED  BY <1>1 DEF Extends

(* The cells a slice shows are cells.                                       *)
LEMMA ReadCells ==
    ASSUME NEW h \in Heaps, NEW s, Fits(h, s)
    PROVE  Read(h, s) \in Seq(Cells) /\ Len(Read(h, s)) = s.len
  <1>1. h[s.arr] \in Seq(Cells)
    BY ElementOfSeq DEF Heaps, Fits
  <1>2. s.len \in 0 .. Len(h[s.arr])
    BY <1>1, LenProperties DEF Fits
  <1> QED  BY <1>1, <1>2, SubSeqProperties DEF Read

(* Memory that agrees on the first five arrays keeps the keys too.          *)
LEMMA SameArrays ==
    ASSUME NEW h, KeepsKeys(h), NEW k \in Heaps, Len(k) >= 5,
           k[KeyArray] = h[KeyArray], k[PartArray] = h[PartArray],
           Len(k[ColumnsArray]) = Len(h[ColumnsArray]),
           Len(k[CommonArray]) = Len(h[CommonArray])
    PROVE  KeepsKeys(k)
  BY DEF KeepsKeys

LEMMA FiveArrays ==
    ASSUME NEW h, KeepsKeys(h)
    PROVE  /\ h \in Heaps /\ Len(h) \in Nat /\ Len(h) >= 5
           /\ \A a \in {KeyArray, PartArray, ColumnsArray, CommonArray} : a \in 1 .. Len(h)
  <1>1. h \in Heaps /\ Len(h) >= 5
    BY DEF KeepsKeys
  <1>2. Len(h) \in Nat
    BY <1>1, LenProperties DEF Heaps
  <1> QED  BY <1>1, <1>2 DEF KeyArray, PartArray, ColumnsArray, CommonArray

(* A new array leaves the others alone (make, a literal, append's move).    *)
LEMMA AllocateKeeps ==
    ASSUME NEW h, KeepsKeys(h), NEW cells \in Seq(Cells), NEW len \in 0 .. Len(cells)
    PROVE  Keeps(h, Allocate(h, cells, len))
  <1>0. PICK k : k = Append(h, cells)
    OBVIOUS
  <1>1. h \in Seq(Seq(Cells)) /\ Len(h) \in Nat /\ Len(h) >= 5
    BY FiveArrays DEF Heaps
  <1>2. /\ k \in Seq(Seq(Cells)) /\ Len(k) = Len(h) + 1 /\ k[Len(h) + 1] = cells
        /\ \A a \in 1 .. Len(h) : k[a] = h[a]
    BY <1>0, <1>1, AppendProperties
  <1>3. KeepsKeys(k)
    <2>1. \A a \in {KeyArray, PartArray, ColumnsArray, CommonArray} : k[a] = h[a]
      BY <1>2, FiveArrays
    <2>2. k \in Heaps /\ Len(k) >= 5
      BY <1>1, <1>2 DEF Heaps
    <2> QED  BY <2>1, <2>2, SameArrays
  <1>4. Extends(h, k)
    <2>1. \A a \in 1 .. Len(h) : Len(k[a]) = Len(h[a])
      BY <1>2
    <2> QED  BY <1>1, <1>2, <2>1 DEF Extends
  <1>5. Fits(k, Slice(Len(h) + 1, len))
    BY <1>1, <1>2, SMTT(30) DEF Fits, Slice, TableArrays, KeyArray, PartArray
  <1>6. Allocate(h, cells, len) = Result(k, Slice(Len(h) + 1, len))
    BY <1>0 DEF Allocate
  <1> QED  BY <1>3, <1>4, <1>5, <1>6 DEF Keeps, Result

LEMMA OverwriteCells ==
    ASSUME NEW cells \in Seq(Cells), NEW xs \in Seq(Cells), NEW at \in Nat
    PROVE  /\ Overwrite(cells, at, xs) \in Seq(Cells)
           /\ Len(Overwrite(cells, at, xs)) = Len(cells)
           /\ xs = <<>> => Overwrite(cells, at, xs) = cells
  <1>1. Len(cells) \in Nat /\ Len(xs) \in Nat /\ DOMAIN cells = 1 .. Len(cells)
    BY LenProperties
  <1>2. ASSUME NEW i \in 1 .. Len(cells), i \in at + 1 .. at + Len(xs)
        PROVE  xs[i - at] \in Cells
    BY <1>1, <1>2, ElementOfSeq
  <1>3. ASSUME NEW i \in 1 .. Len(cells)
        PROVE  (IF i \in at + 1 .. at + Len(xs) THEN xs[i - at] ELSE cells[i]) \in Cells
    BY <1>1, <1>2, <1>3, ElementOfSeq
  <1>4. Overwrite(cells, at, xs) \in [1 .. Len(cells) -> Cells]
    BY <1>1, <1>3 DEF Overwrite
  <1>5. Overwrite(cells, at, xs) \in Seq(Cells) /\ Len(Overwrite(cells, at, xs)) = Len(cells)
    BY <1>1, <1>4, SeqDef, LenProperties
  <1>6. xs = <<>> => Overwrite(cells, at, xs) = cells
    <2>1. xs = <<>> => Overwrite(cells, at, xs) = [i \in DOMAIN cells |-> cells[i]]
      BY DEF Overwrite
    <2> QED  BY <2>1, <1>1
  <1> QED  BY <1>5, <1>6

(* Writing into an array of its own size, when it is not the table's or     *)
(* stays as it was.                                                         *)
LEMMA WriteKeeps ==
    ASSUME NEW h, KeepsKeys(h), NEW a \in 1 .. Len(h), NEW cells \in Seq(Cells),
           Len(cells) = Len(h[a]), a \in TableArrays => cells = h[a]
    PROVE  KeepsKeys([h EXCEPT ![a] = cells]) /\ Extends(h, [h EXCEPT ![a] = cells])
  <1>0. PICK k : k = [h EXCEPT ![a] = cells]
    OBVIOUS
  <1>1. h \in Seq(Seq(Cells)) /\ Len(h) \in Nat /\ Len(h) >= 5
    BY FiveArrays DEF Heaps
  <1>2. k \in Seq(Seq(Cells)) /\ Len(k) = Len(h)
    BY <1>0, <1>1, ExceptSeq
  <1>3. \A i \in 1 .. Len(h) : k[i] = IF i = a THEN cells ELSE h[i]
    BY <1>0, <1>1, ExceptSeq
  <1>4. \A i \in 1 .. Len(h) : Len(k[i]) = Len(h[i])
    BY <1>3
  <1>5. KeepsKeys(k)
    <2>1. /\ k[KeyArray] = h[KeyArray] /\ k[PartArray] = h[PartArray]
      BY <1>3, FiveArrays DEF TableArrays
    <2>2. /\ Len(k[ColumnsArray]) = Len(h[ColumnsArray])
          /\ Len(k[CommonArray]) = Len(h[CommonArray])
      BY <1>4, FiveArrays
    <2>3. k \in Heaps /\ Len(k) >= 5
      BY <1>1, <1>2 DEF Heaps
    <2> QED  BY <2>1, <2>2, <2>3, SameArrays
  <1>6. Extends(h, k)
    BY <1>1, <1>2, <1>4 DEF Extends
  <1> QED  BY <1>0, <1>5, <1>6

LEMMA BlankCells == ASSUME NEW n \in Nat PROVE Blank(n) \in Seq(Cells) /\ Len(Blank(n)) = n
  <1>0. None \in Cells
    BY ConstantsAssumption DEF Cells
  <1>1. Blank(n) \in [1 .. n -> Cells]
    BY <1>0 DEF Blank
  <1> QED  BY <1>1, SeqDef, LenProperties

(* append, whether it finds room or not: on a slice of the table's it never *)
(* does, unless there is nothing to append.                                 *)
LEMMA AppendKeeps ==
    ASSUME NEW h, KeepsKeys(h), NEW s, Fits(h, s), NEW xs \in Seq(Cells),
           NEW r \in AppendTo(h, s, xs)
    PROVE  Keeps(h, r)
  <1> DEFINE cells == h[s.arr]
  <1>1. /\ h \in Heaps /\ s.arr \in 1 .. Len(h) /\ s.arr \in Nat /\ s.len \in Nat
        /\ s.len <= Len(cells)
    BY DEF KeepsKeys, Fits
  <1>2. cells \in Seq(Cells) /\ Len(cells) \in Nat
    BY <1>1, ElementOfSeq, LenProperties DEF Heaps
  <1>3. Len(xs) \in Nat
    BY LenProperties
  <1>4. CASE s.len + Len(xs) <= Len(cells)
    <2>1. PICK over : over = Overwrite(cells, s.len, xs)
      OBVIOUS
    <2>2. r = Result([h EXCEPT ![s.arr] = over], Longer(s, xs))
      BY <1>4, <2>1 DEF AppendTo
    <2>3. over \in Seq(Cells) /\ Len(over) = Len(cells) /\ (xs = <<>> => over = cells)
      BY <1>1, <1>2, <2>1, OverwriteCells
    <2>4. s.arr \in TableArrays => Len(xs) = 0
      BY <1>1, <1>2, <1>3, <1>4 DEF Fits
    <2>5. s.arr \in TableArrays => over = cells
      BY <2>3, <2>4, EmptySeq
    <2>6. PICK k : k = [h EXCEPT ![s.arr] = over]
      OBVIOUS
    <2>7. KeepsKeys(k) /\ Extends(h, k)
      BY <1>1, <2>3, <2>5, <2>6, WriteKeeps
    <2>8. s.arr \in 1 .. Len(k) /\ Len(k[s.arr]) = Len(cells)
      <3>1. Len(h) \in Nat /\ Len(k) \in Nat
        BY <2>7, FiveArrays
      <3> QED  BY <1>1, <2>7, <3>1 DEF Extends
    <2>9. Fits(k, Longer(s, xs))
      BY <1>1, <1>2, <1>3, <1>4, <2>4, <2>8 DEF Fits, Longer, Slice
    <2> QED  BY <2>2, <2>6, <2>7, <2>9 DEF Keeps, Result
  <1>5. CASE ~ (s.len + Len(xs) <= Len(cells))
    <2>1. PICK n \in 0 .. Growth :
            r = Allocate(h, Read(h, s) \o xs \o Blank(n), s.len + Len(xs))
      BY <1>5 DEF AppendTo
    <2>2. n \in Nat
      BY <2>1, ConstantsAssumption
    <2>3. Read(h, s) \in Seq(Cells) /\ Len(Read(h, s)) = s.len
      BY <1>1, ReadCells
    <2>4. /\ Read(h, s) \o xs \in Seq(Cells)
          /\ Len(Read(h, s) \o xs) = s.len + Len(xs)
      BY <2>3, ConcatProperties
    <2>5. /\ Read(h, s) \o xs \o Blank(n) \in Seq(Cells)
          /\ Len(Read(h, s) \o xs \o Blank(n)) = s.len + Len(xs) + n
      BY <2>2, <2>4, BlankCells, ConcatProperties
    <2>6. s.len + Len(xs) \in 0 .. Len(Read(h, s) \o xs \o Blank(n))
      BY <1>1, <1>3, <2>2, <2>5, SMTT(30)
    <2> QED  BY <2>1, <2>5, <2>6, AllocateKeeps
  <1> QED  BY <1>4, <1>5

LEMMA KeepOrAppendKeeps ==
    ASSUME NEW h, KeepsKeys(h), NEW s, Fits(h, s), NEW arg, Fits(h, arg),
           NEW r \in KeepOrAppend(h, s, arg)
    PROVE  Keeps(h, r)
  <1>1. h \in Heaps
    BY DEF KeepsKeys
  <1>2. CASE s.len = 0
    <2>1. r = Result(h, arg)
      BY <1>2 DEF KeepOrAppend
    <2> QED  BY <1>1, <2>1, LenProperties DEF Keeps, Result, Extends, Heaps
  <1>3. CASE s.len # 0
    BY <1>1, <1>3, ReadCells, AppendKeeps DEF KeepOrAppend
  <1> QED  BY <1>2, <1>3

LEMMA AddKeeps ==
    ASSUME NEW h, KeepsKeys(h), NEW s, Fits(h, s), NEW arg, Fits(h, arg), NEW kind,
           NEW r \in AddWhere(kind, h, s, arg) \cup AddColumns(kind, h, s, arg)
    PROVE  Keeps(h, r)
  <1>1. h \in Heaps
    BY DEF KeepsKeys
  <1>2. Read(h, arg) \in Seq(Cells)
    BY <1>1, ReadCells
  <1>3. r \in KeepOrAppend(h, s, arg) \/ r \in AppendTo(h, s, Read(h, arg))
    BY DEF AddWhere, AddColumns
  <1> QED  BY <1>2, <1>3, AppendKeeps, KeepOrAppendKeeps

-----------------------------------------------------------------------------
(* Where the arrays of the table and of the callers are, slices on them     *)
(* fit; the metadata's and the shared one need not be full.                 *)
LEMMA OwnCells == ASSUME NEW g \in Callers PROVE Own(g) \in Seq(Cells) /\ Len(Own(g)) = 1
  <1>1. g \in Cells
    BY DEF Cells
  <1> QED  BY <1>1 DEF Own

LEMMA KeySizes ==
    /\ KeyCells \in Seq(Cells) /\ PartKey \in Seq(Cells)
    /\ Columns \in Seq(Cells) /\ Common \in Seq(Cells)
    /\ Len(KeyCells) = Len(PartKey) + Len(SortKey) /\ Len(KeyCells) \in Nat
    /\ Len(PartKey) \in Nat /\ Len(Columns) \in Nat /\ Len(Common) \in Nat
  <1>1. Names \subseteq Cells
    BY DEF Cells
  <1>2. \A x \in Seq(Names) : x \in Seq(Cells)
    BY <1>1, SeqMonotonic
  <1>3. /\ PartKey \in Seq(Cells) /\ SortKey \in Seq(Cells)
        /\ Columns \in Seq(Cells) /\ Common \in Seq(Cells)
    BY <1>2, ConstantsAssumption
  <1> QED  BY <1>3, ConcatProperties, LenProperties DEF KeyCells

(* Whatever a caller passes to Where or Columns fits, and passing it, even  *)
(* changed, keeps the keys.                                                 *)
LEMMA EditKeeps ==
    ASSUME NEW h, KeepsKeys(h), NEW r, Keeps(h, r), r.slice.arr \notin TableArrays,
           NEW g \in Callers
    PROVE  Keeps(h, Edit(r, g))
  <1>1. /\ KeepsKeys(r.heap) /\ Extends(h, r.heap) /\ Fits(r.heap, r.slice)
    BY DEF Keeps
  <1>2. h \in Heaps /\ r.heap \in Heaps
    BY <1>1 DEF KeepsKeys
  <1>3. r.slice.arr \in 1 .. Len(r.heap)
    BY <1>1 DEF Fits
  <1>4. r.heap[r.slice.arr] \in Seq(Cells)
    BY <1>2, <1>3, ElementOfSeq DEF Heaps
  <1>5. PICK over : over = Overwrite(r.heap[r.slice.arr], 0, Own(g))
    OBVIOUS
  <1>6. over \in Seq(Cells) /\ Len(over) = Len(r.heap[r.slice.arr])
    BY <1>4, <1>5, OwnCells, OverwriteCells
  <1>7. PICK k : k = [r.heap EXCEPT ![r.slice.arr] = over]
    OBVIOUS
  <1>8. KeepsKeys(k) /\ Extends(r.heap, k)
    BY <1>1, <1>3, <1>6, <1>7, WriteKeeps
  <1>9. Extends(h, k) /\ Fits(k, r.slice)
    <2>1. k \in Heaps
      BY <1>8 DEF KeepsKeys
    <2> QED  BY <1>1, <1>2, <1>8, <2>1, ExtendsTransitive, StillFits
  <1>10. Edit(r, g) = Result(k, r.slice)
    BY <1>5, <1>7 DEF Edit
  <1> QED  BY <1>8, <1>9, <1>10 DEF Keeps, Result

LEMMA Unchanged ==
    ASSUME NEW h, KeepsKeys(h), NEW s, Fits(h, s)
    PROVE  Keeps(h, Result(h, s))
  <1>1. h \in Heaps /\ Len(h) \in Nat
    BY FiveArrays
  <1> QED  BY <1>1 DEF Keeps, Result, Extends

LEMMA KnownSlices ==
    ASSUME NEW h, KeepsKeys(h)
    PROVE  /\ Fits(h, primaryKeyCmp) /\ Fits(h, partKeyCmp)
           /\ Fits(h, MetadataColumns) /\ Fits(h, CommonSlice)
  <1>1. /\ h[KeyArray] = KeyCells /\ h[PartArray] = PartKey
        /\ Len(h[ColumnsArray]) >= Len(Columns) /\ Len(h[CommonArray]) >= Len(Common)
    BY DEF KeepsKeys
  <1>2. Fits(h, primaryKeyCmp)
    <2>1. primaryKeyCmp = [arr |-> KeyArray, len |-> Len(KeyCells)]
      BY KeySizes DEF primaryKeyCmp, Slice
    <2> QED  BY <1>1, <2>1, KeySizes, FiveArrays DEF Fits, KeyArray
  <1>3. Fits(h, partKeyCmp)
    BY <1>1, KeySizes, FiveArrays DEF Fits, partKeyCmp, Slice, PartArray
  <1>4. Fits(h, MetadataColumns)
    BY <1>1, KeySizes, FiveArrays
       DEF Fits, MetadataColumns, Slice, TableArrays, ColumnsArray, KeyArray, PartArray
  <1>5. Fits(h, CommonSlice)
    BY <1>1, KeySizes, FiveArrays
       DEF Fits, CommonSlice, Slice, TableArrays, CommonArray, KeyArray, PartArray
  <1> QED  BY <1>2, <1>3, <1>4, <1>5

LEMMA ArgumentsKeep ==
    ASSUME KeepsKeys(heap), NEW g \in Callers,
           NEW arg \in WhereArguments(g) \cup ColumnArguments(g)
    PROVE  Keeps(heap, arg)
  <1>1. Keeps(heap, Allocate(heap, Own(g), 1))
    BY OwnCells, AllocateKeeps
  <1>2. Keeps(heap, Result(heap, CommonSlice)) /\ Keeps(heap, Result(heap, MetadataColumns))
    BY KnownSlices, Unchanged
  <1>3. Keeps(heap, Edit(Result(heap, MetadataColumns), g))
    <2>1. MetadataColumns.arr \notin TableArrays
      BY DEF MetadataColumns, Slice, TableArrays, ColumnsArray, KeyArray, PartArray
    <2>2. Result(heap, MetadataColumns).slice.arr \notin TableArrays
      BY <2>1 DEF Result
    <2> QED  BY <1>2, <2>2, EditKeeps
  <1>4. Keeps(heap, Edit(PrimaryKeyCmp(heap), g))
    <2>1. heap \in Heaps /\ Len(heap) \in Nat /\ Len(heap) >= 5
      BY FiveArrays
    <2>2. /\ Read(heap, primaryKeyCmp) \in Seq(Cells)
          /\ Len(Read(heap, primaryKeyCmp)) = primaryKeyCmp.len
          /\ primaryKeyCmp.len \in Nat
      BY <2>1, KnownSlices, ReadCells DEF Fits
    <2>3. Keeps(heap, PrimaryKeyCmp(heap))
      BY <2>2, AllocateKeeps DEF PrimaryKeyCmp
    <2>4. PrimaryKeyCmp(heap).slice.arr = Len(heap) + 1
      BY DEF PrimaryKeyCmp, Allocate, Result, Slice
    <2>5. PrimaryKeyCmp(heap).slice.arr \notin TableArrays
      BY <2>1, <2>4 DEF TableArrays, KeyArray, PartArray
    <2> QED  BY <2>3, <2>5, EditKeeps
  <1> QED  BY <1>1, <1>2, <1>3, <1>4 DEF WhereArguments, ColumnArguments

-----------------------------------------------------------------------------
(* A step that grows memory and gives one caller a builder that fits keeps  *)
(* every builder's slices where they are.                                   *)
LEMMA StepKeeps ==
    ASSUME KeysAreFull, NEW g \in Callers, NEW bld,
           KeepsKeys(heap'), Extends(heap, heap'), BuilderFits(heap', bld),
           builder' = [builder EXCEPT ![g] = bld]
    PROVE  KeysAreFull'
  <1>1. \A f \in Callers : BuilderFits(heap', builder'[f])
    <2> SUFFICES ASSUME NEW f \in Callers PROVE BuilderFits(heap', builder'[f])
      OBVIOUS
    <2>1. CASE f = g
      BY <2>1 DEF KeysAreFull
    <2>2. CASE f # g
      <3>1. builder'[f] = builder[f] /\ BuilderFits(heap, builder[f])
        BY <2>2 DEF KeysAreFull
      <3> QED  BY <3>1, StillFits DEF BuilderFits
    <2> QED  BY <2>1, <2>2
  <1>2. builder' \in [Callers -> [kind : {"none", "select", "update", "delete"},
                                  where : [arr : Nat, len : Nat],
                                  columns : [arr : Nat, len : Nat], adds : Nat]]
    BY DEF KeysAreFull, BuilderFits
  <1> QED  BY <1>1, <1>2 DEF KeysAreFull

LEMMA NilFits == ASSUME NEW h, KeepsKeys(h) PROVE Fits(h, NilSlice)
  <1>1. h \in Heaps /\ Len(h) \in Nat /\ Len(h) >= 5
    BY FiveArrays
  <1>2. h[1] \in Seq(Cells)
    BY <1>1, ElementOfSeq DEF Heaps
  <1> QED  BY <1>1, <1>2, LenProperties
           DEF Fits, NilSlice, Slice, NilArray, TableArrays, KeyArray, PartArray

LEMMA StartKeeps ==
    ASSUME KeysAreFull, NEW g \in Callers, NEW kind \in {"select", "update", "delete"},
           NEW keys, Fits(heap, keys), Start(g, kind, keys)
    PROVE  KeysAreFull'
  <1>1. PICK w \in AddWhere(kind, heap, NilSlice, keys) :
          /\ heap' = w.heap
          /\ builder' = [builder EXCEPT ![g] = [NoBuilder EXCEPT !.kind = kind,
                                                                !.where = w.slice]]
    BY DEF Start
  <1>2. KeepsKeys(heap)
    BY DEF KeysAreFull
  <1>3. Keeps(heap, w)
    BY <1>1, <1>2, NilFits, AddKeeps
  <1>4. KeepsKeys(heap') /\ Extends(heap, heap') /\ Fits(heap', w.slice)
    BY <1>1, <1>3 DEF Keeps
  <1>5. PICK bld : bld = [NoBuilder EXCEPT !.kind = kind, !.where = w.slice]
    OBVIOUS
  <1>6. bld = [kind |-> kind, where |-> w.slice, columns |-> NilSlice, adds |-> 0]
    BY <1>5 DEF NoBuilder
  <1>7. Fits(heap', NilSlice)
    BY <1>4, NilFits
  <1>8. BuilderFits(heap', bld)
    BY <1>4, <1>6, <1>7 DEF BuilderFits, Fits
  <1> QED  BY <1>1, <1>4, <1>5, <1>8, StepKeeps

LEMMA WhereKeeps ==
    ASSUME KeysAreFull, NEW g \in Callers, Where(g)
    PROVE  KeysAreFull'
  <1>1. PICK arg \in WhereArguments(g) :
          \E w \in AddWhere(builder[g].kind, arg.heap, builder[g].where, arg.slice) :
            /\ heap' = w.heap
            /\ builder' = [builder EXCEPT ![g].where = w.slice, ![g].adds = @ + 1]
    BY DEF Where
  <1>2. PICK w \in AddWhere(builder[g].kind, arg.heap, builder[g].where, arg.slice) :
            /\ heap' = w.heap
            /\ builder' = [builder EXCEPT ![g].where = w.slice, ![g].adds = @ + 1]
    BY <1>1
  <1>3. KeepsKeys(heap) /\ BuilderFits(heap, builder[g])
    BY DEF KeysAreFull
  <1>4. KeepsKeys(arg.heap) /\ Extends(heap, arg.heap) /\ Fits(arg.heap, arg.slice)
    BY <1>1, <1>3, ArgumentsKeep DEF Keeps
  <1>5. Fits(arg.heap, builder[g].where)
    BY <1>3, <1>4, StillFits DEF BuilderFits
  <1>6. KeepsKeys(heap') /\ Extends(arg.heap, heap') /\ Fits(heap', w.slice)
    BY <1>2, <1>4, <1>5, AddKeeps DEF Keeps
  <1>7. Extends(heap, heap')
    BY <1>3, <1>4, <1>6, ExtendsTransitive DEF KeepsKeys
  <1>8. PICK bld : bld = [builder[g] EXCEPT !.where = w.slice, !.adds = @ + 1]
    OBVIOUS
  <1>9. builder' = [builder EXCEPT ![g] = bld]
    BY <1>2, <1>8
  <1>10. /\ bld = [kind |-> builder[g].kind, where |-> w.slice,
                   columns |-> builder[g].columns, adds |-> builder[g].adds + 1]
         /\ builder[g].kind \in {"select", "update", "delete"}
    BY <1>3, <1>8 DEF BuilderFits, Where, CanAdd
  <1>11. Fits(heap', builder[g].columns)
    BY <1>3, <1>7, StillFits DEF BuilderFits
  <1>12. BuilderFits(heap', bld)
    <2>1. /\ w.slice \in [arr : Nat, len : Nat] /\ builder[g].adds + 1 \in Nat
          /\ builder[g].columns \in [arr : Nat, len : Nat]
      BY <1>3, <1>6, SMTT(30) DEF BuilderFits, Fits
    <2>2. Fits(heap', bld.where) /\ Fits(heap', bld.columns) /\ bld.kind # "none"
      BY <1>6, <1>10, <1>11
    <2> QED  BY <1>10, <2>1, <2>2 DEF BuilderFits
  <1> QED  BY <1>6, <1>7, <1>9, <1>12, StepKeeps

LEMMA AddedColumnsKeeps ==
    ASSUME KeysAreFull, NEW g \in Callers, AddedColumns(g)
    PROVE  KeysAreFull'
  <1>1. PICK arg \in ColumnArguments(g) :
          \E w \in AddColumns(builder[g].kind, arg.heap, builder[g].columns, arg.slice) :
            /\ heap' = w.heap
            /\ builder' = [builder EXCEPT ![g].columns = w.slice, ![g].adds = @ + 1]
    BY DEF AddedColumns
  <1>2. PICK w \in AddColumns(builder[g].kind, arg.heap, builder[g].columns, arg.slice) :
            /\ heap' = w.heap
            /\ builder' = [builder EXCEPT ![g].columns = w.slice, ![g].adds = @ + 1]
    BY <1>1
  <1>3. KeepsKeys(heap) /\ BuilderFits(heap, builder[g])
    BY DEF KeysAreFull
  <1>4. KeepsKeys(arg.heap) /\ Extends(heap, arg.heap) /\ Fits(arg.heap, arg.slice)
    BY <1>1, <1>3, ArgumentsKeep DEF Keeps
  <1>5. Fits(arg.heap, builder[g].columns)
    BY <1>3, <1>4, StillFits DEF BuilderFits
  <1>6. KeepsKeys(heap') /\ Extends(arg.heap, heap') /\ Fits(heap', w.slice)
    BY <1>2, <1>4, <1>5, AddKeeps DEF Keeps
  <1>7. Extends(heap, heap')
    BY <1>3, <1>4, <1>6, ExtendsTransitive DEF KeepsKeys
  <1>8. PICK bld : bld = [builder[g] EXCEPT !.columns = w.slice, !.adds = @ + 1]
    OBVIOUS
  <1>9. builder' = [builder EXCEPT ![g] = bld]
    BY <1>2, <1>8
  <1>10. /\ bld = [kind |-> builder[g].kind, where |-> builder[g].where,
                   columns |-> w.slice, adds |-> builder[g].adds + 1]
         /\ builder[g].kind \in {"select", "update", "delete"}
    BY <1>3, <1>8 DEF BuilderFits, AddedColumns, CanAdd
  <1>11. Fits(heap', builder[g].where)
    BY <1>3, <1>7, StillFits DEF BuilderFits
  <1>12. BuilderFits(heap', bld)
    <2>1. /\ w.slice \in [arr : Nat, len : Nat] /\ builder[g].adds + 1 \in Nat
          /\ builder[g].where \in [arr : Nat, len : Nat]
      BY <1>3, <1>6, SMTT(30) DEF BuilderFits, Fits
    <2>2. Fits(heap', bld.where) /\ Fits(heap', bld.columns) /\ bld.kind # "none"
      BY <1>6, <1>10, <1>11
    <2> QED  BY <1>10, <2>1, <2>2 DEF BuilderFits
  <1> QED  BY <1>6, <1>7, <1>9, <1>12, StepKeeps

-----------------------------------------------------------------------------
(* New makes the two arrays exactly as long as the keys.                    *)
LEMMA InitFull == ASSUME Init PROVE KeysAreFull
  <1>1. /\ heap = << <<>>, KeyCells, PartKey, Columns \o Blank(Spare),
                     Common \o Blank(Spare) >>
        /\ builder = [g \in Callers |-> NoBuilder]
    BY DEF Init
  <1>2. /\ Columns \o Blank(Spare) \in Seq(Cells)
        /\ Common \o Blank(Spare) \in Seq(Cells)
        /\ Len(Columns \o Blank(Spare)) = Len(Columns) + Spare
        /\ Len(Common \o Blank(Spare)) = Len(Common) + Spare
        /\ Spare \in Nat
    <2>1. Spare \in Nat
      BY ConstantsAssumption DEF Spare
    <2>2. Blank(Spare) \in Seq(Cells) /\ Len(Blank(Spare)) = Spare
      BY <2>1, BlankCells
    <2>3. Columns \in Seq(Cells) /\ Common \in Seq(Cells)
      BY KeySizes
    <2> QED  BY <2>1, <2>2, <2>3, ConcatProperties
  <1>3. heap \in Heaps /\ Len(heap) = 5
    BY <1>1, <1>2, KeySizes DEF Heaps
  <1>4. /\ heap[KeyArray] = KeyCells /\ heap[PartArray] = PartKey
        /\ heap[ColumnsArray] = Columns \o Blank(Spare)
        /\ heap[CommonArray] = Common \o Blank(Spare)
    BY <1>1 DEF KeyArray, PartArray, ColumnsArray, CommonArray
  <1>5. KeepsKeys(heap)
    BY <1>2, <1>3, <1>4, KeySizes DEF KeepsKeys
  <1>6. BuilderFits(heap, NoBuilder)
    BY <1>5, NilFits DEF BuilderFits, NoBuilder, Fits
  <1> QED  BY <1>1, <1>5, <1>6 DEF KeysAreFull, BuilderFits

LEMMA NextFull == ASSUME KeysAreFull, [Next]_vars PROVE KeysAreFull'
  <1>1. CASE UNCHANGED vars
    BY <1>1 DEF vars, KeysAreFull
  <1>2. ASSUME NEW g \in Callers,
               GetBuilder(g) \/ SelectBuilder(g) \/ UpdateBuilder(g) \/ DeleteBuilder(g)
                 \/ NewSelect(g)
        PROVE  KeysAreFull'
    <2>1. KeepsKeys(heap)
      BY DEF KeysAreFull
    <2>2. Fits(heap, primaryKeyCmp) /\ Fits(heap, partKeyCmp) /\ Fits(heap, NilSlice)
      BY <2>1, KnownSlices, NilFits
    <2>3. CASE GetBuilder(g)     BY <2>2, <2>3, StartKeeps DEF GetBuilder
    <2>4. CASE SelectBuilder(g)  BY <2>2, <2>4, StartKeeps DEF SelectBuilder
    <2>5. CASE UpdateBuilder(g)  BY <2>2, <2>5, StartKeeps DEF UpdateBuilder
    <2>6. CASE DeleteBuilder(g)  BY <2>2, <2>6, StartKeeps DEF DeleteBuilder
    <2>7. CASE NewSelect(g)      BY <2>2, <2>7, StartKeeps DEF NewSelect
    <2> QED  BY <1>2, <2>3, <2>4, <2>5, <2>6, <2>7
  <1> QED  BY <1>1, <1>2, WhereKeeps, AddedColumnsKeeps DEF Next

(* The invariant holds always: the table's arrays hold the keys, and every  *)
(* slice of a builder that is on one of them ends where it ends.            *)
THEOREM KeysStayFull == Spec => []KeysAreFull
  BY InitFull, NextFull, PTL DEF Spec

(* The key comparisons New made are there for ever, whatever any number of  *)
(* goroutines builds from the table, however much room append leaves and    *)
(* callers leave in their own slices.                                       *)
THEOREM TableNeverChanges == Spec => []TableImmutable
  <1>1. KeysAreFull => TableImmutable
    <2> SUFFICES ASSUME KeysAreFull PROVE TableImmutable
      OBVIOUS
    <2>1. heap \in Heaps /\ heap[KeyArray] = KeyCells /\ heap[PartArray] = PartKey
      BY DEF KeysAreFull, KeepsKeys
    <2>2. Read(heap, primaryKeyCmp) = SubSeq(KeyCells, 1, Len(KeyCells))
      BY <2>1, KeySizes DEF Read, primaryKeyCmp, Slice
    <2>3. Read(heap, partKeyCmp) = SubSeq(PartKey, 1, Len(PartKey))
      BY <2>1 DEF Read, partKeyCmp, Slice
    <2> QED  BY <2>2, <2>3, KeySizes, SubSeqFull DEF TableImmutable, KeyCells
  <1> QED  BY <1>1, KeysStayFull, PTL

(* No slice ever reaches beyond its array.                                  *)
THEOREM TypeCorrect == Spec => []TypeOK
  <1>1. Spec => [](careful \in BOOLEAN)
    <2>1. Init => careful \in BOOLEAN
      BY DEF Init
    <2>2. careful \in BOOLEAN /\ [Next]_vars => (careful \in BOOLEAN)'
      BY DEF Next, vars
    <2> QED  BY <2>1, <2>2, PTL DEF Spec
  <1>2. KeysAreFull /\ careful \in BOOLEAN => TypeOK
    <2> SUFFICES ASSUME KeysAreFull, NEW g \in Callers
                 PROVE  /\ builder[g].kind \in {"none", "select", "update", "delete"}
                        /\ \A s \in {builder[g].where, builder[g].columns} :
                             s.arr \in DOMAIN heap /\ s.len \in 0 .. Len(heap[s.arr])
                        /\ builder[g].kind = "none" => builder[g] = NoBuilder
      BY DEF TypeOK
    <2>1. BuilderFits(heap, builder[g]) /\ heap \in Heaps
      BY DEF KeysAreFull, KeepsKeys
    <2>2. ASSUME NEW s, Fits(heap, s)
          PROVE  s.arr \in DOMAIN heap /\ s.len \in 0 .. Len(heap[s.arr])
      <3>1. heap[s.arr] \in Seq(Cells) /\ s.arr \in 1 .. Len(heap)
        BY <2>1, <2>2, ElementOfSeq DEF Fits, Heaps
      <3> QED  BY <2>1, <2>2, <3>1, LenProperties DEF Fits, Heaps
    <2> QED  BY <2>1, <2>2 DEF BuilderFits
  <1> QED  BY <1>1, <1>2, KeysStayFull, PTL

-----------------------------------------------------------------------------
(* Why careful callers do not disturb each other.  The arrays that are      *)
(* shared, those below Private, are never written, because whoever has a    *)
(* slice of one has all of it and append finds no room; every other array   *)
(* is of one slice of one builder.                                          *)
SharedArrays == 5
Private(a) == a > SharedArrays

(* The shared arrays as they were made; KeepsKeys has the table's.          *)
Untouched(h) == h[NilArray] = <<>> /\ h[ColumnsArray] = Columns /\ h[CommonArray] = Common
WholeIfShared(h, s) == Private(s.arr) \/ s.len = Len(h[s.arr])

(* An argument is a shared array or a new one, and leaves all others alone. *)
Argument(h, r) ==
    /\ Keeps(h, r) /\ WholeIfShared(r.heap, r.slice)
    /\ \A a \in 1 .. Len(h) : r.heap[a] = h[a]
    /\ Private(r.slice.arr) => r.slice.arr > Len(h)

(* To add xs to slice s changes no array but that of s, and only if it is a *)
(* private one, and results in a slice there or in an array that is new or  *)
(* shared.                                                                  *)
Adds(h, s, xs, r) ==
    /\ Keeps(h, r) /\ WholeIfShared(r.heap, r.slice)
    /\ \A a \in 1 .. Len(h) : ~Private(a) \/ a # s.arr => r.heap[a] = h[a]
    /\ Private(r.slice.arr) => r.slice.arr = s.arr \/ r.slice.arr > Len(h)
    /\ Read(r.heap, r.slice) = Read(h, s) \o xs

-----------------------------------------------------------------------------
LEMMA StillUntouched ==
    ASSUME NEW h, KeepsKeys(h), Untouched(h), NEW k,
           \A a \in 1 .. Len(h) : ~Private(a) => k[a] = h[a]
    PROVE  Untouched(k)
  <1>1. Len(h) \in Nat /\ Len(h) >= 5
    BY FiveArrays
  <1> QED  BY <1>1 DEF Untouched, Private, SharedArrays, NilArray, ColumnsArray, CommonArray

(* The cells of a slice, one by one.                                        *)
LEMMA ReadCell ==
    ASSUME NEW h \in Heaps, NEW s, Fits(h, s), NEW i \in 1 .. s.len
    PROVE  Read(h, s)[i] = h[s.arr][i]
  <1>1. h[s.arr] \in Seq(Cells)
    BY ElementOfSeq DEF Heaps, Fits
  <1>2. s.len \in Nat /\ s.len <= Len(h[s.arr]) /\ Len(h[s.arr]) \in Nat
    BY <1>1, LenProperties DEF Fits
  <1>3. \A j \in 1 .. s.len : h[s.arr][j] \in Cells
    BY <1>1, <1>2, ElementOfSeq
  <1> QED  BY <1>2, <1>3, SubSeqProperties DEF Read

(* append in place: the slice shows what it did and then xs.                *)
LEMMA InPlaceReads ==
    ASSUME NEW h \in Heaps, NEW s, Fits(h, s), NEW xs \in Seq(Cells),
           NEW k \in Heaps, Fits(k, Longer(s, xs)),
           k[s.arr] = Overwrite(h[s.arr], s.len, xs),
           s.len + Len(xs) <= Len(h[s.arr])
    PROVE  Read(k, Longer(s, xs)) = Read(h, s) \o xs
  <1>1. /\ Longer(s, xs).arr = s.arr /\ Longer(s, xs).len = s.len + Len(xs)
        /\ s.len \in Nat /\ Len(xs) \in Nat
    BY LenProperties DEF Longer, Slice, Fits
  <1>2. /\ Read(k, Longer(s, xs)) \in Seq(Cells)
        /\ Len(Read(k, Longer(s, xs))) = s.len + Len(xs)
    BY <1>1, ReadCells
  <1>3. Read(h, s) \in Seq(Cells) /\ Len(Read(h, s)) = s.len
    BY ReadCells
  <1>4. /\ Read(h, s) \o xs \in Seq(Cells) /\ Len(Read(h, s) \o xs) = s.len + Len(xs)
        /\ \A i \in 1 .. s.len + Len(xs) :
             (Read(h, s) \o xs)[i] = IF i <= s.len THEN Read(h, s)[i] ELSE xs[i - s.len]
    <2>1. PICK base : base = Read(h, s)
      OBVIOUS
    <2>2. base \in Seq(Cells) /\ xs \in Seq(Cells) /\ Len(base) = s.len
      BY <1>3, <2>1
    <2>3. /\ base \o xs \in Seq(Cells) /\ Len(base \o xs) = Len(base) + Len(xs)
          /\ \A i \in 1 .. Len(base) + Len(xs) :
               (base \o xs)[i] = IF i <= Len(base) THEN base[i] ELSE xs[i - Len(base)]
      BY ONLY <2>2, ConcatProperties
    <2> QED  BY <2>1, <2>2, <2>3
  <1>5. ASSUME NEW i \in 1 .. s.len + Len(xs)
        PROVE  Read(k, Longer(s, xs))[i] = (Read(h, s) \o xs)[i]
    <2>1. Read(k, Longer(s, xs))[i] = k[s.arr][i]
      <3>1. PICK t : t = Longer(s, xs)
        OBVIOUS
      <3>2. Fits(k, t) /\ i \in 1 .. t.len /\ t.arr = s.arr
        BY <1>1, <3>1
      <3>3. Read(k, t)[i] = k[t.arr][i]
        BY <3>2, ReadCell
      <3> QED  BY <3>1, <3>2, <3>3
    <2>2. h[s.arr] \in Seq(Cells)
      BY ElementOfSeq DEF Heaps, Fits
    <2>3. i \in DOMAIN h[s.arr]
      BY <1>1, <2>2, LenProperties
    <2>4. k[s.arr][i] =
            IF i \in s.len + 1 .. s.len + Len(xs) THEN xs[i - s.len] ELSE h[s.arr][i]
      BY <2>3 DEF Overwrite
    <2>5. CASE i <= s.len
      BY <1>1, <1>4, <2>1, <2>4, <2>5, ReadCell
    <2>6. CASE i > s.len
      BY <1>1, <1>4, <2>1, <2>4, <2>6
    <2>7. i <= s.len \/ i > s.len
      BY <1>1
    <2> QED  BY <2>5, <2>6, <2>7
  <1> DEFINE shown == Read(k, Longer(s, xs))
             wanted == Read(h, s) \o xs
  <1>6. /\ shown \in Seq(Cells) /\ wanted \in Seq(Cells) /\ Len(shown) = Len(wanted)
        /\ Len(shown) = s.len + Len(xs)
    BY <1>2, <1>4
  <1>7. \A i \in 1 .. s.len + Len(xs) : shown[i] = wanted[i]
    BY <1>5
  <1> HIDE DEF shown, wanted
  <1>8. shown = wanted
    BY <1>6, <1>7, SeqEqual
  <1> QED  BY <1>8 DEF shown, wanted

(* append into a new array.                                                 *)
LEMMA MovedReads ==
    ASSUME NEW h \in Heaps, NEW cells \in Seq(Cells), NEW xs \in Seq(Cells),
           NEW rest \in Seq(Cells), cells = xs \o rest,
           NEW r, r = Allocate(h, cells, Len(xs))
    PROVE  Read(r.heap, r.slice) = xs
  <1>1. r.heap = Append(h, cells) /\ r.slice = [arr |-> Len(h) + 1, len |-> Len(xs)]
    BY DEF Allocate, Result, Slice
  <1>2. r.heap[Len(h) + 1] = cells
    BY <1>1, AppendProperties DEF Heaps
  <1>3. Len(xs) \in Nat /\ Len(rest) \in Nat
    BY LenProperties
  <1>4. /\ cells \in Seq(Cells) /\ Len(cells) = Len(xs) + Len(rest)
        /\ \A i \in 1 .. Len(xs) : cells[i] = xs[i]
    BY <1>3, ConcatProperties
  <1>5. \A i \in 1 .. Len(xs) : cells[i] \in Cells
    BY <1>3, <1>4, ElementOfSeq
  <1>6. /\ SubSeq(cells, 1, Len(xs)) \in Seq(Cells) /\ Len(SubSeq(cells, 1, Len(xs))) = Len(xs)
        /\ \A i \in 1 .. Len(xs) : SubSeq(cells, 1, Len(xs))[i] = cells[i]
    BY <1>3, <1>5, SubSeqProperties
  <1>7. SubSeq(cells, 1, Len(xs)) = xs
    BY <1>4, <1>6, SeqEqual
  <1> QED  BY <1>1, <1>2, <1>7 DEF Read

LEMMA AllocateIsNew ==
    ASSUME NEW h, KeepsKeys(h), NEW cells \in Seq(Cells), NEW len
    PROVE  LET r == Allocate(h, cells, len)
           IN  /\ \A a \in 1 .. Len(h) : r.heap[a] = h[a]
               /\ r.slice.arr > Len(h) /\ Private(r.slice.arr) /\ r.heap[r.slice.arr] = cells
  <1>1. h \in Seq(Seq(Cells)) /\ Len(h) \in Nat /\ Len(h) >= 5
    BY FiveArrays DEF Heaps
  <1>2. PICK k : k = Append(h, cells)
    OBVIOUS
  <1>3. /\ k[Len(h) + 1] = cells /\ \A a \in 1 .. Len(h) : k[a] = h[a]
    BY <1>1, <1>2, AppendProperties
  <1>4. Allocate(h, cells, len) = [heap |-> k, slice |-> [arr |-> Len(h) + 1, len |-> len]]
    BY <1>2 DEF Allocate, Result, Slice
  <1> QED  BY <1>1, <1>3, <1>4 DEF Private, SharedArrays

LEMMA AppendAdds ==
    ASSUME NEW h, KeepsKeys(h), NEW s, Fits(h, s), WholeIfShared(h, s),
           NEW xs \in Seq(Cells), NEW r \in AppendTo(h, s, xs)
    PROVE  Adds(h, s, xs, r)
  <1> DEFINE cells == h[s.arr]
  <1>1. /\ h \in Heaps /\ s.arr \in 1 .. Len(h) /\ s.arr \in Nat /\ s.len \in Nat
        /\ s.len <= Len(cells)
    BY DEF KeepsKeys, Fits
  <1>2. cells \in Seq(Cells) /\ Len(cells) \in Nat /\ Len(xs) \in Nat
    BY <1>1, ElementOfSeq, LenProperties DEF Heaps
  <1>3. Keeps(h, r)
    BY AppendKeeps
  <1>4. CASE s.len + Len(xs) <= Len(cells)
    <2>1. PICK over : over = Overwrite(cells, s.len, xs)
      OBVIOUS
    <2>2. PICK k : k = [h EXCEPT ![s.arr] = over]
      OBVIOUS
    <2>3. r.heap = k /\ r.slice = Longer(s, xs)
      BY <1>4, <2>1, <2>2 DEF AppendTo, Result
    <2>4. over \in Seq(Cells) /\ (xs = <<>> => over = cells)
      BY <1>1, <1>2, <2>1, OverwriteCells
    <2>5. \A a \in 1 .. Len(h) : k[a] = IF a = s.arr THEN over ELSE h[a]
      BY <1>1, <2>2, <2>4, ExceptSeq DEF Heaps
    <2>6. Private(s.arr) \/ over = cells
      <3>1. Private(s.arr) \/ Len(xs) = 0
        BY <1>1, <1>2, <1>4 DEF WholeIfShared
      <3> QED  BY <2>4, <3>1, EmptySeq
    <2>7. r.slice.arr = s.arr /\ r.slice.len = s.len + Len(xs)
      BY <2>3 DEF Longer, Slice
    <2>8. k \in Heaps /\ Fits(k, Longer(s, xs))
      BY <1>3, <2>3 DEF Keeps, KeepsKeys
    <2>9. Read(r.heap, r.slice) = Read(h, s) \o xs
      <3>1. k[s.arr] = Overwrite(h[s.arr], s.len, xs)
        BY <1>1, <2>1, <2>5
      <3> QED  BY <1>1, <1>4, <2>3, <2>8, <3>1, InPlaceReads
    <2>10. \A a \in 1 .. Len(h) : ~Private(a) \/ a # s.arr => r.heap[a] = h[a]
      BY <2>3, <2>5, <2>6
    <2>11. WholeIfShared(r.heap, r.slice)
      <3>1. CASE Private(s.arr)
        BY <2>7, <3>1 DEF WholeIfShared
      <3>2. CASE ~Private(s.arr)
        <4>1. s.len = Len(cells) /\ Len(xs) = 0 /\ k[s.arr] = cells
          BY <1>1, <1>2, <1>4, <2>5, <2>6, <3>2 DEF WholeIfShared
        <4> QED  BY <1>2, <2>3, <2>7, <4>1 DEF WholeIfShared
      <3> QED  BY <3>1, <3>2
    <2> QED  BY <1>3, <2>7, <2>9, <2>10, <2>11 DEF Adds
  <1>5. CASE ~ (s.len + Len(xs) <= Len(cells))
    <2>1. PICK n \in 0 .. Growth :
            r = Allocate(h, Read(h, s) \o xs \o Blank(n), s.len + Len(xs))
      BY <1>5 DEF AppendTo
    <2>2. Blank(n) \in Seq(Cells)
      BY <2>1, BlankCells, ConstantsAssumption
    <2>3. Read(h, s) \in Seq(Cells) /\ Len(Read(h, s)) = s.len
      BY <1>1, ReadCells
    <2>4. /\ Read(h, s) \o xs \in Seq(Cells)
          /\ Len(Read(h, s) \o xs) = s.len + Len(xs)
      BY <2>3, ConcatProperties
    <2>5. (Read(h, s) \o xs) \o Blank(n) \in Seq(Cells)
      BY <2>2, <2>4, ConcatProperties
    <2> DEFINE read == Read(h, s) \o xs
               new == read \o Blank(n)
    <2>8. r = Allocate(h, new, Len(read)) /\ read \in Seq(Cells) /\ new \in Seq(Cells)
      BY <2>1, <2>4, <2>5
    <2>9. new = read \o Blank(n)
      OBVIOUS
    <2> HIDE DEF read, new
    <2>6. Read(r.heap, r.slice) = read
      BY <1>1, <2>2, <2>8, <2>9, MovedReads
    <2>7. /\ \A a \in 1 .. Len(h) : r.heap[a] = h[a]
          /\ r.slice.arr > Len(h) /\ Private(r.slice.arr)
      BY <2>8, AllocateIsNew
    <2> QED  BY <1>3, <2>6, <2>7 DEF Adds, WholeIfShared, read
  <1> QED  BY <1>4, <1>5

LEMMA PrimarySize == primaryKeyCmp.arr = KeyArray /\ primaryKeyCmp.len = Len(KeyCells)
  BY KeySizes DEF primaryKeyCmp, Slice

(* What careful callers pass, and what New made, are arguments.             *)
LEMMA SharedIsArgument ==
    ASSUME NEW h, KeepsKeys(h), Untouched(h),
           NEW s \in {primaryKeyCmp, partKeyCmp, NilSlice, MetadataColumns, CommonSlice}
    PROVE  Argument(h, Result(h, s))
  <1>1. Fits(h, s)
    BY KnownSlices, NilFits
  <1>2. Keeps(h, Result(h, s))
    BY <1>1, Unchanged
  <1>3. ~Private(s.arr) /\ s.len = Len(h[s.arr])
    <2>1. h[KeyArray] = KeyCells /\ h[PartArray] = PartKey
      BY DEF KeepsKeys
    <2>2. CASE s = primaryKeyCmp
      BY <2>1, <2>2, PrimarySize DEF Private, SharedArrays, KeyArray
    <2>3. CASE s = partKeyCmp
      BY <2>1, <2>3 DEF partKeyCmp, Slice, Private, SharedArrays, PartArray
    <2>4. CASE s = NilSlice
      BY <2>4 DEF Untouched, NilSlice, Slice, Private, SharedArrays, NilArray
    <2>5. CASE s = MetadataColumns
      BY <2>5 DEF Untouched, MetadataColumns, Slice, Private, SharedArrays, ColumnsArray
    <2>6. CASE s = CommonSlice
      BY <2>6 DEF Untouched, CommonSlice, Slice, Private, SharedArrays, CommonArray
    <2> QED  BY <2>2, <2>3, <2>4, <2>5, <2>6
  <1> QED  BY <1>2, <1>3 DEF Argument, WholeIfShared, Result

LEMMA CarefulArguments ==
    ASSUME KeepsKeys(heap), Untouched(heap), careful, NEW g \in Callers,
           NEW arg \in WhereArguments(g) \cup ColumnArguments(g)
    PROVE  Argument(heap, arg)
  <1>1. Keeps(heap, arg)
    BY ArgumentsKeep
  <1>2. CASE arg = Allocate(heap, Own(g), 1)
    BY <1>1, <1>2, OwnCells, AllocateIsNew DEF Argument, WholeIfShared
  <1>3. CASE arg = Result(heap, CommonSlice) \/ arg = Result(heap, MetadataColumns)
    BY <1>3, SharedIsArgument
  <1>4. CASE arg = Edit(PrimaryKeyCmp(heap), g)
    <2>1. PICK r : r = PrimaryKeyCmp(heap)
      OBVIOUS
    <2>2. heap \in Heaps /\ Len(heap) \in Nat /\ Fits(heap, primaryKeyCmp)
      BY FiveArrays, KnownSlices
    <2>3. Read(heap, primaryKeyCmp) \in Seq(Cells)
      BY <2>2, ReadCells
    <2>4. /\ \A a \in 1 .. Len(heap) : r.heap[a] = heap[a]
          /\ r.slice.arr > Len(heap) /\ Private(r.slice.arr)
      BY <2>1, <2>3, AllocateIsNew DEF PrimaryKeyCmp
    <2>5. arg.slice = r.slice
          /\ arg.heap = [r.heap EXCEPT ![r.slice.arr] = Overwrite(@, 0, Own(g))]
      BY <1>4, <2>1 DEF Edit, Result
    <2>6. \A a \in 1 .. Len(heap) : a # r.slice.arr
      BY <2>2, <2>4
    <2>7. \A a \in 1 .. Len(heap) : arg.heap[a] = r.heap[a]
      BY <2>5, <2>6
    <2> QED  BY <1>1, <2>4, <2>5, <2>7 DEF Argument, WholeIfShared
  <1> QED  BY <1>2, <1>3, <1>4 DEF WhereArguments, ColumnArguments

-----------------------------------------------------------------------------
(* Where or Columns with such an argument.                                  *)
LEMMA ArgumentAdds ==
    ASSUME NEW h, KeepsKeys(h), NEW s, Fits(h, s), WholeIfShared(h, s),
           NEW arg, Argument(h, arg), NEW kind,
           NEW r \in AddWhere(kind, arg.heap, s, arg.slice)
                     \cup AddColumns(kind, arg.heap, s, arg.slice)
    PROVE  Adds(h, s, Read(arg.heap, arg.slice), r)
  <1> DEFINE k == arg.heap
             xs == Read(k, arg.slice)
  <1>1. /\ KeepsKeys(k) /\ Extends(h, k) /\ Fits(k, arg.slice)
        /\ WholeIfShared(k, arg.slice)
        /\ \A a \in 1 .. Len(h) : k[a] = h[a]
        /\ Private(arg.slice.arr) => arg.slice.arr > Len(h)
    BY DEF Argument, Keeps
  <1>2. h \in Heaps /\ k \in Heaps /\ Len(h) \in Nat /\ Len(k) \in Nat
    BY <1>1, FiveArrays
  <1>3. xs \in Seq(Cells)
    BY <1>1, <1>2, ReadCells
  <1>4. s.arr \in 1 .. Len(h) /\ k[s.arr] = h[s.arr] /\ Read(k, s) = Read(h, s)
    BY <1>1 DEF Fits, Read
  <1>5. Fits(k, s) /\ WholeIfShared(k, s)
    BY <1>1, <1>4, StillFits DEF WholeIfShared
  <1>6. CASE r \in AppendTo(k, s, xs)
    <2>1. Adds(k, s, xs, r)
      BY <1>1, <1>3, <1>5, <1>6, AppendAdds
    <2>2. KeepsKeys(r.heap) /\ Extends(k, r.heap) /\ Fits(r.heap, r.slice)
      BY <2>1 DEF Adds, Keeps
    <2>3. Extends(h, r.heap)
      BY <1>1, <1>2, <2>2, ExtendsTransitive DEF KeepsKeys
    <2>4. Len(h) <= Len(k)
      BY <1>1 DEF Extends
    <2>5. \A a \in 1 .. Len(h) : ~Private(a) \/ a # s.arr => r.heap[a] = h[a]
      BY <1>1, <1>2, <2>1, <2>4 DEF Adds
    <2>6. Private(r.slice.arr) => r.slice.arr = s.arr \/ r.slice.arr > Len(h)
      <3>1. r.slice.arr \in Nat
        BY <2>2 DEF Fits
      <3> QED  BY <1>2, <2>1, <2>4, <3>1 DEF Adds
    <2>7. WholeIfShared(r.heap, r.slice) /\ Read(r.heap, r.slice) = Read(h, s) \o xs
      BY <1>4, <2>1 DEF Adds
    <2> QED  BY <2>2, <2>3, <2>5, <2>6, <2>7 DEF Adds, Keeps
  <1>7. CASE s.len = 0 /\ r = Result(k, arg.slice)
    <2>1. r.heap = k /\ r.slice = arg.slice
      BY <1>7 DEF Result
    <2>2. Read(h, s) = <<>>
      <3>1. Read(h, s) \in Seq(Cells) /\ Len(Read(h, s)) = 0
        BY <1>2, <1>7, ReadCells
      <3> QED  BY <3>1, EmptySeq
    <2>3. Read(r.heap, r.slice) = Read(h, s) \o xs
      BY <1>3, <2>1, <2>2, ConcatEmptySeq
    <2> QED  BY <1>1, <2>1, <2>3 DEF Adds, Keeps
  <1> QED  BY <1>6, <1>7 DEF AddWhere, AddColumns, KeepOrAppend

-----------------------------------------------------------------------------
(* No two slices are on one private array.                                  *)
Apart(s, t) == ~(Private(s.arr) /\ s.arr = t.arr)

(* What is done to one slice leaves those apart from it as they are.        *)
LEMMA OthersStay ==
    ASSUME NEW h, KeepsKeys(h), NEW s, NEW xs, NEW r, Adds(h, s, xs, r),
           NEW t, Fits(h, t), WholeIfShared(h, t), Apart(s, t)
    PROVE  /\ r.heap[t.arr] = h[t.arr] /\ Read(r.heap, t) = Read(h, t)
           /\ WholeIfShared(r.heap, t)
           /\ Apart(r.slice, t) /\ Apart(t, r.slice)
  <1>1. Len(h) \in Nat /\ t.arr \in 1 .. Len(h)
    BY FiveArrays DEF Fits
  <1>2. r.heap[t.arr] = h[t.arr]
    BY <1>1 DEF Adds, Apart
  <1>3. Apart(r.slice, t) /\ Apart(t, r.slice)
    BY <1>1 DEF Adds, Apart
  <1> QED  BY <1>2, <1>3 DEF Read, WholeIfShared

(* The invariant of careful callers.                                        *)
Slices(bld) == {bld.where, bld.columns}
Whole ==
    /\ Untouched(heap)
    /\ \A g \in Callers : \A s \in Slices(builder[g]) : WholeIfShared(heap, s)
OnePerArray ==
    \A g \in Callers :
        /\ Apart(builder[g].where, builder[g].columns)
        /\ \A f \in Callers \ {g} :
             \A s \in Slices(builder[g]), t \in Slices(builder[f]) : Apart(s, t)
AsAsked == asked = [g \in Callers |-> ToCql(g)]
Isolated == Whole /\ OnePerArray /\ AsAsked

(* What a step of caller g may do to the others: nothing.                   *)
NotRead(g) ==
    /\ \A h \in Callers \ {g} : builder'[h] = builder[h]
    /\ \A a \in DOMAIN heap : heap'[a] # heap[a] => a \notin ReadByOthers(g)

(* Builder bld is old with its slice s become new, and its slice kept left. *)
Replaces(bld, old, s, new, kept) ==
    \/ /\ old.where = s /\ old.columns = kept /\ bld.where = new /\ bld.columns = kept
    \/ /\ old.columns = s /\ old.where = kept /\ bld.columns = new /\ bld.where = kept

LEMMA AddingIsolates ==
    ASSUME KeysAreFull, Whole, OnePerArray, NEW g \in Callers, NEW s, NEW kept, NEW xs,
           NEW r, Adds(heap, s, xs, r), heap' = r.heap,
           NEW bld, builder' = [builder EXCEPT ![g] = bld],
           Replaces(bld, builder[g], s, r.slice, kept)
    PROVE  /\ Whole' /\ OnePerArray' /\ NotRead(g)
           /\ Read(heap', r.slice) = Read(heap, s) \o xs
           /\ Read(heap', kept) = Read(heap, kept)
           /\ \A f \in Callers \ {g} : ToCql(f)' = ToCql(f)
  <1>1. KeepsKeys(heap) /\ heap \in Heaps
    BY DEF KeysAreFull, KeepsKeys
  <1>2. builder'[g] = bld /\ \A f \in Callers \ {g} : builder'[f] = builder[f]
    BY DEF KeysAreFull
  <1>3. \A f \in Callers : \A t \in Slices(builder[f]) :
          Fits(heap, t) /\ WholeIfShared(heap, t)
    BY DEF KeysAreFull, BuilderFits, Whole, Slices
  <1>4. Slices(builder[g]) = {s, kept} /\ Slices(bld) = {r.slice, kept}
    BY DEF Replaces, Slices
  <1>5. Apart(s, kept)
    BY DEF OnePerArray, Replaces, Apart
  <1>6. ASSUME NEW t, Fits(heap, t), WholeIfShared(heap, t), Apart(s, t)
        PROVE  /\ heap'[t.arr] = heap[t.arr] /\ Read(heap', t) = Read(heap, t)
               /\ WholeIfShared(heap', t)
               /\ Apart(r.slice, t) /\ Apart(t, r.slice)
    BY <1>1, <1>6, OthersStay
  <1>7. /\ Read(heap', kept) = Read(heap, kept) /\ WholeIfShared(heap', kept)
        /\ Apart(r.slice, kept) /\ Apart(kept, r.slice)
    BY <1>3, <1>4, <1>5, <1>6
  <1>8. ASSUME NEW f \in Callers \ {g}, NEW t \in Slices(builder[f])
        PROVE  /\ heap'[t.arr] = heap[t.arr] /\ Read(heap', t) = Read(heap, t)
               /\ WholeIfShared(heap', t)
               /\ Apart(r.slice, t) /\ Apart(t, r.slice)
               /\ Apart(kept, t) /\ Apart(t, kept)
    <2>1. Apart(s, t) /\ Apart(kept, t)
      BY <1>4 DEF OnePerArray
    <2>2. Fits(heap, t) /\ WholeIfShared(heap, t)
      BY <1>3
    <2> QED  BY <1>6, <2>1, <2>2 DEF Apart
  <1>9. Whole'
    <2>1. Untouched(heap')
      <3>1. \A a \in 1 .. Len(heap) : ~Private(a) => heap'[a] = heap[a]
        BY DEF Adds
      <3> QED  BY <1>1, <3>1, StillUntouched DEF Whole
    <2>2. ASSUME NEW f \in Callers, NEW t \in Slices(builder'[f])
          PROVE  WholeIfShared(heap', t)
      <3>1. CASE f = g
        BY <1>2, <1>4, <1>7, <3>1 DEF Adds
      <3>2. CASE f # g
        BY <1>2, <1>8, <3>2
      <3> QED  BY <3>1, <3>2
    <2> QED  BY <2>1, <2>2 DEF Whole, Slices
  <1>10. OnePerArray'
    <2>1. ASSUME NEW f \in Callers PROVE Apart(builder'[f].where, builder'[f].columns)
      <3>1. CASE f = g
        BY <1>2, <1>7, <3>1 DEF Replaces
      <3>2. CASE f # g
        BY <1>2, <3>2 DEF OnePerArray
      <3> QED  BY <3>1, <3>2
    <2>2. ASSUME NEW f \in Callers, NEW e \in Callers \ {f},
                 NEW u \in Slices(builder'[f]), NEW t \in Slices(builder'[e])
          PROVE  Apart(u, t)
      <3>1. CASE f = g
        BY <1>2, <1>4, <1>8, <3>1
      <3>2. CASE e = g
        BY <1>2, <1>4, <1>8, <3>2
      <3>3. CASE f # g /\ e # g
        BY <1>2, <3>3 DEF OnePerArray
      <3> QED  BY <3>1, <3>2, <3>3
    <2> QED  BY <2>1, <2>2 DEF OnePerArray, Slices
  <1>11. \A f \in Callers \ {g} : ToCql(f)' = ToCql(f)
    BY <1>2, <1>8 DEF ToCql, Slices
  <1>12. NotRead(g)
    <2>1. ASSUME NEW a \in DOMAIN heap, heap'[a] # heap[a]
          PROVE  a \notin ReadByOthers(g)
      <3>1. DOMAIN heap = 1 .. Len(heap)
        BY <1>1 DEF Heaps
      <3>2. Private(a)
        BY <2>1, <3>1 DEF Adds
      <3>3. a \notin {KeyArray, PartArray, ColumnsArray, CommonArray}
        BY <3>2 DEF Private, SharedArrays, KeyArray, PartArray, ColumnsArray, CommonArray
      <3>4. \A f \in Callers \ {g} : a # builder[f].where.arr /\ a # builder[f].columns.arr
        BY <1>8, <2>1 DEF Slices
      <3> QED  BY <3>3, <3>4 DEF ReadByOthers
    <2> QED  BY <1>2, <2>1 DEF NotRead
  <1>13. Read(heap', r.slice) = Read(heap, s) \o xs
    BY DEF Adds
  <1> QED  BY <1>7, <1>9, <1>10, <1>11, <1>12, <1>13

-----------------------------------------------------------------------------
(* What the invariants say of one slice of a builder.                       *)
LEMMA SliceOfBuilder ==
    ASSUME KeysAreFull, Isolated, NEW g \in Callers, NEW s \in Slices(builder[g])
    PROVE  KeepsKeys(heap) /\ Untouched(heap) /\ Fits(heap, s) /\ WholeIfShared(heap, s)
  BY DEF KeysAreFull, BuilderFits, Isolated, Whole, Slices

(* The steps of careful callers: Where, Columns or Set, and a new builder.  *)
LEMMA WhereIsolates ==
    ASSUME KeysAreFull, Isolated, careful, NEW g \in Callers, Where(g)
    PROVE  Isolated' /\ NotRead(g)
  <1>1. PICK arg \in WhereArguments(g) :
          \E w \in AddWhere(builder[g].kind, arg.heap, builder[g].where, arg.slice) :
            /\ heap' = w.heap
            /\ builder' = [builder EXCEPT ![g].where = w.slice, ![g].adds = @ + 1]
            /\ asked' = [asked EXCEPT ![g].where = @ \o Read(arg.heap, arg.slice)]
    BY DEF Where
  <1>2. PICK r \in AddWhere(builder[g].kind, arg.heap, builder[g].where, arg.slice) :
            /\ heap' = r.heap
            /\ builder' = [builder EXCEPT ![g].where = r.slice, ![g].adds = @ + 1]
            /\ asked' = [asked EXCEPT ![g].where = @ \o Read(arg.heap, arg.slice)]
    BY <1>1
  <1>3. PICK xs : xs = Read(arg.heap, arg.slice)
    OBVIOUS
  <1>4. PICK s : s = builder[g].where
    OBVIOUS
  <1>5. PICK kept : kept = builder[g].columns
    OBVIOUS
  <1>6. PICK bld : bld = [builder[g] EXCEPT !.where = r.slice, !.adds = @ + 1]
    OBVIOUS
  <1>7. KeepsKeys(heap) /\ Untouched(heap) /\ Fits(heap, s) /\ WholeIfShared(heap, s)
    BY <1>4, SliceOfBuilder DEF Slices
  <1>8. Adds(heap, s, xs, r)
    BY <1>1, <1>2, <1>3, <1>4, <1>7, CarefulArguments, ArgumentAdds
  <1>9. bld.where = r.slice /\ bld.columns = kept
    BY <1>5, <1>6 DEF KeysAreFull
  <1>10. builder' = [builder EXCEPT ![g] = bld] /\ Replaces(bld, builder[g], s, r.slice, kept)
    BY <1>2, <1>4, <1>5, <1>6, <1>9 DEF Replaces
  <1>11. /\ Whole' /\ OnePerArray' /\ NotRead(g)
         /\ Read(heap', r.slice) = Read(heap, s) \o xs
         /\ Read(heap', kept) = Read(heap, kept)
         /\ \A f \in Callers \ {g} : ToCql(f)' = ToCql(f)
    BY <1>2, <1>8, <1>10, AddingIsolates DEF Isolated
  <1>12. ToCql(g)' = [where |-> Read(heap, s) \o xs, columns |-> Read(heap, kept)]
    <2>1. builder'[g] = bld
      BY <1>10 DEF KeysAreFull
    <2> QED  BY <1>9, <1>11, <2>1 DEF ToCql
  <1>13. asked' = [f \in Callers |-> ToCql(f)']
    <2>1. /\ asked = [f \in Callers |-> ToCql(f)]
          /\ ToCql(g) = [where |-> Read(heap, s), columns |-> Read(heap, kept)]
      BY <1>4, <1>5 DEF Isolated, AsAsked, ToCql
    <2>2. PICK shown : shown = Read(heap, s) \o xs
      OBVIOUS
    <2>3. PICK more : more = [asked[g] EXCEPT !.where = shown]
      OBVIOUS
    <2>4. asked[g] = [where |-> Read(heap, s), columns |-> Read(heap, kept)]
      BY <2>1
    <2>5. more = [where |-> shown, columns |-> Read(heap, kept)]
      BY <2>3, <2>4
    <2>6. asked' = [asked EXCEPT ![g] = more]
      BY <1>2, <1>3, <2>2, <2>3, <2>4
    <2> QED  BY <1>11, <1>12, <2>1, <2>2, <2>5, <2>6
  <1> QED  BY <1>11, <1>13 DEF Isolated, AsAsked

LEMMA ColumnsIsolate ==
    ASSUME KeysAreFull, Isolated, careful, NEW g \in Callers, AddedColumns(g)
    PROVE  Isolated' /\ NotRead(g)
  <1>1. PICK arg \in ColumnArguments(g) :
          \E w \in AddColumns(builder[g].kind, arg.heap, builder[g].columns, arg.slice) :
            /\ heap' = w.heap
            /\ builder' = [builder EXCEPT ![g].columns = w.slice, ![g].adds = @ + 1]
            /\ asked' = [asked EXCEPT ![g].columns = @ \o Read(arg.heap, arg.slice)]
    BY DEF AddedColumns
  <1>2. PICK r \in AddColumns(builder[g].kind, arg.heap, builder[g].columns, arg.slice) :
            /\ heap' = r.heap
            /\ builder' = [builder EXCEPT ![g].columns = r.slice, ![g].adds = @ + 1]
            /\ asked' = [asked EXCEPT ![g].columns = @ \o Read(arg.heap, arg.slice)]
    BY <1>1
  <1>3. PICK xs : xs = Read(arg.heap, arg.slice)
    OBVIOUS
  <1>4. PICK s : s = builder[g].columns
    OBVIOUS
  <1>5. PICK kept : kept = builder[g].where
    OBVIOUS
  <1>6. PICK bld : bld = [builder[g] EXCEPT !.columns = r.slice, !.adds = @ + 1]
    OBVIOUS
  <1>7. KeepsKeys(heap) /\ Untouched(heap) /\ Fits(heap, s) /\ WholeIfShared(heap, s)
    BY <1>4, SliceOfBuilder DEF Slices
  <1>8. Adds(heap, s, xs, r)
    BY <1>1, <1>2, <1>3, <1>4, <1>7, CarefulArguments, ArgumentAdds
  <1>9. bld.columns = r.slice /\ bld.where = kept
    BY <1>5, <1>6 DEF KeysAreFull
  <1>10. builder' = [builder EXCEPT ![g] = bld] /\ Replaces(bld, builder[g], s, r.slice, kept)
    BY <1>2, <1>4, <1>5, <1>6, <1>9 DEF Replaces
  <1>11. /\ Whole' /\ OnePerArray' /\ NotRead(g)
         /\ Read(heap', r.slice) = Read(heap, s) \o xs
         /\ Read(heap', kept) = Read(heap, kept)
         /\ \A f \in Callers \ {g} : ToCql(f)' = ToCql(f)
    BY <1>2, <1>8, <1>10, AddingIsolates DEF Isolated
  <1>12. ToCql(g)' = [where |-> Read(heap, kept), columns |-> Read(heap, s) \o xs]
    <2>1. builder'[g] = bld
      BY <1>10 DEF KeysAreFull
    <2> QED  BY <1>9, <1>11, <2>1 DEF ToCql
  <1>13. asked' = [f \in Callers |-> ToCql(f)']
    <2>1. /\ asked = [f \in Callers |-> ToCql(f)]
          /\ ToCql(g) = [where |-> Read(heap, kept), columns |-> Read(heap, s)]
      BY <1>4, <1>5 DEF Isolated, AsAsked, ToCql
    <2>2. PICK shown : shown = Read(heap, s) \o xs
      OBVIOUS
    <2>3. PICK more : more = [asked[g] EXCEPT !.columns = shown]
      OBVIOUS
    <2>4. asked[g] = [where |-> Read(heap, kept), columns |-> Read(heap, s)]
      BY <2>1
    <2>5. more = [where |-> Read(heap, kept), columns |-> shown]
      BY <2>3, <2>4
    <2>6. asked' = [asked EXCEPT ![g] = more]
      BY <1>2, <1>3, <2>2, <2>3, <2>4
    <2> QED  BY <1>11, <1>12, <2>1, <2>2, <2>5, <2>6
  <1> QED  BY <1>11, <1>13 DEF Isolated, AsAsked

(* A new builder starts from the keys, which are shared and whole.          *)
LEMMA StartIsolates ==
    ASSUME KeysAreFull, Isolated, NEW g \in Callers, NEW kind,
           NEW keys \in {primaryKeyCmp, partKeyCmp, NilSlice}, Start(g, kind, keys)
    PROVE  Isolated' /\ NotRead(g)
  <1>1. PICK r \in AddWhere(kind, heap, NilSlice, keys) :
          /\ heap' = r.heap
          /\ builder' = [builder EXCEPT ![g] = [NoBuilder EXCEPT !.kind = kind,
                                                                !.where = r.slice]]
          /\ asked' = [asked EXCEPT ![g].where = Read(heap, keys)]
    BY DEF Start
  <1>2. builder[g] = NoBuilder
    BY DEF Start, KeysAreFull, BuilderFits
  <1>3. /\ builder[g].where = NilSlice /\ builder[g].columns = NilSlice
        /\ NilSlice \in Slices(builder[g])
    BY <1>2 DEF NoBuilder, Slices
  <1>4. /\ KeepsKeys(heap) /\ Untouched(heap)
        /\ Fits(heap, NilSlice) /\ WholeIfShared(heap, NilSlice)
    BY <1>3, SliceOfBuilder
  <1>5. PICK xs : xs = Read(heap, keys)
    OBVIOUS
  <1>6. PICK arg : arg = Result(heap, keys)
    OBVIOUS
  <1>7. arg.heap = heap /\ arg.slice = keys /\ Argument(heap, arg)
    BY <1>4, <1>6, SharedIsArgument DEF Result
  <1>8. Adds(heap, NilSlice, xs, r)
    BY <1>1, <1>4, <1>5, <1>7, ArgumentAdds
  <1>9. PICK bld : bld = [NoBuilder EXCEPT !.kind = kind, !.where = r.slice]
    OBVIOUS
  <1>10. /\ bld.where = r.slice /\ bld.columns = NilSlice
         /\ builder' = [builder EXCEPT ![g] = bld]
    BY <1>1, <1>9 DEF NoBuilder
  <1>11. Replaces(bld, builder[g], NilSlice, r.slice, NilSlice)
    BY <1>3, <1>10 DEF Replaces
  <1>12. /\ Whole' /\ OnePerArray' /\ NotRead(g)
         /\ Read(heap', r.slice) = Read(heap, NilSlice) \o xs
         /\ Read(heap', NilSlice) = Read(heap, NilSlice)
         /\ \A f \in Callers \ {g} : ToCql(f)' = ToCql(f)
    <2>1. heap' = r.heap /\ Whole /\ OnePerArray
      BY <1>1 DEF Isolated
    <2>2. PICK s : s = NilSlice
      OBVIOUS
    <2>3. /\ Adds(heap, s, xs, r) /\ builder' = [builder EXCEPT ![g] = bld]
          /\ Replaces(bld, builder[g], s, r.slice, s)
      BY <1>8, <1>10, <1>11, <2>2
    <2>4. /\ Whole' /\ OnePerArray' /\ NotRead(g)
          /\ Read(heap', r.slice) = Read(heap, s) \o xs
          /\ Read(heap', s) = Read(heap, s)
          /\ \A f \in Callers \ {g} : ToCql(f)' = ToCql(f)
      BY ONLY <2>1, <2>3, KeysAreFull, g \in Callers, AddingIsolates
    <2> QED  BY <2>2, <2>4
  <1>13. Read(heap, NilSlice) = <<>> /\ <<>> \o xs = xs
    <2>1. heap \in Heaps /\ Fits(heap, keys)
      BY <1>4, KnownSlices DEF KeepsKeys
    <2>2. xs \in Seq(Cells)
      BY <1>5, <2>1, ReadCells
    <2>3. Read(heap, NilSlice) \in Seq(Cells) /\ Len(Read(heap, NilSlice)) = 0
      BY <1>4, <2>1, ReadCells DEF NilSlice, Slice
    <2> QED  BY <2>2, <2>3, EmptySeq, ConcatEmptySeq
  <1>14. ToCql(g)' = [where |-> xs, columns |-> <<>>]
    <2>1. builder'[g] = bld
      BY <1>10 DEF KeysAreFull
    <2> QED  BY <1>10, <1>12, <1>13, <2>1 DEF ToCql
  <1>15. asked' = [f \in Callers |-> ToCql(f)']
    <2>1. /\ asked = [f \in Callers |-> ToCql(f)]
          /\ ToCql(g) = [where |-> <<>>, columns |-> <<>>]
      BY <1>3, <1>13 DEF Isolated, AsAsked, ToCql
    <2>2. asked' = [asked EXCEPT ![g] = [asked[g] EXCEPT !.where = xs]]
      BY <1>1, <1>5
    <2>3. [asked[g] EXCEPT !.where = xs] = [where |-> xs, columns |-> <<>>]
      BY <2>1
    <2> QED  BY <1>12, <1>14, <2>1, <2>2, <2>3
  <1> QED  BY <1>12, <1>15 DEF Isolated, AsAsked

-----------------------------------------------------------------------------
(* At first every slice is nil, and careful callers leave no room.          *)
LEMMA InitIsolated == ASSUME Init, careful PROVE Isolated
  <1>1. /\ heap = << <<>>, KeyCells, PartKey, Columns \o Blank(0), Common \o Blank(0) >>
        /\ builder = [g \in Callers |-> NoBuilder]
        /\ asked = [g \in Callers |-> NotAsked]
    BY DEF Init, Spare
  <1>2. Columns \o Blank(0) = Columns /\ Common \o Blank(0) = Common
    <2>1. Blank(0) \in Seq(Cells) /\ Len(Blank(0)) = 0
      BY BlankCells
    <2>2. Blank(0) = <<>>
      BY <2>1, EmptySeq
    <2> QED  BY <2>2, KeySizes, ConcatEmptySeq
  <1>3. Untouched(heap) /\ heap[NilArray] = <<>>
    BY <1>1, <1>2 DEF Untouched, NilArray, ColumnsArray, CommonArray
  <1>4. WholeIfShared(heap, NilSlice) /\ Apart(NilSlice, NilSlice)
    BY <1>3 DEF WholeIfShared, Apart, NilSlice, Slice, Private, SharedArrays, NilArray
  <1>5. \A g \in Callers : builder[g].where = NilSlice /\ builder[g].columns = NilSlice
    BY <1>1 DEF NoBuilder
  <1>6. Whole /\ OnePerArray
    BY <1>3, <1>4, <1>5 DEF Whole, OnePerArray, Slices
  <1>7. Read(heap, NilSlice) = <<>>
    BY <1>3 DEF Read, NilSlice, Slice
  <1>8. AsAsked
    BY <1>1, <1>5, <1>7 DEF AsAsked, ToCql, NotAsked
  <1> QED  BY <1>6, <1>8 DEF Isolated

(* A step of careful callers is a step of one of them that keeps to what is *)
(* its own.                                                                 *)
LEMMA StepIsolates ==
    ASSUME KeysAreFull, Isolated, careful, Next
    PROVE  Isolated' /\ \E g \in Callers : NotRead(g)
  <1>1. ASSUME NEW g \in Callers,
               GetBuilder(g) \/ SelectBuilder(g) \/ UpdateBuilder(g) \/ DeleteBuilder(g)
                 \/ NewSelect(g)
        PROVE  Isolated' /\ NotRead(g)
    BY <1>1, StartIsolates
       DEF GetBuilder, SelectBuilder, UpdateBuilder, DeleteBuilder, NewSelect
  <1>2. PICK g \in Callers :
          \/ GetBuilder(g) \/ SelectBuilder(g) \/ UpdateBuilder(g) \/ DeleteBuilder(g)
          \/ NewSelect(g) \/ Where(g) \/ AddedColumns(g)
    BY DEF Next
  <1> QED  BY <1>1, <1>2, WhereIsolates, ColumnsIsolate

(* Whatever careful callers do, each is alone with what it builds.          *)
THEOREM CarefulAreIsolated == Spec => [](careful => Isolated)
  <1>1. Init => (careful => Isolated)
    BY InitIsolated
  <1>2. KeysAreFull /\ (careful => Isolated) /\ [Next]_vars => (careful => Isolated)'
    <2> SUFFICES ASSUME KeysAreFull, careful => Isolated, [Next]_vars, careful'
                 PROVE  Isolated'
      OBVIOUS
    <2>1. CASE Next
      BY <2>1, StepIsolates DEF Next
    <2>2. CASE UNCHANGED vars
      BY <2>2 DEF vars, Isolated, Whole, OnePerArray, AsAsked, ToCql
    <2> QED  BY <2>1, <2>2
  <1> QED  BY <1>1, <1>2, KeysStayFull, PTL DEF Spec

(* Every builder of a careful caller writes what that caller asked of it,   *)
(* in the order it asked, however many callers share the table and however  *)
(* much room append leaves behind the slices it moves.                      *)
THEOREM BuildersStayIsolated == Spec => []BuildersIsolated
  <1>1. (careful => Isolated) => BuildersIsolated
    BY DEF Isolated, AsAsked, BuildersIsolated
  <1> QED  BY <1>1, CarefulAreIsolated, PTL

(* No step of a careful caller changes an array another one could read.     *)
THEOREM WritesAreNotShared == Spec => NoSharedWrite
  <1>1. KeysAreFull /\ (careful => Isolated) /\ [Next]_vars
          => [careful => \E g \in Callers :
                /\ \A h \in Callers \ {g} : builder'[h] = builder[h]
                /\ \A a \in DOMAIN heap : heap'[a] # heap[a] => a \notin ReadByOthers(g)]_vars
    BY StepIsolates DEF NotRead
  <1> QED  BY <1>1, KeysStayFull, CarefulAreIsolated, PTL DEF Spec, NoSharedWrite
=============================================================================
