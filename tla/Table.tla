------------------------------- MODULE Table -------------------------------
(***************************************************************************)
(* One table.Table used by several goroutines at once, each with a query   *)
(* builder of its own (table/table.go, qb/select.go, update.go, delete.go).*)
(* Builders keep Go slices, and SelectBuilder and UpdateBuilder keep the   *)
(* caller's, the table's own keys among them, so memory is modelled: an    *)
(* array is a sequence of cells, a slice an array and a length, and append *)
(* writes into the array it finds when there is room.                      *)
(***************************************************************************)
EXTENDS Naturals, Sequences

CONSTANTS
    Callers,      \* the goroutines
    Names,        \* names of columns, and comparisons with them
    None,         \* the one in a cell not written yet
    PartKey, SortKey, Columns,  \* the metadata: names, as sequences
    Common,       \* comparisons kept in one slice that every caller may pass
    CallerSpare,  \* unused cells behind the slices of careless callers
    Growth,       \* unused cells append may leave behind a slice it moves
    MaxAdds       \* bound: Where and Columns calls on one builder

Blank(n) == [i \in 1 .. n |-> None]

ASSUME ConstantsAssumption ==
    /\ PartKey \in Seq(Names) /\ SortKey \in Seq(Names) /\ Columns \in Seq(Names)
    /\ Common \in Seq(Names) /\ PartKey # <<>> /\ Columns # <<>> /\ Common # <<>>
    /\ None \in Names
    /\ CallerSpare \in Nat /\ Growth \in Nat /\ MaxAdds \in Nat

VARIABLES
    heap,     \* the arrays, by address
    builder,  \* each caller's builder: its kind and the slices it keeps
    asked,    \* history: what each caller asked of its builder
    careful   \* do callers share only slices without spare cells, and change
              \* only slices that are theirs

vars == <<heap, builder, asked, careful>>

Slice(arr, len) == [arr |-> arr, len |-> len]
Read(h, s) == SubSeq(h[s.arr], 1, s.len)

(* The arrays of the table and of the callers.                              *)
NilArray == 1
KeyArray == 2       \* t.primaryKeyCmp
PartArray == 3      \* t.partKeyCmp
ColumnsArray == 4   \* Metadata.Columns, made by the caller of New
CommonArray == 5
NilSlice == Slice(NilArray, 0)

(* Mutant: New leaves room behind the key comparisons.                      *)
RoomyKeys == Append(PartKey \o SortKey, None)

(* New makes both arrays exactly as long as the keys.                       *)
KeyCells == PartKey \o SortKey

primaryKeyCmp == Slice(KeyArray, Len(PartKey) + Len(SortKey))

(* Mutant: the partition key is a prefix of the primary key's array.        *)
PrefixSlice == Slice(KeyArray, Len(PartKey))

partKeyCmp == Slice(PartArray, Len(PartKey))
MetadataColumns == Slice(ColumnsArray, Len(Columns))
CommonSlice == Slice(CommonArray, Len(Common))

NoBuilder == [kind |-> "none", where |-> NilSlice, columns |-> NilSlice, adds |-> 0]
NotAsked == [where |-> <<>>, columns |-> <<>>]

Spare == IF careful THEN 0 ELSE CallerSpare

Init ==
    /\ careful \in BOOLEAN
    /\ heap = << <<>>, KeyCells, PartKey, Columns \o Blank(Spare),
                 Common \o Blank(Spare) >>
    /\ builder = [g \in Callers |-> NoBuilder]
    /\ asked = [g \in Callers |-> NotAsked]

-----------------------------------------------------------------------------
(* Every operation on memory gives the memory and the slice that result.    *)
Result(h, s) == [heap |-> h, slice |-> s]
Allocate(h, cells, len) == Result(Append(h, cells), Slice(Len(h) + 1, len))

Overwrite(cells, at, xs) ==
    [i \in DOMAIN cells |-> IF i \in at + 1 .. at + Len(xs) THEN xs[i - at] ELSE cells[i]]

(* Mutant: the new cells are written behind the array's end of use.         *)
LongSlice(s, xs) == Slice(s.arr, s.len + Len(xs) + 1)

Longer(s, xs) == Slice(s.arr, s.len + Len(xs))

(* Go's append.                                                             *)
AppendTo(h, s, xs) ==
    IF s.len + Len(xs) <= Len(h[s.arr])
    THEN {Result([h EXCEPT ![s.arr] = Overwrite(@, s.len, xs)], Longer(s, xs))}
    ELSE {Allocate(h, Read(h, s) \o xs \o Blank(n), s.len + Len(xs)) : n \in 0 .. Growth}

(* Keep the argument when there is nothing yet, append to what there is.    *)
KeepOrAppend(h, s, arg) ==
    IF s.len = 0 THEN {Result(h, arg)} ELSE AppendTo(h, s, Read(h, arg))

(* Where of a kind of builder; DeleteBuilder always appends.                *)
AddWhere(kind, h, s, arg) ==
    IF kind \in {"select", "update"} THEN KeepOrAppend(h, s, arg)
    ELSE AppendTo(h, s, Read(h, arg))

(* Columns, or Set of an UpdateBuilder, which makes assignments of its own. *)
AddColumns(kind, h, s, arg) ==
    IF kind = "select" THEN KeepOrAppend(h, s, arg) ELSE AppendTo(h, s, Read(h, arg))

Own(g) == <<g>>

(* Mutant: PrimaryKeyCmp returns the table's slice.                         *)
NoCopy(h) == Result(h, primaryKeyCmp)

PrimaryKeyCmp(h) == Allocate(h, Read(h, primaryKeyCmp), primaryKeyCmp.len)

(* A caller changes the first cell of a slice it was given.                 *)
Edit(r, g) == Result([r.heap EXCEPT ![r.slice.arr] = Overwrite(@, 0, Own(g))], r.slice)

(* What a caller passes to Where: comparisons of its own, the shared ones,  *)
(* or a changed copy of the primary key's.                                  *)
WhereArguments(g) ==
    {Allocate(heap, Own(g), 1), Result(heap, CommonSlice), Edit(PrimaryKeyCmp(heap), g)}

(* What it passes to Columns: its own, the metadata's, or, careless, the    *)
(* metadata's changed: Metadata copies a struct, not its slices.            *)
ColumnArguments(g) ==
    {Allocate(heap, Own(g), 1), Result(heap, MetadataColumns)}
        \cup IF careful THEN {} ELSE {Edit(Result(heap, MetadataColumns), g)}

-----------------------------------------------------------------------------
(* GetBuilder, UpdateBuilder and DeleteBuilder start from the primary key,  *)
(* SelectBuilder from the partition key, qb.Select from nothing.            *)
Start(g, kind, keys) ==
    /\ builder[g].kind = "none"
    /\ \E w \in AddWhere(kind, heap, NilSlice, keys) :
         /\ heap' = w.heap
         /\ builder' = [builder EXCEPT ![g] = [NoBuilder EXCEPT !.kind = kind,
                                                               !.where = w.slice]]
         /\ asked' = [asked EXCEPT ![g].where = Read(heap, keys)]

GetBuilder(g) == Start(g, "select", primaryKeyCmp)
SelectBuilder(g) == Start(g, "select", partKeyCmp)
UpdateBuilder(g) == Start(g, "update", primaryKeyCmp)
DeleteBuilder(g) == Start(g, "delete", primaryKeyCmp)
NewSelect(g) == Start(g, "select", NilSlice)

CanAdd(g) == builder[g].kind # "none" /\ builder[g].adds < MaxAdds

Where(g) ==
    /\ CanAdd(g)
    /\ \E arg \in WhereArguments(g) :
         \E w \in AddWhere(builder[g].kind, arg.heap, builder[g].where, arg.slice) :
           /\ heap' = w.heap
           /\ builder' = [builder EXCEPT ![g].where = w.slice, ![g].adds = @ + 1]
           /\ asked' = [asked EXCEPT ![g].where = @ \o Read(arg.heap, arg.slice)]

AddedColumns(g) ==
    /\ CanAdd(g)
    /\ \E arg \in ColumnArguments(g) :
         \E w \in AddColumns(builder[g].kind, arg.heap, builder[g].columns, arg.slice) :
           /\ heap' = w.heap
           /\ builder' = [builder EXCEPT ![g].columns = w.slice, ![g].adds = @ + 1]
           /\ asked' = [asked EXCEPT ![g].columns = @ \o Read(arg.heap, arg.slice)]

Next ==
    /\ UNCHANGED careful
    /\ \E g \in Callers :
         \/ GetBuilder(g) \/ SelectBuilder(g) \/ UpdateBuilder(g) \/ DeleteBuilder(g)
         \/ NewSelect(g) \/ Where(g) \/ AddedColumns(g)

Spec == Init /\ [][Next]_vars

-----------------------------------------------------------------------------
(* What ToCql of a caller's builder would write now.                        *)
ToCql(g) == [where |-> Read(heap, builder[g].where),
             columns |-> Read(heap, builder[g].columns)]

(* The arrays somebody other than caller g can still read: the table's, the *)
(* callers' shared ones and those of the other builders.                    *)
ReadByOthers(g) ==
    {KeyArray, PartArray, ColumnsArray, CommonArray}
        \cup {builder[h].where.arr : h \in Callers \ {g}}
        \cup {builder[h].columns.arr : h \in Callers \ {g}}

(* Every slice lies within its array (Go would panic otherwise), and a      *)
(* caller without a builder keeps none.                                     *)
TypeOK ==
    /\ \A g \in Callers :
         /\ builder[g].kind \in {"none", "select", "update", "delete"}
         /\ \A s \in {builder[g].where, builder[g].columns} :
              s.arr \in DOMAIN heap /\ s.len \in 0 .. Len(heap[s.arr])
         /\ builder[g].kind = "none" => builder[g] = NoBuilder
    /\ careful \in BOOLEAN

(* Whatever builders are made from a table and however they are extended,   *)
(* by careless callers too, the table's key comparisons stay what New made  *)
(* them, so that its Get, Select, Update and Delete statements, built from  *)
(* them at any time, do (table.go:86-207).                                  *)
TableImmutable ==
    /\ Read(heap, primaryKeyCmp) = PartKey \o SortKey
    /\ Read(heap, partKeyCmp) = PartKey

(* Careful callers do not see each other: each builder would write exactly  *)
(* what its own caller asked for, in the order it asked (select.go, Where   *)
(* and Columns; table_test.go:271 shares one table between goroutines).     *)
BuildersIsolated == careful => \A g \in Callers : ToCql(g) = asked[g]

(* No data race among careful callers: an array a step changes is read by   *)
(* nobody but the caller that takes the step.                               *)
NoSharedWrite ==
    [][careful => \E g \in Callers :
         /\ \A h \in Callers \ {g} : builder'[h] = builder[h]
         /\ \A a \in DOMAIN heap : heap'[a] # heap[a] => a \notin ReadByOthers(g)]_vars

-----------------------------------------------------------------------------
(* The doc of Where, "adds an expression to the WHERE clause of the query"  *)
(* (select.go:190): the clause is what was added.  With a slice that has    *)
(* spare cells, given to two builders, it is not; a run of its own refutes  *)
(* this.                                                                    *)
WhereIsolated == \A g \in Callers : ToCql(g).where = asked[g].where
=============================================================================
