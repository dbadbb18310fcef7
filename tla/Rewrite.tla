------------------------------ MODULE Rewrite ------------------------------
(***************************************************************************)
(* dbutil.RewriteTable: every row of the table src is read, transformed    *)
(* and inserted into the table dst, which may be src itself.  The rows     *)
(* come from an iterator of which only the contract of RowStream is used;  *)
(* each insert is a round trip that may fail, applied or not.  Others      *)
(* write to src meanwhile, and the caller may call again after an error.   *)
(* A cell is known by the row and version it was written with and by how   *)
(* often the transform has changed it since.                               *)
(***************************************************************************)
EXTENDS Naturals, Sequences

CONSTANTS
    N,          \* rows of src; row r is the r-th in token order
    MaxWrites,  \* writes of others to src, at most
    MaxCalls    \* calls of RewriteTable, at most

ASSUME SizeAssumption == N \in Nat /\ MaxWrites \in Nat /\ MaxCalls \in Nat

VARIABLES
    how,      \* what the transform does to the map of each row
    inPlace,  \* dst is src
    extra,    \* dst has a column that src lacks
    tables,   \* the rows of both tables
    version,  \* writes of others so far
    calls,    \* calls of RewriteTable so far
    pc,       \* where the call in progress is
    m,        \* the map m
    read,     \* the rows the driver has fetched in this call
    fetched,  \* their number
    ret,      \* what the last call returned
    taken, held, ended, failed, closed, last  \* the iterator, see RowStream

Source == INSTANCE RowStream

config == <<how, inPlace, extra>>
stream == <<taken, held, ended, failed, closed, last>>
vars == <<config, tables, version, calls, pc, m, read, fetched, ret, stream>>

-----------------------------------------------------------------------------
Row == 1 .. N
Cell == [row: Row, version: 0 .. MaxWrites, times: 0 .. MaxCalls]
SrcColumns == {"key", "data"}
Columns == SrcColumns \cup {"extra"}
Maps == UNION {[C -> Cell] : C \in SUBSET Columns}
NoRow == [c \in {} |-> 0]
Ways == {"keep", "change", "add", "drop", "empty"}

Dst == IF inPlace THEN "src" ELSE "dst"
DstColumns == IF extra THEN Columns ELSE SrcColumns

(* A row of src as its writer leaves it.                                    *)
Written(r, v) == [c \in SrcColumns |-> [row |-> r, version |-> v, times |-> 0]]

(* A nil transform keeps every row; others change a value, add the column   *)
(* that dst needs, drop one that it needs, or empty the map.                *)
transform(way, row) ==
    CASE way = "keep"   -> row
      [] way = "change" -> [row EXCEPT !["data"].times = @ + 1]
      [] way = "add"    -> [c \in Columns |-> IF c = "extra" THEN row["data"] ELSE row[c]]
      [] way = "drop"   -> [c \in {"key"} |-> row[c]]
      [] way = "empty"  -> NoRow

(* MapScan puts the columns of the row over what the map holds.             *)
MapScan(map, row) ==
    [c \in DOMAIN map \cup DOMAIN row |-> IF c \in DOMAIN row THEN row[c] ELSE map[c]]

(* Mutant: a column without a value is bound all the same.                  *)
NeverFails(map) == FALSE

(* BindMap needs a value for every column of dst, Exec inserts them.        *)
BindMapFails(map) == ~(DstColumns \subseteq DOMAIN map)
Inserted(map) == [tables EXCEPT ![Dst][map["key"].row] = [c \in DstColumns |-> map[c]]]

(* Mutant: the map of one row is used again for the next.                   *)
SameMap(map) == map

(* The map the next row is scanned into, after an insert.                   *)
CleanMap(map) == NoRow

(* Mutant: the loop is left only with an error.                             *)
UntilError(error) == IF error THEN "close" ELSE "scan"

(* The loop is left when MapScan is false, for whatever reason.             *)
AfterLoop(error) == "close"

(* Mutant: the error of Close is dropped.                                   *)
AlwaysNil(error) == "nil"

Closed(error) == IF error THEN "error" ELSE "nil"

-----------------------------------------------------------------------------
Init ==
    /\ how \in [Row -> Ways]
    /\ inPlace \in BOOLEAN /\ extra \in BOOLEAN /\ (inPlace => ~extra)
    /\ tables = [src |-> [r \in Row |-> Written(r, 0)], dst |-> [r \in Row |-> NoRow]]
    /\ version = 0 /\ calls = 0
    /\ pc = "idle" /\ m = NoRow
    /\ read = [r \in Row |-> NoRow] /\ fetched = 0 /\ ret = "none"
    /\ taken = 0 /\ held = 0 /\ ended = FALSE /\ failed = FALSE /\ closed = FALSE
    /\ last = Source!NothingYet

(* RewriteTable is called: the query is executed, with a new iterator.      *)
Call ==
    /\ pc = "idle" /\ calls < MaxCalls
    /\ calls' = calls + 1
    /\ pc' = "scan" /\ m' = NoRow /\ ret' = "none"
    /\ read' = [r \in Row |-> NoRow] /\ fetched' = 0
    /\ taken' = 0 /\ held' = 0 /\ closed' = FALSE /\ last' = Source!NothingYet
    /\ failed' \in BOOLEAN /\ ended' = failed'
    /\ UNCHANGED <<config, tables, version>>

(* The driver fetches pages when it needs them or before; each row is read  *)
(* from src at that time.                                                   *)
Fetch ==
    /\ pc # "idle" /\ ~ended /\ fetched < N
    /\ fetched' = fetched + 1
    /\ read' = [read EXCEPT ![fetched + 1] = tables["src"][fetched + 1]]
    /\ UNCHANGED <<config, tables, version, calls, pc, m, ret, stream>>

(* A step of the iterator: it delivers what was fetched, and it is at its   *)
(* end with all rows or with an error; after its end nothing goes wrong.    *)
Iterate(kind, n) ==
    /\ Source!Return(kind, n)
    /\ taken' <= fetched
    /\ ended' <=> failed' \/ (n = 0 /\ taken' = N)
    /\ ended => failed' = failed

ReturnError == pc' = "idle" /\ ret' = "error"

(* The loop's body up to the insert; BindMap's error is returned by Exec.   *)
ScanRow ==
    /\ pc = "scan"
    /\ Iterate("next", 1) /\ ~failed'
    /\ m' = transform(how[taken + 1], MapScan(m, read[taken + 1]))
    /\ \/ m' = NoRow /\ UNCHANGED <<pc, ret>>
       \/ m' # NoRow /\ BindMapFails(m') /\ ReturnError
       \/ m' # NoRow /\ ~BindMapFails(m') /\ pc' = "exec" /\ UNCHANGED ret
    /\ UNCHANGED <<config, tables, version, calls, read, fetched>>

(* MapScan is false.                                                        *)
ScanEnds ==
    /\ pc = "scan"
    /\ Iterate("next", 0)
    /\ pc' = AfterLoop(failed')
    /\ UNCHANGED <<config, tables, version, calls, m, read, fetched, ret>>

ExecOK ==
    /\ pc = "exec"
    /\ tables' = Inserted(m)
    /\ m' = CleanMap(m) /\ pc' = "scan"
    /\ UNCHANGED <<config, version, calls, read, fetched, ret, stream>>

(* The insert fails; a timeout does not tell whether it was applied.  The   *)
(* iterator is left open.                                                   *)
ExecFails ==
    /\ pc = "exec"
    /\ tables' \in {tables, Inserted(m)}
    /\ ReturnError
    /\ UNCHANGED <<config, version, calls, m, read, fetched, stream>>

Close ==
    /\ pc = "close"
    /\ Iterate("close", 0)
    /\ ret' = Closed(last'.err) /\ pc' = "idle"
    /\ UNCHANGED <<config, tables, version, calls, m, read, fetched>>

(* Someone else writes a row of src.                                        *)
Write(r) ==
    /\ version < MaxWrites
    /\ version' = version + 1
    /\ tables' = [tables EXCEPT !["src"][r] = Written(r, version + 1)]
    /\ UNCHANGED <<config, calls, pc, m, read, fetched, ret, stream>>

Step == Fetch \/ ScanRow \/ ScanEnds \/ ExecOK \/ ExecFails \/ Close
Next == Call \/ Step \/ \E r \in Row : Write(r)

Spec == Init /\ [][Next]_vars
FairSpec == Spec /\ WF_vars(Step)

-----------------------------------------------------------------------------
(* Every variable holds a value of its kind, and during an insert the map   *)
(* has every column that is bound, of a row the iterator has delivered.     *)
TypeOK ==
    /\ how \in [Row -> Ways] /\ inPlace \in BOOLEAN /\ extra \in BOOLEAN
    /\ tables \in [{"src", "dst"} -> [Row -> Maps]]
    /\ version \in 0 .. MaxWrites /\ calls \in 0 .. MaxCalls
    /\ pc \in {"idle", "scan", "exec", "close"} /\ m \in Maps
    /\ read \in [Row -> Maps] /\ fetched \in 0 .. N
    /\ ret \in {"none", "nil", "error"}
    /\ taken \in 0 .. fetched /\ held = 0
    /\ ended \in BOOLEAN /\ failed \in BOOLEAN /\ closed \in BOOLEAN
    /\ pc = "exec" => DstColumns \subseteq DOMAIN m /\ m["key"].row = taken

(* What row r of dst must be after a call that has written it.              *)
Wanted(r) == [c \in DstColumns |-> transform(how[r], read[r])[c]]

(* RewriteTable returns nil only if every row has been read in this call,   *)
(* and each one the transform does not empty is in dst, transformed once as *)
(* it was read, or as another writer left it since: also when earlier calls *)
(* stopped half way, when inserts that failed were applied, and when the    *)
(* rows are rewritten in place while others write to them.                  *)
NilMeansCopied ==
    ret = "nil" =>
        \A r \in Row :
            /\ read[r] # NoRow
            /\ how[r] # "empty" =>
                 \/ tables[Dst][r] = Wanted(r)
                 \/ inPlace /\ \E v \in 1 .. version :
                         v > read[r]["data"].version /\ tables[Dst][r] = Written(r, v)

(* A row of either table is made of one version of that row, also when the  *)
(* table is rewritten in place while others write to it: nothing the        *)
(* transform left in the map for one row reaches another, and no insert     *)
(* puts a part of what was read beside a part of what was written since.  A *)
(* table that is only read, and a row that the transform empties or leaves  *)
(* without a column of dst, are as their other writers left them.           *)
OneVersion(row, r, columns) ==
    \E v \in 0 .. version : \A c \in columns : row[c].row = r /\ row[c].version = v
NotInserted(r) == how[r] \in {"empty", "drop"}
RowsWhole ==
    \A r \in Row :
        /\ tables["dst"][r] # NoRow =>
             ~inPlace /\ ~NotInserted(r) /\ OneVersion(tables["dst"][r], r, DstColumns)
        /\ OneVersion(tables["src"][r], r, SrcColumns)
        /\ ~inPlace \/ NotInserted(r) =>
             \E v \in 0 .. version : tables["src"][r] = Written(r, v)

(* Every call returns, whatever fails.                                      *)
Returns == pc # "idle" ~> pc = "idle"
=============================================================================
