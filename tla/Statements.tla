---------------------------- MODULE Statements -----------------------------
(***************************************************************************)
(* A program building statements: it takes a builder, adds clauses in any  *)
(* order, has it written, adds more, and gathers what builders write in a  *)
(* BatchBuilder, with a prefix for the names or without.                   *)
(***************************************************************************)
EXTENDS Builders

CONSTANT
    Programs  \* what a program may do: the kinds of its builders, the names of
              \* its parameters and columns, the USING clauses it sets and
              \* with which durations and times, whether builders come from a Table, the
              \* prefixes given to a batch (or none), and as bounds the
              \* clauses added to one builder and the statements of the batch

VARIABLES
    program, \* what this program does
    b,       \* the builder at hand
    batch,   \* the batch builder
    out,     \* what the last ToCql returned; its source
    calls,   \* history: what was asked of b, in order
    last,    \* history: the last USING setters of b, see UsingClause
    added    \* history: the statements added to the batch, with their prefixes

vars == <<program, b, batch, out, calls, last, added>>

AllKinds == {"select", "insert", "update", "delete"}
ASSUME ProgramsAssumption ==
    \A p \in Programs :
        /\ p.kinds \subseteq AllKinds /\ p.keys \subseteq Keys
        /\ p.durations \subseteq Int /\ p.times \subseteq Int

(* The clauses of a builder that hold values, and those that hold columns,  *)
(* of which a call gives any number, here at most two.                      *)
ValueClauses(kind) ==
    CASE kind = "select" -> {"where", "limit", "limitPerPartition"}
      [] kind = "insert" -> {"columns"}
      [] kind = "update" -> {"columns", "where", "if"}
      [] kind = "delete" -> {"where", "if"}
ColumnClauses(kind) ==
    CASE kind = "select" -> {"columns", "groupBy", "distinct"}
      [] kind = "delete" -> {"columns"}
      [] kind \in {"insert", "update"} -> {}
Columns ==
    {<<>>} \cup {<<c>> : c \in program.params} \cup (program.params \X program.params)
KeysOf(kind) ==
    program.keys \cap
        CASE kind = "select" -> {"TIMEOUT"}
          [] kind = "delete" -> {"TIMESTAMP", "TIMEOUT"}
          [] kind \in {"insert", "update", "batch"} -> {"TTL", "TIMESTAMP", "TIMEOUT"}

(* A limit is a number or one parameter.                                    *)
Values(clause) ==
    {Lit} \cup {Param(n) : n \in program.params}
        \cup IF clause \in {"limit", "limitPerPartition"} THEN {}
             ELSE {TupleParam(n, 2) : n \in program.params}
                  \cup {Token(columns, <<>>) : columns \in program.params \X program.params}

NoStatement == [from |-> "none", stmt |-> Statement(<<>>, <<>>)]
HasJson(text) == \E i \in DOMAIN text : text[i].clause = "json"

(* What the builder at hand has written, as UsingClause has it.             *)
UsingWritten ==
    [written |-> out.from = "builder" /\ ~ HasJson(out.stmt.text),
     clauses |-> out.stmt.text]

U == INSTANCE UsingClause WITH
        Durations <- UNION {p.durations : p \in Programs},
        Times <- UNION {p.times : p \in Programs},
        u <- b.using, out <- UsingWritten
NoSetters == [key \in Keys |-> U!NoSetter]

(* A builder made with columns and conditions, and the calls that give it   *)
(* the columns.                                                             *)
Given(kind, columns) ==
    IF kind \in {"select", "delete"} /\ columns # <<>>
    THEN <<Clause("columns", Lit, columns)>>
    ELSE Parts("columns", columns)

Fresh(kind, columns, where) ==
    /\ b' = [NewBuilder(kind) EXCEPT !.columns = columns, !.where = where]
    /\ calls' = Given(kind, columns) \o Parts("where", where)
    /\ last' = NoSetters /\ out' = NoStatement
    /\ UNCHANGED <<program, batch, added>>

Init ==
    /\ program \in Programs
    /\ \E kind \in program.kinds : b = NewBuilder(kind)
    /\ batch = NewBatch /\ out = NoStatement /\ calls = <<>> /\ added = <<>>
    /\ last = NoSetters

NewStatement == \E kind \in program.kinds : Fresh(kind, <<>>, <<>>)

(* A builder of a Table: columns and conditions on the key, of which the    *)
(* partition key is a prefix.                                               *)
PartKey == <<"a">>
PrimaryKey == <<"a", "b">>
Named(columns) == [i \in DOMAIN columns |-> Param(columns[i])]

FromTable ==
    /\ program.tables
    /\ \E columns \in {<<>>, <<"c">>} :
         \/ Fresh("select", columns, Named(PrimaryKey))
         \/ Fresh("select", columns, Named(PartKey))
         \/ Fresh("insert", Named(PrimaryKey \o <<"c">>), <<>>)
         \/ Fresh("update", Named(columns), Named(PrimaryKey))
         \/ Fresh("delete", columns, Named(PrimaryKey))

Ask(builder, asked) ==
    /\ Len(calls) < program.calls
    /\ b' = builder /\ calls' = Append(calls, asked)
    /\ out' = NoStatement
    /\ UNCHANGED <<program, batch, last, added>>

AddClause ==
    \E clause \in ValueClauses(b.kind) : \E value \in Values(clause) :
        Ask(Add(b, clause, value), Clause(clause, value, <<>>))

AddColumn ==
    \E clause \in ColumnClauses(b.kind) : \E columns \in Columns :
        Ask(AddColumns(b, clause, columns), Clause(clause, Lit, columns))

Json ==
    /\ b.kind = "insert"
    /\ b' = [b EXCEPT !.json = TRUE]
    /\ out' = NoStatement
    /\ UNCHANGED <<program, batch, calls, last, added>>

(* USING with a literal, or with the key as the name of a parameter.        *)
Arguments(key) == IF key = "TIMESTAMP" THEN program.times ELSE program.durations

BuilderUsing ==
    /\ \E key \in KeysOf(b.kind) :
         \/ /\ b' = [b EXCEPT !.using = Set(@, key, "name", 0, key)]
            /\ last' = U!AfterSet(key, "name", 0, key)
         \/ \E arg \in Arguments(key) :
              /\ b' = [b EXCEPT !.using = Set(@, key, "value", arg, NoName)]
              /\ last' = U!AfterSet(key, "value", arg, NoName)
    /\ out' = NoStatement
    /\ UNCHANGED <<program, batch, calls, added>>

BatchUsing ==
    /\ program.stmts > 0
    /\ \E key \in KeysOf("batch") :
         \/ batch' = [batch EXCEPT !.using = Set(@, key, "name", 0, key)]
         \/ \E arg \in Arguments(key) :
              batch' = [batch EXCEPT !.using = Set(@, key, "value", arg, NoName)]
    /\ out' = NoStatement
    /\ UNCHANGED <<program, b, calls, last, added>>

(* Both ways of writing the builder change its USING value.                 *)
BuilderWritten ==
    /\ b' = AfterToCql(b)
    /\ last' = IF HasJson(BuilderToCql(b).text) THEN last ELSE U!AfterToCql

WriteBuilder ==
    /\ out' = [from |-> "builder", stmt |-> BuilderToCql(b)]
    /\ BuilderWritten
    /\ UNCHANGED <<program, batch, calls, added>>

(* AddWithPrefix, or Add without one: the builder is written at once.       *)
AddToBatch ==
    /\ Len(added) < program.stmts
    /\ \E prefix \in program.prefixes :
         /\ batch' = AddStmtWithPrefix(batch, prefix, BuilderToCql(b))
         /\ added' = Append(added, [prefix |-> prefix, stmt |-> BuilderToCql(b)])
    /\ BuilderWritten
    /\ out' = NoStatement
    /\ UNCHANGED <<program, calls>>

WriteBatch ==
    /\ out' = [from |-> "batch", stmt |-> BatchToCql(batch)]
    /\ batch' = [batch EXCEPT !.using = AfterWrite(@)]
    /\ UNCHANGED <<program, b, calls, last, added>>

Next ==
    \/ NewStatement \/ FromTable \/ AddClause \/ AddColumn \/ Json \/ BuilderUsing
    \/ BatchUsing \/ WriteBuilder \/ AddToBatch \/ WriteBatch

Spec == Init /\ [][Next]_vars

-----------------------------------------------------------------------------
Holes(text) == FlattenSeq([i \in DOMAIN text |-> text[i].holes])
Written(clause) == OfClause(clause, out.stmt.text)
Asked(clause) == OfClause(clause, calls)
LastAsked(clause) ==
    LET asked == Asked(clause) IN IF asked = <<>> THEN <<>> ELSE <<asked[Len(asked)]>>

(* A builder holds clauses of its own kind only, and a statement's names    *)
(* are as many as its placeholders, but for the JSON of an INSERT.          *)
TypeOK ==
    /\ b.kind \in AllKinds
    /\ b.kind # "select" =>
         b.groupBy \o b.distinct \o b.limit \o b.limitPerPartition = <<>>
    /\ b.kind \in {"select", "insert"} => b.if = <<>>
    /\ Len(b.limit) <= 1 /\ Len(b.limitPerPartition) <= 1
    /\ U!TypeOK
    /\ ~ HasJson(out.stmt.text) => Len(out.stmt.names) = Len(Holes(out.stmt.text))

(* However its clauses were added, the names a builder's ToCql returns are  *)
(* those of the placeholders in the order the statement has them, so that   *)
(* bindStructArgs and bindMapArgs give each placeholder its own value; but  *)
(* for the one placeholder of an INSERT of JSON, which has no name.         *)
NamesLineUp ==
    out.from = "builder" /\ ~ HasJson(out.stmt.text)
        => out.stmt.names = Holes(out.stmt.text)

(* The columns of some parts, and of some calls.                            *)
ColumnsIn(parts) == FlattenSeq([i \in DOMAIN parts |-> parts[i].literal])

(* The call of Distinct that a SELECT's columns are taken from: before the  *)
(* first Where each call discards what the calls before it asked for, and   *)
(* may ask for nothing; behind it each adds to them (select.go:158-165).    *)
Discards(asked, i) ==
    asked[i].clause = "distinct" /\ OfClause("where", SubSeq(asked, 1, i - 1)) = <<>>
Standing(asked, i) ==
    /\ i = 1 \/ Discards(asked, i)
    /\ \A k \in i + 1 .. Len(asked) : ~ Discards(asked, k)
DistinctSince(asked, i) == ColumnsIn(OfClause("distinct", SubSeq(asked, i, Len(asked))))

SelectorsAsAsked ==
    /\ ColumnsIn(Written("groupBy")) = ColumnsIn(Asked("groupBy"))
    /\ \A i \in {1} \cup DOMAIN calls : Standing(calls, i) =>
         LET distinct == DistinctSince(calls, i)
         IN  /\ ColumnsIn(Written("distinct")) = distinct
             /\ ColumnsIn(Written("columns")) =
                  IF distinct # <<>> THEN <<>>
                  ELSE ColumnsIn(Asked("groupBy")) \o ColumnsIn(Asked("columns"))

(* Every clause holds all the values it was given, in the order it was      *)
(* given them, whatever was asked in between; a limit the last one.  A      *)
(* SELECT names the columns it groups by before its others, each once for   *)
(* every time it was asked for; its DISTINCT, if it has columns, stands in  *)
(* their place, and holds what was asked for since the last call before the *)
(* first Where.  JSON takes the place of everything in an INSERT.           *)
ClausesAsAsked ==
    out.from = "builder" /\ ~ HasJson(out.stmt.text) =>
        /\ \A clause \in {"where", "if"} : Written(clause) = Asked(clause)
        /\ \A clause \in {"limit", "limitPerPartition"} :
             Written(clause) = LastAsked(clause)
        /\ CASE b.kind \in {"insert", "update"} -> Written("columns") = Asked("columns")
             [] b.kind = "delete" ->
                  ColumnsIn(Written("columns")) = ColumnsIn(Asked("columns"))
             [] b.kind = "select" -> SelectorsAsAsked

(* The names of the statements of a batch, each with its own prefix.        *)
BatchNames ==
    FlattenSeq([i \in DOMAIN added |->
        [k \in DOMAIN Holes(added[i].stmt.text) |->
            (IF added[i].prefix = NoName THEN <<>> ELSE <<added[i].prefix>>)
                \o Holes(added[i].stmt.text)[k]]])
JsonInBatch == \E i \in DOMAIN added : HasJson(added[i].stmt.text)
BatchText == FlattenSeq([i \in DOMAIN added |-> added[i].stmt.text])
BatchInLine ==
    LET using == SubSeq(out.stmt.text, 1, Len(out.stmt.text) - Len(BatchText))
    IN  /\ \A i \in DOMAIN using : using[i].clause \in Keys
        /\ out.stmt.text = using \o BatchText
        /\ out.stmt.names = Holes(using) \o BatchNames

(* A batch has the statements its builders stood for when they were added,  *)
(* in that order, behind its own USING clause, and its names are those of   *)
(* its placeholders, the USING clause's first, each with the prefix its own *)
(* statement was given.                                                     *)
BatchLinesUp == out.from = "batch" /\ ~ JsonInBatch => BatchInLine

(* On every builder, and however often it is written or added to a batch    *)
(* in between: each USING clause it writes is the one its last setter asked *)
(* for, and a timeout of a millisecond or more is written as what was set,  *)
(* to less than a millisecond (using.go, utils.go).                         *)
LastSetterWins == U!LastSetterWins
TimeoutKept == U!TimeoutKept
=============================================================================
