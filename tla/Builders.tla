------------------------------ MODULE Builders -----------------------------
(***************************************************************************)
(* The statement builders of package qb: what each ToCql writes, and in    *)
(* which order it returns the names of the parameters (qb/select.go,       *)
(* insert.go, update.go, delete.go, batch.go, cmp.go, value.go, func.go,   *)
(* limit.go, token.go).  The columns a SELECT or a DELETE names are kept as  *)
(* what is written of them; the columns of the values, operators and flags *)
(* are not told apart.                                                     *)
(***************************************************************************)
EXTENDS Using

(* Values of more parameters: a tuple of count >= 1, a function's.          *)
TupleParam(name, count) == [i \in 1 .. count |-> <<name, ToString(i - 1)>>]
Func(names) == [i \in DOMAIN names |-> <<names[i]>>]
Token(columns, names) == Func(IF names = <<>> THEN columns ELSE names)

Statement(text, names) == [text |-> text, names |-> names]
Parts(clause, values) == [i \in DOMAIN values |-> Clause(clause, values[i], <<>>)]
ColumnParts(clause, columns) ==
    [i \in DOMAIN columns |-> Clause(clause, Lit, <<columns[i]>>)]

NewBuilder(kind) ==
    [kind |-> kind, columns |-> <<>>, where |-> <<>>, if |-> <<>>, groupBy |-> <<>>,
     distinct |-> <<>>, limit |-> <<>>, limitPerPartition |-> <<>>,
     json |-> FALSE, using |-> NoUsing]

-----------------------------------------------------------------------------
(* SelectBuilder.ToCql.  DISTINCT takes the place of the other selectors;   *)
(* the grouped columns are selected before them.                            *)
Selectors(b) ==
    IF b.distinct # <<>> THEN ColumnParts("distinct", b.distinct)
    ELSE ColumnParts("columns", b.groupBy \o b.columns)

SelectToCql(b) ==
    Statement(
        Selectors(b) \o Parts("where", b.where) \o ColumnParts("groupBy", b.groupBy)
            \o Parts("limitPerPartition", b.limitPerPartition)
            \o Parts("limit", b.limit) \o Clauses(b.using),
        FlattenSeq(b.where) \o FlattenSeq(b.limitPerPartition) \o FlattenSeq(b.limit)
            \o Names(b.using))

(* InsertBuilder.ToCql: JSON stands for all columns, and nothing after it   *)
(* is written.                                                              *)
InsertToCql(b) ==
    IF b.json THEN Statement(<<Clause("json", Param("json"), <<>>)>>, <<>>)
    ELSE Statement(Parts("columns", b.columns) \o Clauses(b.using),
                   FlattenSeq(b.columns) \o Names(b.using))

(* Mutant: the names of the USING clause come last, as in an INSERT.        *)
UsingLast(b) ==
    Statement(
        Clauses(b.using) \o Parts("columns", b.columns)
            \o Parts("where", b.where) \o Parts("if", b.if),
        FlattenSeq(b.columns) \o FlattenSeq(b.where) \o FlattenSeq(b.if)
            \o Names(b.using))

UpdateToCql(b) ==
    Statement(
        Clauses(b.using) \o Parts("columns", b.columns)
            \o Parts("where", b.where) \o Parts("if", b.if),
        Names(b.using) \o FlattenSeq(b.columns) \o FlattenSeq(b.where)
            \o FlattenSeq(b.if))

(* Mutant: the names of the IF clause are not returned.                     *)
IfUnnamed(b) ==
    Statement(
        ColumnParts("columns", b.columns) \o Clauses(b.using)
            \o Parts("where", b.where) \o Parts("if", b.if),
        Names(b.using) \o FlattenSeq(b.where))

DeleteToCql(b) ==
    Statement(
        ColumnParts("columns", b.columns) \o Clauses(b.using)
            \o Parts("where", b.where) \o Parts("if", b.if),
        Names(b.using) \o FlattenSeq(b.where) \o FlattenSeq(b.if))

BuilderToCql(b) ==
    CASE b.kind = "select" -> SelectToCql(b)
      [] b.kind = "insert" -> InsertToCql(b)
      [] b.kind = "update" -> UpdateToCql(b)
      [] b.kind = "delete" -> DeleteToCql(b)

(* What ToCql leaves behind: an INSERT of JSON does not write its USING.    *)
AfterToCql(b) ==
    IF b.kind = "insert" /\ b.json THEN b ELSE [b EXCEPT !.using = AfterWrite(@)]

-----------------------------------------------------------------------------
(* Set, Where, If, and an INSERT's Columns: one more value.                 *)
AddValue(values, value) == Append(values, value)

(* Mutant: the last call's columns stand alone, also behind a WHERE.        *)
DistinctAgain(b, columns) == [b EXCEPT !.distinct = columns]

(* Distinct asks whether there is a WHERE clause, not a DISTINCT one.       *)
Distinct(b, columns) ==
    [b EXCEPT !.distinct = IF b.where = <<>> THEN columns ELSE @ \o columns]

Add(b, clause, value) ==
    CASE clause = "columns"  -> [b EXCEPT !.columns = AddValue(@, value)]
      [] clause = "where"    -> [b EXCEPT !.where = AddValue(@, value)]
      [] clause = "if"       -> [b EXCEPT !.if = AddValue(@, value)]
      [] clause = "limit"    -> [b EXCEPT !.limit = <<value>>]
      [] clause = "limitPerPartition" -> [b EXCEPT !.limitPerPartition = <<value>>]

(* A SELECT's or DELETE's Columns, GroupBy, Distinct: the call's columns.   *)
AddColumns(b, clause, columns) ==
    CASE clause = "columns"  -> [b EXCEPT !.columns = @ \o columns]
      [] clause = "groupBy"  -> [b EXCEPT !.groupBy = @ \o columns]
      [] clause = "distinct" -> Distinct(b, columns)

-----------------------------------------------------------------------------
(* BatchBuilder: the statements' texts and, apart from them, all names.     *)
NewBatch == [stmts |-> <<>>, names |-> <<>>, using |-> NoUsing]

(* Mutant: the prefix is put before the statement's first name only.        *)
PrefixFirst(prefix, names) ==
    [i \in DOMAIN names |->
        IF prefix = NoName \/ i > 1 THEN names[i] ELSE <<prefix>> \o names[i]]

Prefixed(prefix, names) ==
    [i \in DOMAIN names |-> IF prefix = NoName THEN names[i] ELSE <<prefix>> \o names[i]]

AddStmtWithPrefix(batch, prefix, stmt) ==
    [batch EXCEPT !.stmts = Append(@, stmt.text),
                  !.names = @ \o Prefixed(prefix, stmt.names)]

BatchToCql(batch) ==
    Statement(Clauses(batch.using) \o FlattenSeq(batch.stmts),
              Names(batch.using) \o batch.names)
=============================================================================
