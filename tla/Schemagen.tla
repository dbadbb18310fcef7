----------------------------- MODULE Schemagen -----------------------------
(***************************************************************************)
(* cmd/schemagen: Go models are generated from the metadata of a keyspace. *)
(* renderTemplate changes the metadata in passes (ignored names, opaque    *)
(* types, orphaned types, imports) before the template reads it, and a     *)
(* materialized view shares the object of its base table.                  *)
(*                                                                         *)
(* Every pass treats a list, set, map or tuple as the types it is made of, *)
(* so that a type is a set of leaves; a pass over the columns of a table   *)
(* or the fields of a user type visits all leaves below it, so that one    *)
(* set stands for them all.                                                *)
(***************************************************************************)
EXTENDS Naturals, FiniteSets

CONSTANTS
    Tables,     \* names a table of the keyspace may have
    Views,      \* names a materialized view may have
    Types,      \* names a user-defined type may have
    Natives,    \* the native types that occur
    MaxLeaves   \* leaves of the columns of one table, or of one user type

AllNatives == {"int", "timestamp", "date", "time", "decimal", "duration"}
GoNames == {"any", "int32", "Time", "Duration", "Dec"}

ASSUME NativesAssumption == Natives \subseteq AllNatives
ASSUME NamesAssumption == Types \cap (AllNatives \cup GoNames) = {}

VARIABLES
    pc,         \* the pass that is next
    ignored,    \* the names of the flag -ignore-names
    objects,    \* the columns of every table, also of those taken out of md.Tables
    tables,     \* md.Tables, by name
    views,      \* md.MaterializedViews: name and base table
    userTypes,  \* md.UserTypes: name and fields
    imports,    \* packages to import
    file,       \* what is written
    known       \* history: the user types the keyspace had

input == <<ignored, objects, known>>
vars == <<pc, input, tables, views, userTypes, imports, file>>

-----------------------------------------------------------------------------
(* The driver knows no user-defined types and describes one by a custom     *)
(* type with its name, as it does a type that really is custom.             *)
Native(name) == [is |-> "native", name |-> name]
Custom(name) == [is |-> "custom", name |-> name]
UDT(name) == [is |-> "udt", name |-> name]
DriverLeaves == {Native(n) : n \in Natives} \cup {Custom(t) : t \in Types}
Leaves == DriverLeaves \cup {UDT(t) : t \in Types}
Columns == {C \in SUBSET DriverLeaves : Cardinality(C) <= MaxLeaves}

NoTable == "no base table"
NoFile == [structs |-> {}, imports |-> {}, types |-> {}, written |-> FALSE]
Passes == {"filter", "resolve", "prune", "imports", "render", "done"}

(* A type is declared before another one uses it.                           *)
Declared(fields) ==
    \E rank \in [DOMAIN fields -> 1 .. Cardinality(Types)] :
        \A t, u \in DOMAIN fields : Custom(u) \in fields[t] => rank[u] < rank[t]

Init ==
    /\ pc = "filter"
    /\ ignored \in SUBSET (Tables \cup Views)
    /\ objects \in [Tables -> Columns]
    /\ tables = Tables
    /\ \E V \in SUBSET Views : views \in [V -> Tables \cup {NoTable}]
    /\ known \in SUBSET Types
    /\ userTypes \in [known -> Columns] /\ Declared(userTypes)
    /\ imports = {} /\ file = NoFile

-----------------------------------------------------------------------------
Without(f, S) == [x \in DOMAIN f \ S |-> f[x]]

(* The tables of which columns are read: those in md.Tables, and the base   *)
(* tables of views, ignored or not.                                         *)
Read == tables \cup {views[v] : v \in {w \in DOMAIN views : views[w] # NoTable}}

(* Mutant: nothing is resolved when no table is left, but a view is.        *)
NoTables == tables = {}

(* Without user types there is nothing to resolve.                          *)
NothingToResolve == DOMAIN userTypes = {}

(* Mutant: every custom type is taken for a user type.                      *)
AllResolved(leaves) == {IF l.is = "custom" THEN UDT(l.name) ELSE l : l \in leaves}

(* A custom type named like a user type is that type, whatever frozen<>     *)
(* is around the name.                                                      *)
rewriteUDTTypeInfo(leaves) ==
    {IF l.is = "custom" /\ l.name \in DOMAIN userTypes THEN UDT(l.name) ELSE l : l \in leaves}

(* Mutant: a type that only an ignored table names is kept.                 *)
UsedAnywhere(t) == \E o \in Tables : {UDT(t), Custom(t)} \cap objects[o] # {}

(* Mutant: the base table of a view is not looked at.                       *)
NoView(t) == FALSE

usedInTables(t) == \E o \in tables : UDT(t) \in objects[o]
usedInViews(t) ==
    \E v \in DOMAIN views : views[v] # NoTable /\ UDT(t) \in objects[views[v]]
Used(t) == usedInTables(t) \/ usedInViews(t)

(* Mutant: a time of day needs no import.                                   *)
DatesOnly(leaf) ==
    CASE leaf.name \in {"timestamp", "date"} -> {"time"}
      [] leaf.name = "decimal"               -> {"inf"}
      [] leaf.name = "duration"              -> {"gocql"}
      [] OTHER                               -> {}

(* The packages that one leaf adds to the imports.                          *)
collectImports(leaf) ==
    CASE leaf.name \in {"timestamp", "date", "time"} -> {"time"}
      [] leaf.name = "decimal"                       -> {"inf"}
      [] leaf.name = "duration"                      -> {"gocql"}
      [] OTHER                                       -> {}

(* What a leaf becomes in the generated code: a Go type of a package, the   *)
(* struct of a user type, or any.                                           *)
mapCqlTypeToGoType(leaf) ==
    CASE leaf.is = "custom"                      -> [package |-> "builtin", type |-> "any"]
      [] leaf.is = "udt"                         -> [package |-> "builtin", type |-> leaf.name]
      [] leaf.name \in {"date", "timestamp"}     -> [package |-> "time", type |-> "Time"]
      [] leaf.name = "time"                      -> [package |-> "time", type |-> "Duration"]
      [] leaf.name = "decimal"                   -> [package |-> "inf", type |-> "Dec"]
      [] leaf.name = "duration"                  -> [package |-> "gocql", type |-> "Duration"]
      [] leaf.name = "int"                       -> [package |-> "builtin", type |-> "int32"]

GoTypes(leaves) == {mapCqlTypeToGoType(l) : l \in leaves}

-----------------------------------------------------------------------------
(* Tables and views whose names are to be ignored are removed.              *)
Filter ==
    /\ pc = "filter" /\ pc' = "resolve"
    /\ tables' = tables \ ignored
    /\ views' = Without(views, ignored)
    /\ UNCHANGED <<input, userTypes, imports, file>>

resolveUDTReferences ==
    /\ pc = "resolve" /\ pc' = "prune"
    /\ \/ /\ NothingToResolve
          /\ UNCHANGED <<objects, userTypes>>
       \/ /\ ~NothingToResolve
          /\ objects' = [o \in Tables |->
                           IF o \in Read THEN rewriteUDTTypeInfo(objects[o]) ELSE objects[o]]
          /\ userTypes' = [t \in DOMAIN userTypes |-> rewriteUDTTypeInfo(userTypes[t])]
    /\ UNCHANGED <<ignored, known, tables, views, imports, file>>

(* User types that no table or view uses are deleted, whether or not the    *)
(* field of another user type names them.                                   *)
DeleteOrphans ==
    /\ pc = "prune" /\ pc' = "imports"
    /\ userTypes' = Without(userTypes, {t \in DOMAIN userTypes : ~Used(t)})
    /\ UNCHANGED <<input, tables, views, imports, file>>

Imports ==
    /\ pc = "imports" /\ pc' = "render"
    /\ LET leaves == UNION ({objects[o] : o \in Read}
                              \cup {userTypes[t] : t \in DOMAIN userTypes})
       IN  imports' = (IF DOMAIN userTypes = {} THEN {} ELSE {"cqlx"})
                        \cup UNION {collectImports(l) : l \in leaves}
    /\ UNCHANGED <<input, tables, views, userTypes, file>>

(* The template declares a struct per table, view and user type; a view     *)
(* without a base table makes it fail, and nothing is written.              *)
Render ==
    /\ pc = "render" /\ pc' = "done"
    /\ \/ /\ \E v \in DOMAIN views : views[v] = NoTable
          /\ UNCHANGED file
       \/ /\ \A v \in DOMAIN views : views[v] # NoTable
          /\ file' = [structs |-> {GoTypes(objects[o]) : o \in Read},
                      types   |-> {[name |-> t, fields |-> GoTypes(userTypes[t])]
                                     : t \in DOMAIN userTypes},
                      imports |-> imports, written |-> TRUE]
    /\ UNCHANGED <<input, tables, views, userTypes, imports>>

Next == Filter \/ resolveUDTReferences \/ DeleteOrphans \/ Imports \/ Render
Spec == Init /\ [][Next]_vars

-----------------------------------------------------------------------------
(* The Go types of the columns, of the fields, and of both.                 *)
ColumnGoTypes == UNION file.structs
FieldGoTypes == UNION {t.fields : t \in file.types}
Declarations == {t.name : t \in file.types}
Packages == {g.package : g \in ColumnGoTypes \cup FieldGoTypes} \ {"builtin"}

GoType == [package: {"builtin", "time", "inf", "gocql"},
           type: GoNames \cup Types]

(* Every variable holds a value of its kind, and a leaf is only resolved to *)
(* a user type that the keyspace has.                                       *)
TypeOK ==
    /\ pc \in Passes
    /\ ignored \subseteq Tables \cup Views /\ known \subseteq Types
    /\ objects \in [Tables -> SUBSET Leaves]
    /\ \A o \in Tables, t \in Types : UDT(t) \in objects[o] => t \in known
    /\ tables \subseteq Tables
    /\ DOMAIN views \subseteq Views /\ views \in [DOMAIN views -> Tables \cup {NoTable}]
    /\ DOMAIN userTypes \subseteq known /\ userTypes \in [DOMAIN userTypes -> SUBSET Leaves]
    /\ \A u \in DOMAIN userTypes, t \in Types : UDT(t) \in userTypes[u] => t \in known
    /\ imports \subseteq {"cqlx", "time", "inf", "gocql"}
    /\ file.structs \subseteq SUBSET GoType /\ Declarations \subseteq Types

(* The imports of the file are the packages that it uses, no more and no    *)
(* fewer (Go refuses both): those of the types of columns and of fields of  *)
(* the types that are left, and cqlx if a user type is left.                *)
ImportsExact ==
    file.written =>
        file.imports = Packages \cup (IF file.types = {} THEN {} ELSE {"cqlx"})

(* Every user type that a column has is declared in the file, so that the   *)
(* only undeclared ones are those that only fields have.                    *)
ColumnTypesDefined ==
    \A g \in ColumnGoTypes : g.type \in Types => g.type \in Declarations

(* Every user type that is declared is the type of a column of a table or   *)
(* view in the file: none is kept for what was ignored.                     *)
NoOrphans == Declarations \subseteq {g.type : g \in ColumnGoTypes}

(* A column or field whose type is a user type of the keyspace is never     *)
(* left as any, whichever tables are ignored and whichever types deleted.   *)
NothingLeftOpaque ==
    file.written =>
        \A l \in UNION ({objects[o] : o \in Read} \cup {userTypes[t] : t \in DOMAIN userTypes}) :
            l.name \in known => mapCqlTypeToGoType(l).type = l.name
=============================================================================
