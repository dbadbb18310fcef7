-------------------------- MODULE SchemagenProofs --------------------------
(* Proofs about the generator for every keyspace: any number of tables,     *)
(* views, user types and columns, and any set of ignored names.             *)
EXTENDS Schemagen, TLAPS

-----------------------------------------------------------------------------
(* A leaf's name tells the kinds apart: no user type has the name of a      *)
(* native type, or of a Go type of the template.                            *)
LEMMA LeafNames ==
    ASSUME NEW l \in Leaves
    PROVE  \/ l.is = "native" /\ l = Native(l.name) /\ l.name \in AllNatives /\ l.name \notin Types
           \/ l.is = "custom" /\ l = Custom(l.name) /\ l.name \in Types /\ l.name \notin AllNatives
           \/ l.is = "udt" /\ l = UDT(l.name) /\ l.name \in Types /\ l.name \notin AllNatives
BY NativesAssumption, NamesAssumption DEF Leaves, DriverLeaves, Native, Custom, UDT

(* What the generator makes of a leaf, kind by kind.                        *)
LEMMA GoTypeCases ==
    ASSUME NEW l \in Leaves, NEW g, g = mapCqlTypeToGoType(l)
    PROVE  \/ l.is = "custom" /\ g = [package |-> "builtin", type |-> "any"]
           \/ l.is = "udt" /\ g = [package |-> "builtin", type |-> l.name]
           \/ l.is = "native" /\ l.name \in {"date", "timestamp"}
                /\ g = [package |-> "time", type |-> "Time"]
           \/ l.is = "native" /\ l.name = "time" /\ g = [package |-> "time", type |-> "Duration"]
           \/ l.is = "native" /\ l.name = "decimal" /\ g = [package |-> "inf", type |-> "Dec"]
           \/ l.is = "native" /\ l.name = "duration"
                /\ g = [package |-> "gocql", type |-> "Duration"]
           \/ l.is = "native" /\ l.name = "int" /\ g = [package |-> "builtin", type |-> "int32"]
<1>1. CASE l.is = "native"
  <2>1. l.name \in AllNatives
    BY <1>1, LeafNames
  <2> QED BY <1>1, <2>1 DEF mapCqlTypeToGoType, AllNatives
<1>2. CASE l.is = "custom"
  <2>1. l.name \notin AllNatives
    BY <1>2, LeafNames
  <2> QED BY <1>2, <2>1 DEF mapCqlTypeToGoType, AllNatives
<1>3. CASE l.is = "udt"
  <2>1. l.name \notin AllNatives
    BY <1>3, LeafNames
  <2> QED BY <1>3, <2>1 DEF mapCqlTypeToGoType, AllNatives
<1> QED BY <1>1, <1>2, <1>3, LeafNames

(* The import of a leaf is the package of its Go type, if it has one.       *)
LEMMA ImportIsPackage ==
    ASSUME NEW l \in Leaves
    PROVE  collectImports(l) = {mapCqlTypeToGoType(l).package} \ {"builtin"}
<1>1. PICK g : g = mapCqlTypeToGoType(l)
  OBVIOUS
<1>2. CASE l.name \in {"timestamp", "date", "time"}
  <2>1. g.package = "time"
    BY <1>1, <1>2, GoTypeCases, LeafNames DEF AllNatives
  <2>2. collectImports(l) = {"time"}
    BY <1>2 DEF collectImports
  <2> QED BY <1>1, <2>1, <2>2
<1>3. CASE l.name = "decimal"
  <2>1. g.package = "inf"
    BY <1>1, <1>3, GoTypeCases, LeafNames DEF AllNatives
  <2>2. collectImports(l) = {"inf"}
    BY <1>3 DEF collectImports
  <2> QED BY <1>1, <2>1, <2>2
<1>4. CASE l.name = "duration"
  <2>1. g.package = "gocql"
    BY <1>1, <1>4, GoTypeCases, LeafNames DEF AllNatives
  <2>2. collectImports(l) = {"gocql"}
    BY <1>4 DEF collectImports
  <2> QED BY <1>1, <2>1, <2>2
<1>5. CASE l.name \notin {"timestamp", "date", "time", "decimal", "duration"}
  <2>1. g.package = "builtin"
    BY <1>1, <1>5, GoTypeCases
  <2>2. collectImports(l) = {}
    BY <1>5 DEF collectImports
  <2> QED BY <1>1, <2>1, <2>2
<1> QED BY <1>2, <1>3, <1>4, <1>5

(* Only a user type becomes a Go type with the name of one.                 *)
LEMMA GoTypeOfLeaf ==
    ASSUME NEW l \in Leaves
    PROVE  /\ mapCqlTypeToGoType(l) \in GoType
           /\ l.is = "udt" => mapCqlTypeToGoType(l).type = l.name
           /\ mapCqlTypeToGoType(l).type \in Types => l = UDT(mapCqlTypeToGoType(l).type)
<1>1. PICK g : g = mapCqlTypeToGoType(l)
  OBVIOUS
<1>2. CASE l.is = "udt"
  <2>1. l = UDT(l.name) /\ l.name \in Types /\ g = [package |-> "builtin", type |-> l.name]
    BY <1>1, <1>2, LeafNames, GoTypeCases
  <2> QED BY <1>1, <2>1 DEF GoType
<1>3. CASE l.is # "udt"
  <2>1. g \in [package: {"builtin", "time", "inf", "gocql"}, type: GoNames]
    BY <1>1, <1>3, GoTypeCases DEF GoNames
  <2>2. g.type \notin Types
    BY <2>1, NamesAssumption
  <2> QED BY <1>1, <1>3, <2>1, <2>2 DEF GoType
<1> QED BY <1>2, <1>3

-----------------------------------------------------------------------------
(* The leaves that are in a file, and what is wanted of them.               *)
ReadLeaves == UNION ({objects[o] : o \in Read} \cup {userTypes[t] : t \in DOMAIN userTypes})
Known(leaves) == \A l \in leaves : l.is = "udt" => l.name \in known
Resolved(leaves) == \A l \in leaves : l.is = "custom" => l.name \notin known
ImportsOf(leaves) == UNION {collectImports(l) : l \in leaves}
CqlxImport == IF DOMAIN userTypes = {} THEN {} ELSE {"cqlx"}
Rendered ==
    [structs |-> {GoTypes(objects[o]) : o \in Read},
     types   |-> {[name |-> t, fields |-> GoTypes(userTypes[t])] : t \in DOMAIN userTypes},
     imports |-> imports, written |-> TRUE]

(* The variables but for the file.                                          *)
WellFormed ==
    /\ pc \in Passes
    /\ ignored \subseteq Tables \cup Views /\ known \subseteq Types
    /\ objects \in [Tables -> SUBSET Leaves]
    /\ \A o \in Tables : Known(objects[o])
    /\ tables \subseteq Tables
    /\ DOMAIN views \subseteq Views /\ views \in [DOMAIN views -> Tables \cup {NoTable}]
    /\ DOMAIN userTypes \subseteq known /\ userTypes \in [DOMAIN userTypes -> SUBSET Leaves]
    /\ \A t \in DOMAIN userTypes : Known(userTypes[t])

(* What each pass has established for the passes after it; with WellFormed  *)
(* the inductive invariant.                                                 *)
PassesDone ==
    /\ pc \in {"filter", "resolve", "prune"} => DOMAIN userTypes = known
    /\ pc \notin {"filter", "resolve"} => Resolved(ReadLeaves)
    /\ pc \in {"imports", "render", "done"} => DOMAIN userTypes = {t \in known : Used(t)}
    /\ pc \in {"render", "done"} => imports = CqlxImport \cup ImportsOf(ReadLeaves)
    /\ pc \notin {"render", "done"} => imports = {}
    /\ \/ file = NoFile
       \/ pc = "done" /\ file = Rendered

IInv == WellFormed /\ PassesDone

(* The tables whose columns are read are tables.                            *)
LEMMA ReadTables == ASSUME WellFormed PROVE Read \subseteq Tables
BY DEF WellFormed, Read

LEMMA LeavesRead ==
    ASSUME WellFormed
    PROVE  ReadLeaves \subseteq Leaves /\ Known(ReadLeaves)
<1>1. ASSUME NEW l \in ReadLeaves
      PROVE  l \in Leaves /\ (l.is = "udt" => l.name \in known)
  <2>1. \/ \E o \in Tables : l \in objects[o]
        \/ \E t \in DOMAIN userTypes : l \in userTypes[t]
    BY <1>1, ReadTables DEF ReadLeaves
  <2> QED BY <2>1 DEF WellFormed, Known
<1> QED BY <1>1 DEF Known

(* A user type is used just when a column that is read has it.              *)
LEMMA UsedIsRead ==
    ASSUME WellFormed, NEW t
    PROVE  Used(t) <=> \E o \in Read : UDT(t) \in objects[o]
BY DEF Used, usedInTables, usedInViews, Read

-----------------------------------------------------------------------------
(* Resolving keeps leaves leaves, and leaves no user type unresolved.       *)
LEMMA ResolvedLeaves ==
    ASSUME NEW leaves \in SUBSET Leaves, Known(leaves), known \subseteq Types,
           DOMAIN userTypes = known
    PROVE  /\ rewriteUDTTypeInfo(leaves) \subseteq Leaves
           /\ Known(rewriteUDTTypeInfo(leaves))
           /\ Resolved(rewriteUDTTypeInfo(leaves))
<1>1. ASSUME NEW l \in rewriteUDTTypeInfo(leaves)
      PROVE  /\ l \in Leaves
             /\ l.is = "udt" => l.name \in known
             /\ l.is = "custom" => l.name \notin known
  <2>1. PICK k \in leaves :
             l = IF k.is = "custom" /\ k.name \in DOMAIN userTypes THEN UDT(k.name) ELSE k
    BY <1>1 DEF rewriteUDTTypeInfo
  <2>2. CASE k.is = "custom" /\ k.name \in DOMAIN userTypes
    BY <2>1, <2>2 DEF UDT, Leaves
  <2>3. CASE ~(k.is = "custom" /\ k.name \in DOMAIN userTypes)
    BY <2>1, <2>3 DEF Known
  <2> QED BY <2>2, <2>3
<1> QED BY <1>1 DEF Known, Resolved

LEMMA InitIInv == Init => IInv
<1> SUFFICES ASSUME Init PROVE IInv
  OBVIOUS
<1>1. ASSUME NEW C \in Columns PROVE C \subseteq Leaves /\ Known(C)
  BY <1>1 DEF Columns, Leaves, DriverLeaves, Known, Native, Custom
<1>2. objects \in [Tables -> SUBSET Leaves] /\ \A o \in Tables : Known(objects[o])
  BY <1>1 DEF Init
<1>3. /\ DOMAIN userTypes = known /\ userTypes \in [known -> SUBSET Leaves]
      /\ \A t \in DOMAIN userTypes : Known(userTypes[t])
  BY <1>1 DEF Init
<1>4. DOMAIN views \subseteq Views /\ views \in [DOMAIN views -> Tables \cup {NoTable}]
  BY DEF Init
<1>5. WellFormed
  BY <1>2, <1>3, <1>4 DEF Init, WellFormed, Passes
<1>6. PassesDone
  BY <1>3 DEF Init, PassesDone
<1> QED BY <1>5, <1>6 DEF IInv

LEMMA FilterKeeps == ASSUME IInv, Filter PROVE IInv'
<1>1. DOMAIN views' = DOMAIN views \ ignored /\ \A v \in DOMAIN views' : views'[v] = views[v]
  BY DEF Filter, Without
<1>2. DOMAIN views' \subseteq Views /\ views' \in [DOMAIN views' -> Tables \cup {NoTable}]
  BY <1>1 DEF Filter, Without, IInv, WellFormed
<1>3. UNCHANGED <<objects, known, ignored, userTypes, imports, file>> /\ pc' = "resolve"
  BY DEF Filter, input
<1>4. WellFormed'
  BY <1>2, <1>3 DEF Filter, IInv, WellFormed, Passes, Known
<1>5. PassesDone'
  BY <1>3 DEF Filter, IInv, PassesDone
<1> QED BY <1>4, <1>5 DEF IInv

LEMMA ResolveKeeps == ASSUME IInv, resolveUDTReferences PROVE IInv'
<1>1. WellFormed /\ DOMAIN userTypes = known /\ imports = {} /\ file = NoFile
  BY DEF IInv, PassesDone, resolveUDTReferences
<1>2. /\ UNCHANGED <<ignored, known, tables, views, imports, file>>
      /\ pc' = "prune" /\ Read' = Read
  BY DEF resolveUDTReferences, Read
<1>3. /\ objects' \in [Tables -> SUBSET Leaves] /\ \A o \in Tables : Known(objects'[o])
      /\ DOMAIN userTypes' = known /\ userTypes' \in [known -> SUBSET Leaves]
      /\ \A t \in known : Known(userTypes'[t])
      /\ \A o \in Read : Resolved(objects'[o])
      /\ \A t \in known : Resolved(userTypes'[t])
  <2>1. CASE NothingToResolve /\ UNCHANGED <<objects, userTypes>>
    BY <1>1, <2>1 DEF NothingToResolve, WellFormed, Resolved
  <2>2. CASE /\ objects' = [o \in Tables |->
                    IF o \in Read THEN rewriteUDTTypeInfo(objects[o]) ELSE objects[o]]
             /\ userTypes' = [t \in DOMAIN userTypes |-> rewriteUDTTypeInfo(userTypes[t])]
    <3>1. ASSUME NEW o \in Tables
          PROVE  /\ objects'[o] \subseteq Leaves /\ Known(objects'[o])
                 /\ o \in Read => Resolved(objects'[o])
      BY <1>1, <2>2, ResolvedLeaves DEF WellFormed
    <3>2. ASSUME NEW t \in known
          PROVE  /\ userTypes'[t] \subseteq Leaves /\ Known(userTypes'[t])
                 /\ Resolved(userTypes'[t])
      BY <1>1, <2>2, ResolvedLeaves DEF WellFormed
    <3> QED BY <1>1, <2>2, <3>1, <3>2, ReadTables
  <2> QED BY <2>1, <2>2 DEF resolveUDTReferences
<1>4. WellFormed'
  BY <1>1, <1>2, <1>3 DEF WellFormed, Passes, Known
<1>5. Resolved(ReadLeaves)'
  BY <1>2, <1>3 DEF Resolved, ReadLeaves
<1>6. PassesDone'
  <2>1. DOMAIN userTypes' = known' /\ imports' = {} /\ file' = NoFile
    BY <1>1, <1>2, <1>3
  <2> QED BY <1>2, <1>5, <2>1 DEF PassesDone
<1> QED BY <1>4, <1>6 DEF IInv

LEMMA DeleteKeeps == ASSUME IInv, DeleteOrphans PROVE IInv'
<1>1. /\ WellFormed /\ Resolved(ReadLeaves) /\ imports = {} /\ file = NoFile
      /\ DOMAIN userTypes = known
  BY DEF IInv, PassesDone, DeleteOrphans
<1>2. /\ UNCHANGED <<objects, known, ignored, tables, views, imports, file>>
      /\ pc' = "imports" /\ Read' = Read /\ \A t : Used(t)' <=> Used(t)
  BY DEF DeleteOrphans, input, Read, Used, usedInTables, usedInViews
<1>3. /\ DOMAIN userTypes' = {t \in DOMAIN userTypes : Used(t)}
      /\ \A t \in DOMAIN userTypes' : userTypes'[t] = userTypes[t]
      /\ userTypes' \in [DOMAIN userTypes' -> SUBSET Leaves]
  BY <1>1 DEF DeleteOrphans, Without, WellFormed
<1>4. WellFormed'
  BY <1>1, <1>2, <1>3 DEF WellFormed, Passes, Known
<1>5. Resolved(ReadLeaves)'
  BY <1>1, <1>2, <1>3 DEF Resolved, ReadLeaves
<1> QED BY <1>1, <1>2, <1>3, <1>4, <1>5 DEF IInv, PassesDone

LEMMA ImportsKeeps == ASSUME IInv, Imports PROVE IInv'
<1>1. /\ UNCHANGED <<objects, known, ignored, tables, views, userTypes, file>>
      /\ pc = "imports" /\ pc' = "render" /\ Read' = Read /\ \A t : Used(t)' <=> Used(t)
  BY DEF Imports, input, Read, Used, usedInTables, usedInViews
<1>2. WellFormed'
  BY <1>1 DEF IInv, WellFormed, Passes, Known
<1>3. Resolved(ReadLeaves)'
  BY <1>1 DEF IInv, PassesDone, Resolved, ReadLeaves
<1>4. (imports = CqlxImport \cup ImportsOf(ReadLeaves))'
  BY <1>1 DEF Imports, CqlxImport, ImportsOf, ReadLeaves
<1> QED BY <1>1, <1>2, <1>3, <1>4 DEF IInv, PassesDone

LEMMA RenderKeeps == ASSUME IInv, Render PROVE IInv'
<1>1. /\ UNCHANGED <<objects, known, ignored, tables, views, userTypes, imports>>
      /\ pc = "render" /\ pc' = "done" /\ Read' = Read /\ \A t : Used(t)' <=> Used(t)
  BY DEF Render, input, Read, Used, usedInTables, usedInViews
<1>2. WellFormed'
  BY <1>1 DEF IInv, WellFormed, Passes, Known
<1>3. /\ Resolved(ReadLeaves)'
      /\ (imports = CqlxImport \cup ImportsOf(ReadLeaves))'
  BY <1>1 DEF IInv, PassesDone, Resolved, CqlxImport, ImportsOf, ReadLeaves
<1>4. file' = file \/ file' = Rendered'
  BY <1>1 DEF Render, Rendered, GoTypes
<1>5. file = NoFile
  BY <1>1 DEF IInv, PassesDone
<1> QED BY <1>1, <1>2, <1>3, <1>4, <1>5 DEF IInv, PassesDone, NoFile

(* Every pass keeps the inductive invariant.                                *)
LEMMA Inductive == Spec => []IInv
<1>1. IInv /\ [Next]_vars => IInv'
  <2> SUFFICES ASSUME IInv, [Next]_vars PROVE IInv'
    OBVIOUS
  <2>1. CASE Filter
    BY <2>1, FilterKeeps
  <2>2. CASE resolveUDTReferences
    BY <2>2, ResolveKeeps
  <2>3. CASE DeleteOrphans
    BY <2>3, DeleteKeeps
  <2>4. CASE Imports
    BY <2>4, ImportsKeeps
  <2>5. CASE Render
    BY <2>5, RenderKeeps
  <2>6. CASE UNCHANGED vars
    BY <2>6 DEF vars, input, IInv, WellFormed, PassesDone, Known, Resolved, ReadLeaves, Read,
       Used, usedInTables, usedInViews, CqlxImport, ImportsOf, Rendered, GoTypes
  <2> QED BY <2>1, <2>2, <2>3, <2>4, <2>5, <2>6 DEF Next
<1> QED BY <1>1, InitIInv, PTL DEF Spec

-----------------------------------------------------------------------------
(* What a written file has in it: the Go types of the leaves that were read *)
(* and the user types that are left.                                        *)
LEMMA FileIsRendered ==
    ASSUME IInv, file # NoFile
    PROVE  /\ ColumnGoTypes = {mapCqlTypeToGoType(l) : l \in UNION {objects[o] : o \in Read}}
           /\ ColumnGoTypes \cup FieldGoTypes = {mapCqlTypeToGoType(l) : l \in ReadLeaves}
           /\ Declarations = DOMAIN userTypes
           /\ DOMAIN userTypes = {t \in known : Used(t)}
           /\ file.imports = CqlxImport \cup ImportsOf(ReadLeaves)
           /\ Resolved(ReadLeaves)
<1>1. pc = "done" /\ file = Rendered
  BY DEF IInv, PassesDone
<1>2. /\ file.structs = {GoTypes(objects[o]) : o \in Read}
      /\ file.types = {[name |-> t, fields |-> GoTypes(userTypes[t])] : t \in DOMAIN userTypes}
      /\ file.imports = imports
  BY <1>1 DEF Rendered
<1>3. ColumnGoTypes = {mapCqlTypeToGoType(l) : l \in UNION {objects[o] : o \in Read}}
  <2>1. ASSUME NEW g
        PROVE  g \in ColumnGoTypes
                 <=> \E o \in Read : \E l \in objects[o] : g = mapCqlTypeToGoType(l)
    BY <1>2 DEF ColumnGoTypes, GoTypes
  <2> QED BY <2>1
<1>4. FieldGoTypes
        = {mapCqlTypeToGoType(l) : l \in UNION {userTypes[t] : t \in DOMAIN userTypes}}
  <2>1. ASSUME NEW g
        PROVE  g \in FieldGoTypes
                 <=> \E t \in DOMAIN userTypes : \E l \in userTypes[t] : g = mapCqlTypeToGoType(l)
    <3>1. g \in FieldGoTypes <=> \E r \in file.types : g \in r.fields
      BY DEF FieldGoTypes
    <3>2. ASSUME NEW t \in DOMAIN userTypes, g \in GoTypes(userTypes[t])
          PROVE  g \in FieldGoTypes
      <4>1. [name |-> t, fields |-> GoTypes(userTypes[t])] \in file.types
        BY <1>2
      <4> QED BY <3>1, <3>2, <4>1
    <3>3. ASSUME g \in FieldGoTypes
          PROVE  \E t \in DOMAIN userTypes : g \in GoTypes(userTypes[t])
      <4>1. PICK r \in file.types : g \in r.fields
        BY <3>1, <3>3
      <4>2. PICK t \in DOMAIN userTypes : r = [name |-> t, fields |-> GoTypes(userTypes[t])]
        BY <1>2
      <4> QED BY <4>1, <4>2
    <3> QED BY <3>2, <3>3 DEF GoTypes
  <2> QED BY <2>1
<1>5. Declarations = DOMAIN userTypes
  <2>1. ASSUME NEW t \in DOMAIN userTypes PROVE t \in Declarations
    <3>1. [name |-> t, fields |-> GoTypes(userTypes[t])] \in file.types
      BY <1>2
    <3> QED BY <3>1 DEF Declarations
  <2>2. ASSUME NEW r \in file.types PROVE r.name \in DOMAIN userTypes
    BY <1>2
  <2> QED BY <2>1, <2>2 DEF Declarations
<1>6. ColumnGoTypes \cup FieldGoTypes = {mapCqlTypeToGoType(l) : l \in ReadLeaves}
  BY <1>3, <1>4 DEF ReadLeaves
<1> QED BY <1>1, <1>2, <1>3, <1>5, <1>6 DEF IInv, PassesDone

(* Nothing is declared or used by the file that was not written.            *)
LEMMA NothingInNoFile ==
    ASSUME file = NoFile
    PROVE  /\ ColumnGoTypes = {} /\ FieldGoTypes = {} /\ Declarations = {}
           /\ file.written = FALSE
BY DEF NoFile, ColumnGoTypes, FieldGoTypes, Declarations

-----------------------------------------------------------------------------
(* Every variable holds a value of its kind, and a leaf is only resolved to *)
(* a user type that the keyspace has.                                       *)
THEOREM TypeCorrect == Spec => []TypeOK
<1>1. IInv => TypeOK
  <2> SUFFICES ASSUME IInv PROVE TypeOK
    OBVIOUS
  <2>1. WellFormed
    BY DEF IInv
  <2>2. \A o \in Tables, t \in Types : UDT(t) \in objects[o] => t \in known
    BY <2>1 DEF WellFormed, Known, UDT
  <2>3. \A u \in DOMAIN userTypes, t \in Types : UDT(t) \in userTypes[u] => t \in known
    BY <2>1 DEF WellFormed, Known, UDT
  <2>4. imports \subseteq {"cqlx", "time", "inf", "gocql"}
    BY DEF IInv, PassesDone, CqlxImport, ImportsOf, collectImports
  <2>5. file.structs \subseteq SUBSET GoType /\ Declarations \subseteq Types
    <3>1. CASE file = NoFile
      BY <3>1 DEF NoFile, Declarations
    <3>2. CASE file # NoFile
      <4>1. file.structs = {GoTypes(objects[o]) : o \in Read}
        BY <3>2 DEF IInv, PassesDone, Rendered
      <4>2. \A o \in Read : objects[o] \subseteq Leaves
        BY <2>1, ReadTables DEF WellFormed
      <4>3. \A o \in Read : GoTypes(objects[o]) \subseteq GoType
        BY <4>2, GoTypeOfLeaf DEF GoTypes
      <4>4. Declarations \subseteq Types
        BY <2>1, <3>2, FileIsRendered DEF WellFormed
      <4> QED BY <4>1, <4>3, <4>4
    <3> QED BY <3>1, <3>2
  <2> QED BY <2>1, <2>2, <2>3, <2>4, <2>5 DEF WellFormed, TypeOK
<1> QED BY <1>1, Inductive, PTL

(* The imports of a written file are the packages that it uses, no more and *)
(* no fewer: collectImports and mapCqlTypeToGoType agree on every type.     *)
THEOREM ImportsAreExact == Spec => []ImportsExact
<1>1. IInv => ImportsExact
  <2> SUFFICES ASSUME IInv, file.written PROVE ImportsExact
    BY DEF ImportsExact
  <2>1. file # NoFile
    BY DEF NoFile
  <2>2. ReadLeaves \subseteq Leaves
    BY LeavesRead DEF IInv
  <2>3. ImportsOf(ReadLeaves) = Packages
    <3>1. ASSUME NEW p
          PROVE  p \in ImportsOf(ReadLeaves)
                   <=> \E l \in ReadLeaves : p = mapCqlTypeToGoType(l).package /\ p # "builtin"
      BY <2>2, ImportIsPackage DEF ImportsOf
    <3>2. ASSUME NEW p
          PROVE  p \in Packages
                   <=> \E l \in ReadLeaves : p = mapCqlTypeToGoType(l).package /\ p # "builtin"
      BY <2>1, FileIsRendered DEF Packages
    <3> QED BY <3>1, <3>2
  <2>4. file.types = {} <=> DOMAIN userTypes = {}
    <3>1. file.types
            = {[name |-> t, fields |-> GoTypes(userTypes[t])] : t \in DOMAIN userTypes}
      BY <2>1 DEF IInv, PassesDone, Rendered
    <3> QED BY <3>1
  <2> QED BY <2>1, <2>3, <2>4, FileIsRendered DEF ImportsExact, CqlxImport
<1> QED BY <1>1, Inductive, PTL

(* Every user type that a column has is declared in the file.               *)
THEOREM ColumnTypesAreDefined == Spec => []ColumnTypesDefined
<1>1. IInv => ColumnTypesDefined
  <2> SUFFICES ASSUME IInv, NEW g \in ColumnGoTypes, g.type \in Types
               PROVE  g.type \in Declarations
    BY DEF ColumnTypesDefined
  <2>1. file # NoFile
    BY NothingInNoFile
  <2>2. PICK o \in Read : \E k \in objects[o] : g = mapCqlTypeToGoType(k)
    BY <2>1, FileIsRendered
  <2> PICK l \in objects[o] : g = mapCqlTypeToGoType(l)
    BY <2>2
  <2>3. l \in ReadLeaves /\ l \in Leaves /\ Known(ReadLeaves)
    BY <2>2, LeavesRead DEF IInv, ReadLeaves
  <2>4. l = UDT(g.type)
    BY <2>2, <2>3, GoTypeOfLeaf
  <2>5. g.type \in known
    BY <2>3, <2>4 DEF Known, UDT
  <2>6. Used(g.type)
    BY <2>2, <2>4, UsedIsRead DEF IInv
  <2> QED BY <2>1, <2>5, <2>6, FileIsRendered
<1> QED BY <1>1, Inductive, PTL

(* Every user type that is declared is the type of a column in the file.    *)
THEOREM OrphansAreGone == Spec => []NoOrphans
<1>1. IInv => NoOrphans
  <2> SUFFICES ASSUME IInv, NEW t \in Declarations
               PROVE  \E g \in ColumnGoTypes : t = g.type
    BY DEF NoOrphans
  <2>1. file # NoFile
    BY NothingInNoFile
  <2>2. t \in known /\ Used(t)
    BY <2>1, FileIsRendered
  <2>3. PICK o \in Read : UDT(t) \in objects[o]
    BY <2>2, UsedIsRead DEF IInv
  <2>4. UDT(t) \in Leaves
    BY <2>2 DEF IInv, WellFormed, Leaves
  <2>5. mapCqlTypeToGoType(UDT(t)).type = t
    BY <2>4, GoTypeOfLeaf DEF UDT
  <2>6. mapCqlTypeToGoType(UDT(t)) \in ColumnGoTypes
    BY <2>1, <2>3, FileIsRendered
  <2> QED BY <2>5, <2>6
<1> QED BY <1>1, Inductive, PTL

(* No column or field whose type is a user type of the keyspace becomes any *)
(* in the file.                                                             *)
THEOREM NothingStaysOpaque == Spec => []NothingLeftOpaque
<1>1. IInv => NothingLeftOpaque
  <2> SUFFICES ASSUME IInv, file.written, NEW l \in ReadLeaves, l.name \in known
               PROVE  mapCqlTypeToGoType(l).type = l.name
    BY DEF NothingLeftOpaque, ReadLeaves
  <2>1. file # NoFile
    BY DEF NoFile
  <2>2. l \in Leaves /\ l.name \in Types
    BY LeavesRead DEF IInv, WellFormed
  <2>3. l.is # "custom"
    BY <2>1, FileIsRendered DEF Resolved
  <2>4. l.is = "udt"
    BY <2>2, <2>3, LeafNames
  <2> QED BY <2>2, <2>4, GoTypeOfLeaf
<1> QED BY <1>1, Inductive, PTL
=============================================================================
