----------------------------- MODULE NamedQuery ----------------------------
(***************************************************************************)
(* CompileNamedQuery (queryx.go): the byte-by-byte compiler that turns     *)
(* ":name" into a placeholder and "::" into ":", as the loop it is, beside *)
(* a definition of what it should compute that looks at the whole query.   *)
(*                                                                         *)
(* Four bytes stand for the classes the code tells apart: ":" itself, a    *)
(* letter or digit, a mark ("_" or "."), which is allowed in a name but    *)
(* not by allowedBindRune, and any other byte.  "?" is a placeholder.      *)
(***************************************************************************)
EXTENDS Integers, FiniteSets, Sequences, SequencesExt

CONSTANT MaxLength      \* bytes in a query, at most
ASSUME MaxLengthAssumption == MaxLength \in Nat

VARIABLES
    qs,         \* the query
    i,          \* the byte the loop is at
    inName,     \* whether it is in a name
    name,       \* the name read so far
    rebound,    \* the statement so far
    names,      \* the names so far
    err         \* the error, "none" while there is none

vars == <<qs, i, inName, name, rebound, names, err>>

Bytes == {":", "letter", "mark", "other"}
allowedBindRune(b) == b = "letter"

(* Mutant: every byte but a colon continues a name.                         *)
AnyByte(b) == b # ":"

NameByte(b) == allowedBindRune(b) \/ b = "mark"

Init ==
    /\ \E n \in 0..MaxLength : qs \in [1..n -> Bytes]
    /\ i = 1 /\ inName = FALSE /\ name = <<>> /\ rebound = <<>> /\ names = <<>>
    /\ err = IF \E k \in DOMAIN qs : qs[k] = ":" THEN "none" ELSE "unnamed"

last == Len(qs)
Running == err = "none" /\ i <= last
b == qs[i]

-----------------------------------------------------------------------------
(* The cases of the switch.                                                 *)

(* The second ":" of an escape.                                             *)
Escape ==
    /\ Running /\ b = ":" /\ inName /\ qs[i - 1] = ":"
    /\ rebound' = Append(rebound, ":") /\ inName' = FALSE
    /\ i' = i + 1
    /\ UNCHANGED <<qs, name, names, err>>

(* Mutant: a colon that follows a name goes into the statement.             *)
Tolerated == err' = err /\ i' = i + 1 /\ rebound' = Append(rebound, b)

Rejected == err' = "unexpected" /\ UNCHANGED <<i, rebound>>

Unexpected ==
    /\ Running /\ b = ":" /\ inName /\ qs[i - 1] # ":"
    /\ Rejected
    /\ UNCHANGED <<qs, inName, name, names>>

NameStarts ==
    /\ Running /\ b = ":" /\ ~inName
    /\ inName' = TRUE /\ name' = <<>>
    /\ i' = i + 1
    /\ UNCHANGED <<qs, rebound, names, err>>

NameGoesOn ==
    /\ Running /\ b # ":" /\ inName /\ NameByte(b) /\ i # last
    /\ name' = Append(name, b)
    /\ i' = i + 1
    /\ UNCHANGED <<qs, inName, rebound, names, err>>

(* Mutant: the last byte never belongs to the name.                         *)
NeverLast == FALSE

(* The last byte belongs to the name if it may be in one.                   *)
LastInName == i = last /\ allowedBindRune(b)

NameEnds ==
    /\ Running /\ b # ":" /\ inName /\ ~(NameByte(b) /\ i # last)
    /\ inName' = FALSE
    /\ name' = IF LastInName THEN Append(name, b) ELSE name
    /\ names' = Append(names, name')
    /\ LET r == Append(rebound, "?") IN rebound' = IF LastInName THEN r ELSE Append(r, b)
    /\ i' = i + 1
    /\ UNCHANGED <<qs, err>>

Copy ==
    /\ Running /\ b # ":" /\ ~inName
    /\ rebound' = Append(rebound, b)
    /\ i' = i + 1
    /\ UNCHANGED <<qs, inName, name, names, err>>

Next == Escape \/ Unexpected \/ NameStarts \/ NameGoesOn \/ NameEnds \/ Copy

Spec == Init /\ [][Next]_vars

-----------------------------------------------------------------------------
(* What a query means, without a loop.  Of a run of colons every second one *)
(* closes an escape; an odd run opens a name with its last colon, and the   *)
(* name is the longest run of name bytes after it.                          *)

NotColon(x) == x # ":"
Colons(q, k) == k - SelectLastInSubSeq(q, 1, k, NotColon)
Opens(q, k) == q[k] = ":" /\ Colons(q, k) % 2 = 1
OpensName(q, k) == Opens(q, k) /\ (k < Len(q) => q[k + 1] # ":")
(* Byte k is in the name opened at o.                                       *)
InNameOf(q, o, k) == OpensName(q, o) /\ o < k /\ \A j \in o + 1 .. k : NameByte(q[j])
InAName(q, k) == \E o \in 1..k : InNameOf(q, o, k)

(* A colon may not follow a name directly.                                  *)
Malformed(q) == \E k \in 2..Len(q) : q[k] = ":" /\ InAName(q, k - 1)

Token(q, k) ==
    IF OpensName(q, k) THEN <<"?">>
    ELSE IF q[k] = ":" THEN (IF Opens(q, k) THEN <<>> ELSE <<":">>)
    ELSE IF InAName(q, k) THEN <<>> ELSE <<q[k]>>
NameEnd(q, o) == CHOOSE e \in o..Len(q) :
                    /\ \A k \in o + 1 .. e : InNameOf(q, o, k)
                    /\ e = Len(q) \/ ~InNameOf(q, o, e + 1)
NameAt(q, o) == SubSeq(q, o + 1, NameEnd(q, o))
NameToken(q, k) == IF OpensName(q, k) THEN <<NameAt(q, k)>> ELSE <<>>

(* For each n, the first n sequences of t put together; so the statement    *)
(* and the names of the first n bytes of q.                                 *)
Joined(t) ==
    LET joined[n \in 0..Len(t)] == IF n = 0 THEN <<>> ELSE joined[n - 1] \o t[n]
    IN  joined
Statement(q) == Joined([k \in DOMAIN q |-> Token(q, k)])
NamesOf(q) == Joined([k \in DOMAIN q |-> NameToken(q, k)])

-----------------------------------------------------------------------------
(* Properties.                                                              *)

Compiled == err = "none" /\ i > last

Placeholders(r) == {k \in DOMAIN r : r[k] = "?"}

(* Every variable holds a value of its kind; outside a name there are as    *)
(* many names as placeholders, which is what binding relies on.             *)
TypeOK ==
    /\ qs \in Seq(Bytes) /\ i \in 1..last + 1 /\ inName \in BOOLEAN
    /\ name \in Seq({"letter", "mark"}) /\ rebound \in Seq(Bytes \cup {"?"})
    /\ names \in Seq(Seq({"letter", "mark"}))
    /\ err \in {"none", "unnamed", "unexpected"}
    /\ Len(names) = Cardinality(Placeholders(rebound))

(* A query that does not end inside a name, or ends with a letter or digit  *)
(* of one, becomes the statement and the names it means: every name whole   *)
(* and in its place, every escape one colon, every other byte as it was.    *)
EndsClean == last > 0 => ~OpensName(qs, last) /\ (qs[last] = "mark" => ~InAName(qs, last))
CompilesToMeaning ==
    Compiled /\ EndsClean => rebound = Statement(qs)[last] /\ names = NamesOf(qs)[last]

(* It is rejected exactly if a colon follows a name directly.               *)
RejectsMalformed ==
    /\ err = "unexpected" => Malformed(qs)
    /\ Compiled => ~Malformed(qs)

=============================================================================
