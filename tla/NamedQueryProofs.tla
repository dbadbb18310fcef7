--------------------------- MODULE NamedQueryProofs ---------------------------
(***************************************************************************)
(* CompileNamedQuery for queries of every length: what the loop has put    *)
(* together after any number of bytes is what these bytes mean.            *)
(***************************************************************************)
EXTENDS NamedQuery, SequenceTheorems, FiniteSetTheorems, WellFoundedInduction, TLAPS

-----------------------------------------------------------------------------
(* Induction.  A set of numbers that has 0 and, with each number, the next, *)
(* has all of them: what it leaves out would have a least element.          *)
Below == {p \in Nat \X Nat : p[1] < p[2]}

LEMMA NumbersAreInductive ==
    ASSUME NEW T, 0 \in T, \A n \in Nat : n \in T => n + 1 \in T
    PROVE  \A n \in Nat : n \in T
  <1> SUFFICES ASSUME Nat \ T # {} PROVE FALSE
    OBVIOUS
  <1>1. IsWellFoundedOn(Below, Nat)
    BY NatLessThanWellFounded DEF OpToRel, Below
  <1>2. PICK n \in Nat \ T : \A m \in Nat \ T : ~ (<<m, n>> \in Below)
    BY <1>1, WFMin
  <1>3. n # 0 /\ n - 1 \in Nat
    OBVIOUS
  <1>4. n - 1 \in T
    <2>1. <<n - 1, n>> \in Below
      BY <1>3 DEF Below
    <2> QED  BY <1>2, <1>3, <2>1
  <1> QED  BY <1>3, <1>4

-----------------------------------------------------------------------------
(* Joined is defined by recursion: that there is a function with this       *)
(* equation has to be proved before the equation can be used.               *)
Joins(f, t, n) == f = [k \in 0..n |-> IF k = 0 THEN <<>> ELSE f[k - 1] \o t[k]]

LEMMA JoinsAt ==
    ASSUME NEW f, NEW t, NEW n \in Nat, Joins(f, t, n), NEW k \in 0..n
    PROVE  f[k] = IF k = 0 THEN <<>> ELSE f[k - 1] \o t[k]
  <1>1. PICK h : h = [m \in 0..n |-> IF m = 0 THEN <<>> ELSE f[m - 1] \o t[m]]
    OBVIOUS
  <1>2. h[k] = IF k = 0 THEN <<>> ELSE f[k - 1] \o t[k]
    BY <1>1
  <1> QED  BY <1>1, <1>2 DEF Joins

LEMMA JoinedExists == ASSUME NEW t, NEW n \in Nat PROVE \E f : Joins(f, t, n)
  <1> DEFINE T == {m \in Nat : \E f : Joins(f, t, m)}
  <1>1. 0 \in T
    <2> DEFINE h == [k \in 0..0 |-> <<>>]
    <2>1. h = [k \in 0..0 |-> IF k = 0 THEN <<>> ELSE h[k - 1] \o t[k]]
      OBVIOUS
    <2> HIDE DEF h
    <2>2. Joins(h, t, 0)
      BY <2>1 DEF Joins
    <2> QED  BY <2>2
  <1>2. ASSUME NEW m \in Nat, m \in T PROVE m + 1 \in T
    <2>1. PICK f : Joins(f, t, m)
      BY <1>2
    <2> DEFINE g == [k \in 0..m + 1 |-> IF k <= m THEN f[k] ELSE f[m] \o t[k]]
    <2>2. ASSUME NEW k \in 0..m + 1
          PROVE  g[k] = IF k = 0 THEN <<>> ELSE g[k - 1] \o t[k]
      <3>1. \A l \in 0..m : f[l] = IF l = 0 THEN <<>> ELSE f[l - 1] \o t[l]
        BY <2>1, JoinsAt
      <3>2. k # 0 => k - 1 \in 0..m
        OBVIOUS
      <3>3. \A l \in 0..m : g[l] = f[l]
        BY <3>1
      <3> QED  BY <3>1, <3>2, <3>3
    <2>3. g = [k \in 0..m + 1 |-> g[k]]
      OBVIOUS
    <2> HIDE DEF g
    <2>4. g = [k \in 0..m + 1 |-> IF k = 0 THEN <<>> ELSE g[k - 1] \o t[k]]
      BY <2>2, <2>3
    <2>5. Joins(g, t, m + 1)
      BY <2>4 DEF Joins
    <2> QED  BY <2>5
  <1> HIDE DEF T
  <1>3. n \in T
    BY <1>1, <1>2, NumbersAreInductive
  <1> QED  BY <1>3 DEF T

LEMMA JoinedStep ==
    ASSUME NEW t, Len(t) \in Nat
    PROVE  /\ Joined(t)[0] = <<>>
           /\ \A n \in 1..Len(t) : Joined(t)[n] = Joined(t)[n - 1] \o t[n]
  <1>1. Joins(Joined(t), t, Len(t))
    <2> DEFINE f == CHOOSE f : f = [k \in 0..Len(t) |->
                                      IF k = 0 THEN <<>> ELSE f[k - 1] \o t[k]]
    <2>1. Joins(f, t, Len(t))
      BY JoinedExists DEF Joins
    <2>2. Joined(t) = f
      BY DEF Joined
    <2> QED  BY <2>1, <2>2
  <1>2. 0 \in 0..Len(t) /\ \A n \in 1..Len(t) : n \in 0..Len(t) /\ n # 0
    OBVIOUS
  <1> QED  BY <1>1, <1>2, JoinsAt, ZenonT(30)

LEMMA JoinedType ==
    ASSUME NEW S, NEW t, Len(t) \in Nat, \A n \in 1..Len(t) : t[n] \in Seq(S)
    PROVE  \A n \in 0..Len(t) : Joined(t)[n] \in Seq(S)
  <1> DEFINE T == {n \in Nat : n \in 0..Len(t) => Joined(t)[n] \in Seq(S)}
  <1>1. 0 \in T
    BY JoinedStep, EmptySeq
  <1>2. ASSUME NEW n \in Nat, n \in T PROVE n + 1 \in T
    <2> SUFFICES ASSUME n + 1 \in 0..Len(t) PROVE Joined(t)[n + 1] \in Seq(S)
      OBVIOUS
    <2>1. n \in 0..Len(t) /\ n + 1 \in 1..Len(t) /\ (n + 1) - 1 = n
      OBVIOUS
    <2>2. Joined(t)[n + 1] = Joined(t)[n] \o t[n + 1]
      BY <2>1, JoinedStep
    <2>3. Joined(t)[n] \in Seq(S) /\ t[n + 1] \in Seq(S)
      BY <1>2, <2>1
    <2> QED  BY <2>2, <2>3, ConcatProperties
  <1> HIDE DEF T
  <1>3. \A n \in Nat : n \in T
    BY <1>1, <1>2, NumbersAreInductive
  <1> QED  BY <1>3 DEF T

-----------------------------------------------------------------------------
(* The meaning of a query, byte by byte.                                    *)
Symbols == Bytes \cup {"?"}
Texts == Seq(Symbols)

LEMMA StatementStep ==
    ASSUME NEW q \in Seq(Bytes)
    PROVE  /\ Statement(q)[0] = <<>>
           /\ \A n \in 1..Len(q) :
                LET before == Statement(q)[n - 1] IN
                /\ Token(q, n) = <<>> => Statement(q)[n] = before
                /\ \A x \in Symbols : Token(q, n) = <<x>> => Statement(q)[n] = Append(before, x)
  <1> DEFINE t == [k \in DOMAIN q |-> Token(q, k)]
  <1>1. DOMAIN q = 1..Len(q) /\ Len(q) \in Nat
    BY LenProperties
  <1>2. Len(t) = Len(q) /\ \A k \in 1..Len(q) : t[k] = Token(q, k)
    BY <1>1
  <1>3. \A k \in 1..Len(q) : Token(q, k) \in Texts
    <2> SUFFICES ASSUME NEW k \in 1..Len(q) PROVE Token(q, k) \in Texts
      OBVIOUS
    <2>1. q[k] \in Symbols /\ ":" \in Symbols /\ "?" \in Symbols
      BY ElementOfSeq DEF Bytes, Symbols
    <2>2. \A x \in Symbols : <<x>> \in Texts
      BY DEF Texts
    <2>3. <<>> \in Texts /\ <<"?">> \in Texts /\ <<":">> \in Texts /\ <<q[k]>> \in Texts
      BY <2>1, <2>2, EmptySeq DEF Texts
    <2> HIDE DEF Texts
    <2> QED  BY <2>3 DEF Token
  <1> HIDE DEF t
  <1>4. Statement(q) = Joined(t)
    BY DEF Statement, t
  <1>5. \A n \in 0..Len(q) : Statement(q)[n] \in Texts
    BY <1>1, <1>2, <1>3, <1>4, JoinedType DEF Texts
  <1>6. ASSUME NEW n \in 1..Len(q), NEW before, before = Statement(q)[n - 1]
        PROVE  /\ Token(q, n) = <<>> => Statement(q)[n] = before
               /\ \A x \in Symbols : Token(q, n) = <<x>> => Statement(q)[n] = Append(before, x)
    <2>1. Statement(q)[n] = before \o Token(q, n)
      BY <1>1, <1>2, <1>4, <1>6, JoinedStep
    <2>2. n - 1 \in 0..Len(q)
      BY <1>1
    <2>3. before \in Seq(Symbols)
      BY <1>5, <1>6, <2>2 DEF Texts
    <2> QED  BY <2>1, <2>3, ConcatEmptySeq, AppendIsConcat
  <1>7. Statement(q)[0] = <<>>
    BY <1>1, <1>2, <1>4, JoinedStep
  <1> QED  BY <1>6, <1>7

LEMMA NamesStep ==
    ASSUME NEW q \in Seq(Bytes)
    PROVE  /\ NamesOf(q)[0] = <<>>
           /\ \A n \in 1..Len(q) :
                /\ OpensName(q, n) => NamesOf(q)[n] = Append(NamesOf(q)[n - 1], NameAt(q, n))
                /\ ~OpensName(q, n) => NamesOf(q)[n] = NamesOf(q)[n - 1]
  <1> DEFINE t == [k \in DOMAIN q |-> NameToken(q, k)]
             S == {NameAt(q, k) : k \in DOMAIN q}
  <1>1. DOMAIN q = 1..Len(q) /\ Len(q) \in Nat
    BY LenProperties
  <1>2. Len(t) = Len(q) /\ \A k \in 1..Len(q) : t[k] = NameToken(q, k)
    BY <1>1
  <1>3. \A k \in 1..Len(q) : NameToken(q, k) \in Seq(S)
    <2> SUFFICES ASSUME NEW k \in 1..Len(q) PROVE NameToken(q, k) \in Seq(S)
      OBVIOUS
    <2>1. NameAt(q, k) \in S
      BY <1>1
    <2> HIDE DEF S
    <2>2. <<NameAt(q, k)>> \in Seq(S) /\ <<>> \in Seq(S)
      BY <2>1, EmptySeq
    <2> QED  BY <2>2 DEF NameToken
  <1> HIDE DEF t, S
  <1>4. NamesOf(q) = Joined(t)
    BY DEF NamesOf, t
  <1>5. \A n \in 0..Len(q) : NamesOf(q)[n] \in Seq(S)
    BY <1>1, <1>2, <1>3, <1>4, JoinedType
  <1>6. \A n \in 1..Len(q) : NamesOf(q)[n] = NamesOf(q)[n - 1] \o NameToken(q, n)
    BY <1>1, <1>2, <1>4, JoinedStep
  <1>7. ASSUME NEW n \in 1..Len(q)
        PROVE  /\ OpensName(q, n) => NamesOf(q)[n] = Append(NamesOf(q)[n - 1], NameAt(q, n))
               /\ ~OpensName(q, n) => NamesOf(q)[n] = NamesOf(q)[n - 1]
    <2>1. n - 1 \in 0..Len(q)
      BY <1>1
    <2>2. PICK before \in Seq(S) : before = NamesOf(q)[n - 1]
      BY <1>5, <2>1
    <2>3. NamesOf(q)[n] = before \o NameToken(q, n)
      BY <1>6, <2>2
    <2>4. CASE OpensName(q, n)
      <3>1. NameAt(q, n) \in S
        BY <1>1 DEF S
      <3>2. NameToken(q, n) = <<NameAt(q, n)>>
        BY <2>4 DEF NameToken
      <3> QED  BY <2>2, <2>3, <2>4, <3>1, <3>2, AppendIsConcat
    <2>5. CASE ~OpensName(q, n)
      <3>1. NameToken(q, n) = <<>>
        BY <2>5 DEF NameToken
      <3> QED  BY <2>2, <2>3, <2>5, <3>1, ConcatEmptySeq
    <2> QED  BY <2>4, <2>5
  <1>8. NamesOf(q)[0] = <<>>
    BY <1>1, <1>2, <1>4, JoinedStep
  <1> QED  BY <1>7, <1>8

-----------------------------------------------------------------------------
(* Colons counts the colons up to a byte, and is 0 at any other byte.       *)
Others(q, k) == {m \in 1..k : NotColon(q[m])}
LastOther(q, k) == SelectLastInSubSeq(q, 1, k, NotColon)

LEMMA LastOtherIs ==
    ASSUME NEW q, NEW k \in Nat
    PROVE  LastOther(q, k) = IF Others(q, k) # {} THEN Max(Others(q, k)) ELSE 0
  BY DEF LastOther, SelectLastInSubSeq, Others

LEMMA ColonStep ==
    ASSUME NEW q, NEW k \in Nat \ {0}
    PROVE  /\ q[k] # ":" => LastOther(q, k) = k
           /\ q[k] = ":" => LastOther(q, k) = LastOther(q, k - 1)
  <1>1. CASE q[k] # ":"
    <2>1. k \in Others(q, k) /\ \A m \in Others(q, k) : m \in Nat /\ m <= k
      BY <1>1 DEF Others, NotColon
    <2>2. Max(Others(q, k)) = k
      BY <2>1 DEF Max
    <2> QED  BY <1>1, <2>1, <2>2, LastOtherIs
  <1>2. CASE q[k] = ":"
    <2>1. Others(q, k) = Others(q, k - 1)
      BY <1>2 DEF Others, NotColon
    <2> QED  BY <1>2, <2>1, LastOtherIs
  <1> QED  BY <1>1, <1>2

LEMMA ColonsCount ==
    ASSUME NEW q
    PROVE  /\ Colons(q, 0) = 0
           /\ \A k \in Nat : Colons(q, k) \in Nat
           /\ \A k \in Nat \ {0} :
                Colons(q, k) = IF q[k] = ":" THEN Colons(q, k - 1) + 1 ELSE 0
  <1> DEFINE T == {k \in Nat : LastOther(q, k) \in 0..k}
  <1>1. LastOther(q, 0) = 0
    <2>1. Others(q, 0) = {}
      BY DEF Others
    <2> QED  BY <2>1, LastOtherIs
  <1>2. ASSUME NEW k \in Nat, k \in T PROVE k + 1 \in T
    <2>1. k + 1 \in Nat \ {0} /\ (k + 1) - 1 = k
      OBVIOUS
    <2> QED  BY <1>2, <2>1, ColonStep
  <1> HIDE DEF T
  <1>3. \A k \in Nat : k \in T
    <2>1. 0 \in T
      BY <1>1 DEF T
    <2> QED  BY <1>2, <2>1, NumbersAreInductive
  <1>4. \A k \in Nat : LastOther(q, k) \in 0..k
    BY <1>3 DEF T
  <1>5. \A k \in Nat : Colons(q, k) = k - LastOther(q, k)
    BY DEF Colons, LastOther
  <1>6. ASSUME NEW k \in Nat \ {0}
        PROVE  Colons(q, k) = IF q[k] = ":" THEN Colons(q, k - 1) + 1 ELSE 0
    <2>1. k - 1 \in Nat
      OBVIOUS
    <2> QED  BY <1>4, <1>5, <2>1, ColonStep
  <1> QED  BY <1>1, <1>4, <1>5, <1>6

(* Of a run of colons every second one opens nothing.                       *)
LEMMA OpensStep ==
    ASSUME NEW q, NEW k \in Nat \ {0}, q[k] = ":"
    PROVE  Opens(q, k) <=> (k = 1 \/ ~Opens(q, k - 1))
  <1>1. Colons(q, k) = Colons(q, k - 1) + 1 /\ Colons(q, k - 1) \in Nat
    BY ColonsCount
  <1>2. CASE k = 1
    BY <1>1, <1>2, ColonsCount DEF Opens
  <1>3. CASE k # 1 /\ q[k - 1] # ":"
    <2>1. Colons(q, k - 1) = 0
      BY <1>3, ColonsCount
    <2> QED  BY <1>1, <1>3, <2>1 DEF Opens
  <1>4. CASE k # 1 /\ q[k - 1] = ":"
    BY <1>1, <1>4 DEF Opens
  <1> QED  BY <1>2, <1>3, <1>4

-----------------------------------------------------------------------------
(* Names: where one goes on, where none is, and where one ends.             *)
LEMMA NoColonInName == ~NameByte(":") /\ ~NameByte("other")
  BY DEF NameByte, allowedBindRune

LEMMA NameStays ==
    ASSUME NEW q, NEW o \in Nat \ {0}, NEW k \in Nat,
           OpensName(q, o), o < k, k - 1 = o \/ InNameOf(q, o, k - 1), NameByte(q[k])
    PROVE  InNameOf(q, o, k) /\ InAName(q, k)
  BY DEF InNameOf, InAName

LEMMA NoName ==
    ASSUME NEW q, NEW k \in Nat \ {0},
           \/ ~NameByte(q[k])
           \/ k = 1
           \/ ~OpensName(q, k - 1) /\ ~InAName(q, k - 1)
    PROVE  ~InAName(q, k)
  <1> SUFFICES ASSUME NEW o \in 1..k, InNameOf(q, o, k) PROVE FALSE
    BY DEF InAName
  <1>1. OpensName(q, o) /\ o < k /\ \A m \in o + 1..k : NameByte(q[m])
    BY DEF InNameOf
  <1>2. NameByte(q[k]) /\ k # 1
    BY <1>1
  <1>3. o = k - 1 \/ (o \in 1..k - 1 /\ InNameOf(q, o, k - 1))
    BY <1>1 DEF InNameOf
  <1> QED  BY <1>1, <1>2, <1>3 DEF InAName

LEMMA NameEndsAt ==
    ASSUME NEW q, Len(q) \in Nat, NEW o \in 1..Len(q), NEW e \in o..Len(q),
           o = e \/ InNameOf(q, o, e), OpensName(q, o),
           e = Len(q) \/ ~NameByte(q[e + 1])
    PROVE  NameAt(q, o) = SubSeq(q, o + 1, e)
  <1> DEFINE IsEnd(x) == /\ \A k \in o + 1..x : InNameOf(q, o, k)
                         /\ x = Len(q) \/ ~InNameOf(q, o, x + 1)
  <1>1. IsEnd(e)
    <2>1. ASSUME NEW k \in o + 1..e PROVE InNameOf(q, o, k)
      BY DEF InNameOf
    <2>2. e = Len(q) \/ ~InNameOf(q, o, e + 1)
      BY DEF InNameOf
    <2> QED  BY <2>1, <2>2
  <1>2. ASSUME NEW x \in o..Len(q), IsEnd(x) PROVE x = e
    <2>1. ~(x < e)
      <3> SUFFICES ASSUME x < e PROVE FALSE
        OBVIOUS
      <3>1. x + 1 \in o + 1..e /\ x # Len(q)
        OBVIOUS
      <3> QED  BY <1>1, <1>2, <3>1
    <2>2. ~(e < x)
      <3> SUFFICES ASSUME e < x PROVE FALSE
        OBVIOUS
      <3>1. e + 1 \in o + 1..x /\ e # Len(q)
        OBVIOUS
      <3> QED  BY <1>1, <1>2, <3>1
    <2> QED  BY <2>1, <2>2
  <1>3. NameEnd(q, o) = CHOOSE x \in o..Len(q) : IsEnd(x)
    BY DEF NameEnd
  <1> HIDE DEF IsEnd
  <1>4. NameEnd(q, o) = e
    BY <1>1, <1>2, <1>3
  <1> QED  BY <1>4 DEF NameAt

-----------------------------------------------------------------------------
(* Type correctness: as many names as placeholders.                         *)
NameBytes == {"letter", "mark"}

LEMMA OneMore ==
    ASSUME NEW r \in Texts, NEW x \in Symbols
    PROVE  /\ Append(r, x) \in Texts /\ IsFiniteSet(Placeholders(r))
           /\ Cardinality(Placeholders(r)) \in Nat
           /\ Cardinality(Placeholders(Append(r, x))) =
                Cardinality(Placeholders(r)) + (IF x = "?" THEN 1 ELSE 0)
  <1>1. /\ Append(r, x) \in Texts /\ DOMAIN r = 1..Len(r) /\ Len(r) \in Nat
        /\ DOMAIN Append(r, x) = 1..Len(r) + 1 /\ Append(r, x)[Len(r) + 1] = x
        /\ \A k \in 1..Len(r) : Append(r, x)[k] = r[k]
    BY AppendProperties, LenProperties DEF Texts
  <1>2. IsFiniteSet(Placeholders(r))
    <2>1. IsFiniteSet(1..Len(r)) /\ Placeholders(r) \subseteq 1..Len(r)
      BY <1>1, FS_Interval DEF Placeholders
    <2> QED  BY <2>1, FS_Subset
  <1>3. Placeholders(Append(r, x)) =
          IF x = "?" THEN Placeholders(r) \cup {Len(r) + 1} ELSE Placeholders(r)
    BY <1>1 DEF Placeholders
  <1>4. Len(r) + 1 \notin Placeholders(r)
    BY <1>1 DEF Placeholders
  <1>5. Cardinality(Placeholders(r)) \in Nat
    BY <1>2, FS_CardinalityType
  <1>6. CASE x = "?"
    <2>1. PICK l : l = Len(r) + 1
      OBVIOUS
    <2>2. Placeholders(Append(r, x)) = Placeholders(r) \cup {l} /\ l \notin Placeholders(r)
      BY <1>3, <1>4, <1>6, <2>1
    <2>3. Cardinality(Placeholders(Append(r, x))) = Cardinality(Placeholders(r)) + 1
      BY <1>2, <2>2, FS_AddElement
    <2> QED  BY <1>1, <1>2, <1>5, <1>6, <2>3
  <1>7. CASE x # "?"
    BY <1>1, <1>2, <1>3, <1>5, <1>7
  <1> QED  BY <1>6, <1>7

LEMMA TypeInit == Init => TypeOK
  <1> SUFFICES ASSUME Init PROVE TypeOK
    OBVIOUS
  <1>1. PICK n \in 0..MaxLength : qs \in [1..n -> Bytes]
    BY DEF Init
  <1>2. qs \in Seq(Bytes) /\ i \in 1..last + 1
    <2>1. qs \in Seq(Bytes) /\ Len(qs) = n /\ n \in Nat
      BY <1>1, MaxLengthAssumption
    <2> QED  BY <2>1 DEF Init, last
  <1>3. Cardinality(Placeholders(rebound)) = 0
    <2>1. Len(rebound) = 0 /\ DOMAIN rebound = 1..Len(rebound)
      BY EmptySeq, LenProperties DEF Init
    <2>2. Placeholders(rebound) = {}
      BY <2>1 DEF Placeholders
    <2> QED  BY <2>2, FS_EmptySet
  <1>4. /\ name \in Seq({"letter", "mark"}) /\ rebound \in Seq(Bytes \cup {"?"})
        /\ names \in Seq(Seq({"letter", "mark"})) /\ Len(names) = 0
    BY EmptySeq DEF Init
  <1> QED  BY <1>1, <1>2, <1>3, <1>4 DEF Init, TypeOK

LEMMA BytesRead ==
    ASSUME TypeOK, Running
    PROVE  /\ b \in Bytes /\ last \in Nat /\ Len(qs) = last /\ i \in 1..last
           /\ NameByte(b) => b \in NameBytes
  <1>1. i \in 1..Len(qs) /\ Len(qs) \in Nat
    <2>1. qs \in Seq(Bytes) /\ i \in 1..Len(qs) + 1 /\ i <= Len(qs)
      BY DEF TypeOK, Running, last
    <2> QED  BY <2>1, LenProperties
  <1>2. qs[i] \in Bytes
    BY <1>1, ElementOfSeq DEF TypeOK
  <1> QED  BY <1>1, <1>2 DEF b, last, NameBytes, NameByte, allowedBindRune

LEMMA TypeStep == TypeOK /\ [Next]_vars => TypeOK'
  <1> SUFFICES ASSUME TypeOK, [Next]_vars PROVE TypeOK'
    OBVIOUS
  <1> DEFINE RestOK == /\ qs \in Seq(Bytes) /\ i \in 1..last + 1 /\ inName \in BOOLEAN
                       /\ err \in {"none", "unnamed", "unexpected"}
             NameOK == name \in Seq(NameBytes)
             CountOK == /\ rebound \in Texts /\ names \in Seq(Seq(NameBytes))
                        /\ Len(names) = Cardinality(Placeholders(rebound))
  <1>0. TypeOK <=> RestOK /\ NameOK /\ CountOK
    BY DEF TypeOK, NameBytes, Texts, Symbols
  <1>1. TypeOK' <=> RestOK' /\ NameOK' /\ CountOK'
    BY DEF TypeOK, NameBytes, Texts, Symbols
  <1>a. ASSUME Running, qs' = qs, i' = i + 1, inName' \in BOOLEAN, err' = err
        PROVE  RestOK'
    <2>1. i \in 1..last /\ last \in Nat /\ last' = last
      BY <1>a, BytesRead DEF last
    <2>2. i' \in 1..last' + 1
      BY <1>a, <2>1
    <2> QED  BY <1>0, <1>a, <2>2
  <1>2. CASE Escape
    <2>1. RestOK' /\ NameOK'
      BY <1>0, <1>2, <1>a DEF Escape
    <2>2. CountOK'
      <3>1. ":" \in Symbols /\ ":" # "?"
        BY DEF Bytes, Symbols
      <3>2. PICK r : r = Append(rebound, ":")
        OBVIOUS
      <3>3. r \in Texts /\ Cardinality(Placeholders(r)) = Len(names)
        BY <1>0, <3>1, <3>2, OneMore
      <3> QED  BY <1>0, <1>2, <3>2, <3>3 DEF Escape
    <2> QED  BY <1>1, <2>1, <2>2
  <1>3. CASE Unexpected
    BY <1>0, <1>1, <1>3 DEF Unexpected, Rejected, last
  <1>4. CASE NameStarts
    <2>1. RestOK' /\ CountOK'
      BY <1>0, <1>4, <1>a DEF NameStarts
    <2>2. NameOK'
      BY <1>4, EmptySeq DEF NameStarts
    <2> QED  BY <1>1, <2>1, <2>2
  <1>5. CASE NameGoesOn
    <2>1. RestOK' /\ CountOK'
      BY <1>0, <1>5, <1>a DEF NameGoesOn
    <2>2. NameOK'
      <3>1. b \in NameBytes
        BY <1>5, BytesRead DEF NameGoesOn
      <3> QED  BY <1>0, <1>5, <3>1, AppendProperties DEF NameGoesOn
    <2> QED  BY <1>1, <2>1, <2>2
  <1>6. CASE NameEnds
    <2>1. RestOK'
      BY <1>6, <1>a DEF NameEnds
    <2>2. PICK n : n = name'
      OBVIOUS
    <2>3. n \in Seq(NameBytes)
      <3>1. LastInName => b \in NameBytes
        BY <1>6, BytesRead DEF NameEnds, LastInName, NameByte
      <3> QED  BY <1>0, <1>6, <2>2, <3>1, AppendProperties DEF NameEnds
    <2>4. names' \in Seq(Seq(NameBytes)) /\ Len(names') = Len(names) + 1
      <3>1. names' = Append(names, n)
        BY <1>6, <2>2 DEF NameEnds
      <3> QED  BY <1>0, <2>3, <3>1, AppendProperties
    <2>5. PICK r : r = Append(rebound, "?")
      OBVIOUS
    <2>6. r \in Texts /\ Cardinality(Placeholders(r)) = Len(names) + 1
      <3>1. "?" \in Symbols
        BY DEF Symbols
      <3> QED  BY <1>0, <2>5, <3>1, OneMore
    <2>7. rebound' = IF LastInName THEN r ELSE Append(r, b)
      BY <1>6, <2>5 DEF NameEnds
    <2>8. CountOK'
      <3>1. b \in Bytes
        BY <1>6, BytesRead DEF NameEnds
      <3>2. b \in Symbols /\ b # "?"
        BY <3>1 DEF Bytes, Symbols
      <3> QED  BY <1>0, <2>4, <2>6, <2>7, <3>2, OneMore
    <2> QED  BY <1>1, <2>1, <2>2, <2>3, <2>8
  <1>7. CASE Copy
    <2>1. RestOK' /\ NameOK'
      BY <1>0, <1>7, <1>a DEF Copy
    <2>2. CountOK'
      <3>1. b \in Bytes
        BY <1>7, BytesRead DEF Copy
      <3>2. b \in Symbols /\ b # "?"
        BY <3>1 DEF Bytes, Symbols
      <3> QED  BY <1>0, <1>7, <3>2, OneMore DEF Copy
    <2> QED  BY <1>1, <2>1, <2>2
  <1>8. CASE UNCHANGED vars
    BY <1>0, <1>1, <1>8 DEF vars, last
  <1> QED  BY <1>2, <1>3, <1>4, <1>5, <1>6, <1>7, <1>8 DEF Next

-----------------------------------------------------------------------------
(* The inductive invariant, by what the loop is in after the bytes it has   *)
(* read: in no name, just after the colon that may open one, or in a name.  *)
read == i - 1
opened == read - Len(name)

OutsideOK ==
    ~inName =>
        /\ i <= last \/ EndsClean =>
             rebound = Statement(qs)[read] /\ names = NamesOf(qs)[read]
        /\ i <= last /\ 0 < read => ~Opens(qs, read) /\ ~InAName(qs, read)
OpenedOK ==
    inName /\ name = <<>> =>
        /\ 0 < read /\ Opens(qs, read)
        /\ rebound = Statement(qs)[read - 1] /\ names = NamesOf(qs)[read - 1]
InNameOK ==
    inName /\ name # <<>> =>
        /\ 0 < opened /\ i <= last /\ InNameOf(qs, opened, read)
        /\ name = SubSeq(qs, opened + 1, read)
        /\ Statement(qs)[read] = Append(rebound, "?")
        /\ NamesOf(qs)[read] = Append(names, NameAt(qs, opened))
ColonsOK == \A k \in 2..read : qs[k] = ":" => ~InAName(qs, k - 1)
RejectedOK == err = "unexpected" => Malformed(qs)

Compiling == OutsideOK /\ OpenedOK /\ InNameOK /\ ColonsOK /\ RejectedOK

(* What one more byte adds to the meaning.                                  *)
LEMMA ByteMeans ==
    ASSUME NEW q \in Seq(Bytes), NEW n \in 1..Len(q)
    PROVE  LET S == Statement(q)
               N == NamesOf(q)
           IN  /\ OpensName(q, n) =>
                     S[n] = Append(S[n - 1], "?") /\ N[n] = Append(N[n - 1], NameAt(q, n))
               /\ ~OpensName(q, n) => N[n] = N[n - 1]
               /\ q[n] = ":" /\ ~Opens(q, n) => S[n] = Append(S[n - 1], ":")
               /\ q[n] = ":" /\ Opens(q, n) /\ ~OpensName(q, n) => S[n] = S[n - 1]
               /\ q[n] # ":" /\ InAName(q, n) => S[n] = S[n - 1]
               /\ q[n] # ":" /\ ~InAName(q, n) => S[n] = Append(S[n - 1], q[n])
  <1>1. q[n] \in Symbols /\ ":" \in Symbols /\ "?" \in Symbols
    BY ElementOfSeq DEF Bytes, Symbols
  <1>2. q[n] # ":" => ~OpensName(q, n)
    BY DEF OpensName, Opens
  <1>3. /\ OpensName(q, n) => Token(q, n) = <<"?">>
        /\ q[n] = ":" /\ ~Opens(q, n) => Token(q, n) = <<":">>
        /\ q[n] = ":" /\ Opens(q, n) /\ ~OpensName(q, n) => Token(q, n) = <<>>
        /\ q[n] # ":" /\ InAName(q, n) => Token(q, n) = <<>>
        /\ q[n] # ":" /\ ~InAName(q, n) => Token(q, n) = <<q[n]>>
    BY <1>2 DEF Token, OpensName
  <1> QED  BY <1>1, <1>3, StatementStep, NamesStep

(* Where the loop is when it reads a byte.                                  *)
LEMMA Reads ==
    ASSUME TypeOK, Running
    PROVE  /\ qs \in Seq(Bytes) /\ last = Len(qs) /\ last \in Nat /\ b = qs[i]
           /\ i \in 1..Len(qs) /\ read = i - 1 /\ read \in Nat /\ read + 1 = i
           /\ Len(name) \in Nat /\ (Len(name) = 0 <=> name = <<>>)
  <1>1. qs \in Seq(Bytes) /\ name \in Seq({"letter", "mark"})
    BY DEF TypeOK
  <1> QED  BY <1>1, BytesRead, LenProperties, EmptySeq DEF last, b, read

(* One more byte, when it is no colon that follows a name.                  *)
LEMMA ColonsNext ==
    ASSUME TypeOK, Running, ColonsOK, qs' = qs, i' = i + 1,
           b = ":" /\ 0 < read => ~InAName(qs, read)
    PROVE  ColonsOK'
  <1>1. read' = read + 1 /\ read + 1 = i /\ read \in Nat /\ b = qs[i]
    BY Reads DEF read
  <1> SUFFICES ASSUME NEW k \in 2..read + 1, qs[k] = ":" PROVE ~InAName(qs, k - 1)
    BY <1>1 DEF ColonsOK
  <1>2. CASE k \in 2..read
    BY <1>2 DEF ColonsOK
  <1>3. CASE k = i /\ 0 < read
    BY <1>1, <1>3
  <1> QED  BY <1>1, <1>2, <1>3

LEMMA EscapeStep == TypeOK /\ Compiling /\ Escape => Compiling'
  <1> SUFFICES ASSUME TypeOK, Compiling, Escape PROVE Compiling'
    OBVIOUS
  <1>1. /\ Running /\ qs[i] = ":" /\ inName /\ qs[read] = ":" /\ ~inName' /\ qs' = qs
        /\ rebound' = Append(rebound, ":") /\ names' = names /\ i' = i + 1 /\ err' = err
    BY DEF Escape, b, read
  <1>2. name = <<>>
    <2> SUFFICES ASSUME name # <<>> PROVE FALSE
      OBVIOUS
    <2>1. InNameOf(qs, opened, read) /\ opened = read - Len(name)
      BY <1>1 DEF Compiling, InNameOK, opened
    <2>2. read \in opened + 1..read
      BY <2>1, <1>1, Reads
    <2>3. NameByte(qs[read])
      BY <2>1, <2>2 DEF InNameOf
    <2> QED  BY <1>1, <2>3, NoColonInName
  <1>3. /\ 0 < read /\ Opens(qs, read)
        /\ rebound = Statement(qs)[read - 1] /\ names = NamesOf(qs)[read - 1]
    BY <1>1, <1>2 DEF Compiling, OpenedOK
  <1>4. ~OpensName(qs, read) /\ ~Opens(qs, i) /\ ~OpensName(qs, i)
    <2>1. read < Len(qs) /\ read + 1 = i /\ read = i - 1 /\ i \in Nat \ {0} /\ i # 1
      BY <1>1, <1>3, Reads
    <2>2. ~OpensName(qs, read)
      BY <1>1, <2>1 DEF OpensName
    <2>3. ~Opens(qs, i)
      BY <1>1, <1>3, <2>1, OpensStep
    <2> QED  BY <2>2, <2>3 DEF OpensName
  <1>5. rebound = Statement(qs)[read] /\ names = NamesOf(qs)[read]
    <2>1. qs \in Seq(Bytes) /\ read \in 1..Len(qs)
      BY <1>1, <1>3, Reads
    <2> QED  BY <1>1, <1>3, <1>4, <2>1, ByteMeans
  <1>6. rebound' = Statement(qs)[i] /\ names' = NamesOf(qs)[i]
    BY <1>1, <1>4, <1>5, Reads, ByteMeans
  <1>7. ~InAName(qs, read) /\ ~InAName(qs, i)
    BY <1>1, <1>3, Reads, NoColonInName, NoName
  <1>8. ColonsOK'
    BY <1>1, <1>7, ColonsNext DEF Compiling
  <1>9. OutsideOK'
    BY <1>1, <1>4, <1>6, <1>7, Reads DEF OutsideOK, read
  <1> QED  BY <1>1, <1>8, <1>9 DEF Compiling, OpenedOK, InNameOK, RejectedOK

LEMMA UnexpectedStep == TypeOK /\ Compiling /\ Unexpected => Compiling'
  <1> SUFFICES ASSUME TypeOK, Compiling, Unexpected PROVE Compiling'
    OBVIOUS
  <1>1. /\ Running /\ qs[i] = ":" /\ inName /\ qs[read] # ":" /\ qs' = qs
        /\ UNCHANGED <<i, inName, name, rebound, names>>
    BY DEF Unexpected, Rejected, b, read
  <1>2. name # <<>>
    BY <1>1 DEF Compiling, OpenedOK, Opens
  <1>3. 0 < opened /\ InNameOf(qs, opened, read)
    BY <1>1, <1>2 DEF Compiling, InNameOK
  <1>4. InAName(qs, i - 1) /\ i \in 2..Len(qs)
    BY <1>1, <1>3, Reads DEF InAName, InNameOf, opened
  <1>5. RejectedOK'
    BY <1>1, <1>4 DEF RejectedOK, Malformed
  <1>6. OutsideOK' /\ OpenedOK' /\ InNameOK' /\ ColonsOK'
    BY <1>1 DEF Compiling, OutsideOK, OpenedOK, InNameOK, ColonsOK, read, opened, last, EndsClean
  <1> QED  BY <1>5, <1>6 DEF Compiling

LEMMA NameStartsStep == TypeOK /\ Compiling /\ NameStarts => Compiling'
  <1> SUFFICES ASSUME TypeOK, Compiling, NameStarts PROVE Compiling'
    OBVIOUS
  <1>1. /\ Running /\ qs[i] = ":" /\ ~inName /\ inName' /\ name' = <<>> /\ qs' = qs
        /\ rebound' = rebound /\ names' = names /\ i' = i + 1 /\ err' = err
    BY DEF NameStarts, b
  <1>2. /\ rebound = Statement(qs)[read] /\ names = NamesOf(qs)[read]
        /\ 0 < read => ~Opens(qs, read) /\ ~InAName(qs, read)
    BY <1>1, Reads DEF Compiling, OutsideOK
  <1>3. Opens(qs, i)
    BY <1>1, <1>2, Reads, OpensStep
  <1>4. ColonsOK'
    BY <1>1, <1>2, ColonsNext DEF Compiling
  <1>5. OpenedOK'
    BY <1>1, <1>2, <1>3, Reads DEF OpenedOK, read
  <1> QED  BY <1>1, <1>4, <1>5 DEF Compiling, OutsideOK, InNameOK, RejectedOK

LEMMA CopyStep == TypeOK /\ Compiling /\ Copy => Compiling'
  <1> SUFFICES ASSUME TypeOK, Compiling, Copy PROVE Compiling'
    OBVIOUS
  <1>1. /\ Running /\ qs[i] # ":" /\ ~inName /\ ~inName' /\ qs' = qs
        /\ rebound' = Append(rebound, qs[i]) /\ names' = names /\ i' = i + 1 /\ err' = err
    BY DEF Copy, b
  <1>2. /\ rebound = Statement(qs)[read] /\ names = NamesOf(qs)[read]
        /\ 0 < read => ~Opens(qs, read) /\ ~InAName(qs, read)
    BY <1>1, Reads DEF Compiling, OutsideOK
  <1>3. ~Opens(qs, i) /\ ~OpensName(qs, i)
    BY <1>1 DEF Opens, OpensName
  <1>4. ~InAName(qs, i)
    BY <1>1, <1>2, Reads, NoName DEF OpensName
  <1>5. rebound' = Statement(qs)[i] /\ names' = NamesOf(qs)[i]
    BY <1>1, <1>2, <1>3, <1>4, Reads, ByteMeans
  <1>6. ColonsOK'
    BY <1>1, <1>2, ColonsNext DEF Compiling
  <1>7. OutsideOK'
    BY <1>1, <1>3, <1>4, <1>5, Reads DEF OutsideOK, read
  <1> QED  BY <1>1, <1>6, <1>7 DEF Compiling, OpenedOK, InNameOK, RejectedOK

LEMMA OneLonger ==
    ASSUME NEW q \in Seq(Bytes), NEW o \in 0..Len(q) - 1, NEW n \in o + 1..Len(q)
    PROVE  SubSeq(q, o + 1, n) = Append(SubSeq(q, o + 1, n - 1), q[n])
  <1>1. o + 1 \in 1..Len(q) /\ n \in Nat /\ Len(q) \in Nat /\ n \in 1..Len(q)
        /\ o + 1 \in Int /\ n - 1 \in Int
    BY LenProperties
  <1>2. q[n] \in Bytes
    BY <1>1, ElementOfSeq
  <1>3. \A k \in o + 1..n - 1 : q[k] \in Bytes
    BY <1>1, ElementOfSeq
  <1>4. SubSeq(q, o + 1, n - 1) \in Seq(Bytes)
    BY <1>1, <1>3, SubSeqProperties
  <1> QED  BY <1>1, <1>2, <1>4, SubSeqRecursiveSecond, AppendIsConcat

(* The name the loop is in, empty or not: where it opened, and what the     *)
(* bytes read so far mean when the next one is no colon.                    *)
LEMMA TheName ==
    ASSUME TypeOK, Compiling, Running, inName, b # ":"
    PROVE  /\ opened \in 1..read /\ OpensName(qs, opened)
           /\ opened = read \/ InNameOf(qs, opened, read)
           /\ name = SubSeq(qs, opened + 1, read)
           /\ Statement(qs)[read] = Append(rebound, "?")
           /\ NamesOf(qs)[read] = Append(names, NameAt(qs, opened))
  <1>1. CASE name = <<>>
    <2>1. /\ 0 < read /\ Opens(qs, read)
          /\ rebound = Statement(qs)[read - 1] /\ names = NamesOf(qs)[read - 1]
      BY <1>1 DEF Compiling, OpenedOK
    <2>2. opened = read /\ read \in 1..Len(qs) /\ read + 1 = i /\ qs[i] # ":" /\ read \in Int
      BY <1>1, <2>1, Reads DEF opened
    <2>3. OpensName(qs, read)
      BY <2>1, <2>2 DEF OpensName
    <2>4. SubSeq(qs, read + 1, read) = <<>>
      BY <2>2, SubSeqEmpty
    <2>5. /\ Statement(qs)[read] = Append(rebound, "?")
          /\ NamesOf(qs)[read] = Append(names, NameAt(qs, read))
      BY <2>1, <2>2, <2>3, Reads, ByteMeans
    <2>6. opened \in 1..read
      BY <2>2
    <2> QED  BY <1>1, <2>2, <2>3, <2>4, <2>5, <2>6
  <1>2. CASE name # <<>>
    <2>1. /\ 0 < opened /\ InNameOf(qs, opened, read)
          /\ name = SubSeq(qs, opened + 1, read)
          /\ Statement(qs)[read] = Append(rebound, "?")
          /\ NamesOf(qs)[read] = Append(names, NameAt(qs, opened))
      BY <1>2 DEF Compiling, InNameOK
    <2>2. opened \in 1..read
      BY <2>1, Reads, SMTT(30) DEF opened
    <2> QED  BY <2>1, <2>2 DEF InNameOf
  <1> QED  BY <1>1, <1>2

(* A byte of the name, read as such.                                        *)
LEMMA OfTheName ==
    ASSUME TypeOK, Compiling, Running, inName, b # ":", NameByte(b)
    PROVE  /\ InNameOf(qs, opened, i) /\ InAName(qs, i) /\ ~Opens(qs, i)
           /\ Append(name, b) = SubSeq(qs, opened + 1, i)
           /\ Statement(qs)[i] = Append(rebound, "?")
           /\ NamesOf(qs)[i] = Append(names, NameAt(qs, opened))
  <1>1. /\ i \in 1..Len(qs) /\ read = i - 1 /\ i \in Nat /\ opened \in Nat \ {0} /\ opened < i
        /\ opened \in 0..Len(qs) - 1 /\ i \in opened + 1..Len(qs) /\ qs[i] = b
    BY TheName, Reads, SMTT(30)
  <1>2. InNameOf(qs, opened, i) /\ InAName(qs, i)
    BY <1>1, TheName, NameStays
  <1>3. ~Opens(qs, i) /\ ~OpensName(qs, i)
    BY <1>1 DEF Opens, OpensName
  <1>4. Append(name, b) = SubSeq(qs, opened + 1, i)
    BY <1>1, TheName, Reads, OneLonger
  <1>5. /\ Statement(qs)[i] = Statement(qs)[read]
        /\ NamesOf(qs)[i] = NamesOf(qs)[read]
    BY <1>1, <1>2, <1>3, Reads, ByteMeans
  <1> QED  BY <1>2, <1>3, <1>4, <1>5, TheName

LEMMA NameGoesOnStep == TypeOK /\ Compiling /\ NameGoesOn => Compiling'
  <1> SUFFICES ASSUME TypeOK, Compiling, NameGoesOn PROVE Compiling'
    OBVIOUS
  <1>1. /\ Running /\ b # ":" /\ inName /\ inName' /\ NameByte(b) /\ i # last
        /\ name' = Append(name, b) /\ qs' = qs /\ i' = i + 1 /\ err' = err
        /\ rebound' = rebound /\ names' = names
    BY DEF NameGoesOn
  <1>2. name' # <<>> /\ Len(name') = Len(name) + 1
    <2>1. name \in Seq({"letter", "mark"}) /\ b \in {"letter", "mark"}
      BY <1>1, BytesRead DEF TypeOK, NameBytes, Bytes
    <2> QED  BY <1>1, <2>1, AppendProperties
  <1>3. opened' = opened /\ read' = i /\ 0 < opened /\ i' <= last'
    <2>1. /\ 0 < opened /\ i \in 1..Len(qs) /\ last = Len(qs) /\ last \in Nat
          /\ opened \in 1..read /\ Len(name) \in Nat /\ i # last
      BY <1>1, Reads, TheName
    <2>2. opened = i - 1 - Len(name)
      BY DEF opened, read
    <2>3. opened' = i' - 1 - Len(name') /\ read' = i' - 1 /\ last' = Len(qs')
      BY DEF opened, read, last
    <2> QED  BY <1>1, <1>2, <2>1, <2>2, <2>3
  <1>4. InNameOK'
    BY <1>1, <1>3, OfTheName DEF InNameOK
  <1>5. ColonsOK'
    BY <1>1, ColonsNext DEF Compiling
  <1> QED  BY <1>1, <1>2, <1>4, <1>5 DEF Compiling, OutsideOK, OpenedOK, RejectedOK

LEMMA NameEndsStep == TypeOK /\ Compiling /\ NameEnds => Compiling'
  <1> SUFFICES ASSUME TypeOK, Compiling, NameEnds PROVE Compiling'
    OBVIOUS
  <1>1. /\ Running /\ b # ":" /\ inName /\ ~inName' /\ ~(NameByte(b) /\ i # last)
        /\ qs' = qs /\ i' = i + 1 /\ err' = err /\ names' = Append(names, name')
        /\ name' = IF LastInName THEN Append(name, b) ELSE name
        /\ rebound' = IF LastInName THEN Append(rebound, "?") ELSE Append(Append(rebound, "?"), b)
    BY DEF NameEnds
  <1>2. /\ i \in 1..Len(qs) /\ read = i - 1 /\ read + 1 = i /\ last = Len(qs) /\ Len(qs) \in Nat
        /\ opened \in 1..Len(qs) /\ i \in opened..Len(qs) /\ read \in opened..Len(qs)
        /\ qs[i] = b /\ i \in Nat \ {0} /\ read' = i /\ last' = last
    <2>1. /\ opened \in 1..read /\ i \in 1..Len(qs) /\ read = i - 1 /\ last = Len(qs)
          /\ Len(qs) \in Nat /\ qs[i] = b
      BY <1>1, TheName, Reads
    <2>2. read' = i' - 1 /\ last' = Len(qs')
      BY DEF read, last
    <2> QED  BY <1>1, <2>1, <2>2
  <1>3. ColonsOK'
    BY <1>1, ColonsNext DEF Compiling
  <1>4. CASE LastInName
    <2>1. NameByte(b) /\ i = Len(qs)
      BY <1>2, <1>4 DEF LastInName, NameByte
    <2>2. NameAt(qs, opened) = name'
      BY <1>1, <1>2, <1>4, <2>1, OfTheName, TheName, NameEndsAt
    <2>3. rebound' = Statement(qs)[i] /\ names' = NamesOf(qs)[i]
      BY <1>1, <1>4, <2>1, <2>2, OfTheName
    <2>4. OutsideOK'
      <3>1. ~(i' <= last')
        BY <1>1, <1>2, <2>1
      <3>2. rebound' = Statement(qs')[read'] /\ names' = NamesOf(qs')[read']
        BY <1>1, <1>2, <2>3
      <3> QED  BY <3>1, <3>2 DEF OutsideOK
    <2> QED  BY <1>1, <1>3, <2>4 DEF Compiling, OpenedOK, InNameOK, RejectedOK
  <1>5. CASE ~LastInName /\ NameByte(b)
    <2>1. i = last /\ qs[last] = "mark" /\ InAName(qs, last)
      BY <1>1, <1>2, <1>5, OfTheName DEF LastInName, NameByte
    <2>2. ~EndsClean'
      BY <1>1, <1>2, <2>1 DEF EndsClean
    <2>3. OutsideOK'
      BY <1>1, <1>2, <2>1, <2>2 DEF OutsideOK
    <2> QED  BY <1>1, <1>3, <2>3 DEF Compiling, OpenedOK, InNameOK, RejectedOK
  <1>6. CASE ~NameByte(b)
    <2>1. ~LastInName
      BY <1>6 DEF LastInName, NameByte
    <2>2. ~InAName(qs, i) /\ ~Opens(qs, i) /\ ~OpensName(qs, i)
      BY <1>1, <1>2, <1>6, NoName DEF Opens, OpensName
    <2>3. NameAt(qs, opened) = name
      BY <1>1, <1>2, <1>6, TheName, NameEndsAt
    <2>4. Statement(qs)[i] = Append(Statement(qs)[read], b) /\ NamesOf(qs)[i] = NamesOf(qs)[read]
      BY <1>1, <1>2, <2>2, Reads, ByteMeans
    <2>5. rebound' = Statement(qs)[i] /\ names' = NamesOf(qs)[i]
      BY <1>1, <2>1, <2>3, <2>4, TheName
    <2>6. OutsideOK'
      BY <1>1, <1>2, <2>2, <2>5 DEF OutsideOK
    <2> QED  BY <1>1, <1>3, <2>6 DEF Compiling, OpenedOK, InNameOK, RejectedOK
  <1> QED  BY <1>4, <1>5, <1>6

-----------------------------------------------------------------------------
LEMMA CompilingInit == Init => Compiling
  <1> SUFFICES ASSUME Init PROVE Compiling
    OBVIOUS
  <1>1. /\ read = 0 /\ ~inName /\ rebound = <<>> /\ names = <<>> /\ err # "unexpected"
        /\ qs \in Seq(Bytes)
    BY TypeInit DEF Init, read, TypeOK
  <1>2. rebound = Statement(qs)[read] /\ names = NamesOf(qs)[read]
    BY <1>1, StatementStep, NamesStep
  <1> QED  BY <1>1, <1>2 DEF Compiling, OutsideOK, OpenedOK, InNameOK, ColonsOK, RejectedOK

LEMMA CompilingStep == TypeOK /\ Compiling /\ [Next]_vars => Compiling'
  <1> SUFFICES ASSUME TypeOK, Compiling, UNCHANGED vars PROVE Compiling'
    BY EscapeStep, UnexpectedStep, NameStartsStep, NameGoesOnStep, NameEndsStep, CopyStep
       DEF Next
  <1>1. UNCHANGED <<qs, i, inName, name, rebound, names, err>>
    BY DEF vars
  <1> QED  BY <1>1 DEF Compiling, OutsideOK, OpenedOK, InNameOK, ColonsOK, RejectedOK,
                       read, opened, last, EndsClean

LEMMA CompilingFinal == TypeOK /\ Compiling => CompilesToMeaning /\ RejectsMalformed
  <1> SUFFICES ASSUME TypeOK, Compiling PROVE CompilesToMeaning /\ RejectsMalformed
    OBVIOUS
  <1>1. qs \in Seq(Bytes) /\ i \in 1..last + 1 /\ last \in Nat /\ last = Len(qs)
    BY LenProperties DEF TypeOK, last
  <1>2. ASSUME Compiled PROVE i = last + 1 /\ read = last
    BY <1>1, <1>2 DEF Compiled, read
  <1>3. ASSUME Compiled, EndsClean PROVE ~inName
    <2> SUFFICES ASSUME inName PROVE FALSE
      OBVIOUS
    <2>1. name = <<>>
      BY <1>1, <1>2, <1>3 DEF Compiling, InNameOK
    <2>2. 0 < last /\ Opens(qs, last)
      BY <1>2, <1>3, <2>1 DEF Compiling, OpenedOK
    <2>3. OpensName(qs, last)
      BY <1>1, <2>2 DEF OpensName
    <2> QED  BY <1>3, <2>2, <2>3 DEF EndsClean
  <1>4. CompilesToMeaning
    BY <1>2, <1>3 DEF CompilesToMeaning, Compiling, OutsideOK
  <1>5. Compiled => ~Malformed(qs)
    BY <1>1, <1>2 DEF Compiling, ColonsOK, Malformed
  <1> QED  BY <1>4, <1>5 DEF RejectsMalformed, Compiling, RejectedOK

(* Every query leaves the loop in a state of the right kind, with as many   *)
(* names as placeholders (queryx.go, CompileNamedQuery).                    *)
THEOREM TypeCorrect == Spec => []TypeOK
  <1>1. Init => TypeOK
    BY TypeInit
  <1>2. TypeOK /\ [Next]_vars => TypeOK'
    BY TypeStep
  <1> QED  BY <1>1, <1>2, PTL DEF Spec

LEMMA CompilingAlways == Spec => []Compiling
  <1>1. Init => Compiling
    BY CompilingInit
  <1>2. TypeOK /\ Compiling /\ [Next]_vars => Compiling'
    BY CompilingStep
  <1> QED  BY <1>1, <1>2, TypeCorrect, PTL DEF Spec

(* A query of any length that ends clean is compiled to the statement and   *)
(* the names it means.                                                      *)
THEOREM CompilesCorrectly == Spec => []CompilesToMeaning
  <1>1. TypeOK /\ Compiling => CompilesToMeaning
    BY CompilingFinal
  <1> QED  BY <1>1, TypeCorrect, CompilingAlways, PTL

(* A query of any length is rejected exactly if a colon follows a name.     *)
THEOREM RejectsCorrectly == Spec => []RejectsMalformed
  <1>1. TypeOK /\ Compiling => RejectsMalformed
    BY CompilingFinal
  <1> QED  BY <1>1, TypeCorrect, CompilingAlways, PTL
=============================================================================
