-------------------------- MODULE StatementsProofs --------------------------
(***************************************************************************)
(* Proofs about Statements: whatever is asked of builders and of a batch,  *)
(* in whatever order, what they write has all of it, with a name for each  *)
(* placeholder.                                                            *)
(*                                                                         *)
(* 1. What the operators on sequences that the builders are made of do to  *)
(*    one more element and to a concatenation (FlattenSeq and what is      *)
(*    gathered with it), by induction on the number of elements.           *)
(* 2. What each ToCql writes, of any builder (WellWritten).                *)
(* 3. The invariant Building: what a builder holds is what the histories   *)
(*    say, a batch holds its additions, and what was written shows it.     *)
(* 4. What each operation adds, one lemma for each action, the theorems.   *)
(***************************************************************************)
EXTENDS Statements, SequenceTheorems, WellFoundedInduction, TLAPS

-----------------------------------------------------------------------------
(* Induction.  A set of numbers that has 0 and, with each number, the next, *)
(* has all of them: what it leaves out would have a least element.          *)
Below == {p \in Nat \X Nat : p[1] < p[2]}

LEMMA NumbersAreInductive ==
    ASSUME NEW T, 0 \in T, \A n \in Nat : n \in T => n + 1 \in T
    PROVE  \A n \in Nat : n \in T
  <1> SUFFICES ASSUME Nat \ T # {} PROVE FALSE
    OBVIOUS
  <1>1. IsWellFoundedOn(Below, Nat)
    BY NatLessThanWellFounded DEF OpToRel, Below
  <1>2. PICK n \in Nat \ T : \A m \in Nat \ T : ~ (<<m, n>> \in Below)
    BY <1>1, WFMin
  <1>3. n # 0 /\ n - 1 \in Nat
    OBVIOUS
  <1>4. n - 1 \in T
    <2>1. <<n - 1, n>> \in Below
      BY <1>3 DEF Below
    <2> QED  BY <1>2, <1>3, <2>1
  <1> QED  BY <1>3, <1>4

(* The function FlattenSeq computes, on the first n sequences of s.         *)
Flattens(f, s, n) == f = [i \in 1 .. n |-> IF i = 1 THEN s[i] ELSE f[i - 1] \o s[i]]

(* Such a function, at one place; there is one.                            *)
LEMMA FlattensAt ==
    ASSUME NEW f, NEW s, NEW n \in Nat, Flattens(f, s, n), NEW i \in 1 .. n
    PROVE  f[i] = IF i = 1 THEN s[i] ELSE f[i - 1] \o s[i]
  <1>1. PICK h : h = [k \in 1 .. n |-> IF k = 1 THEN s[k] ELSE f[k - 1] \o s[k]]
    OBVIOUS
  <1>2. h[i] = IF i = 1 THEN s[i] ELSE f[i - 1] \o s[i]
    BY <1>1
  <1> QED  BY <1>1, <1>2 DEF Flattens

LEMMA FlattenExists == ASSUME NEW s, NEW n \in Nat PROVE \E f : Flattens(f, s, n)
  <1> DEFINE T == {m \in Nat : \E f : Flattens(f, s, m)}
  <1>1. 0 \in T
    <2>1. Flattens([i \in 1 .. 0 |-> s], s, 0)
      BY DEF Flattens
    <2> QED  BY <2>1
  <1>2. ASSUME NEW m \in Nat, m \in T PROVE m + 1 \in T
    <2>1. PICK f : Flattens(f, s, m)
      BY <1>2
    <2> DEFINE g == [i \in 1 .. m + 1 |->
                       IF i = 1 THEN s[i] ELSE IF i <= m THEN f[i] ELSE f[m] \o s[i]]
    <2>2. ASSUME NEW i \in 1 .. m + 1
          PROVE  g[i] = IF i = 1 THEN s[i] ELSE g[i - 1] \o s[i]
      <3>1. \A k \in 1 .. m : f[k] = IF k = 1 THEN s[k] ELSE f[k - 1] \o s[k]
        BY <2>1, FlattensAt
      <3>2. i # 1 => i - 1 \in 1 .. m
        OBVIOUS
      <3>3. \A k \in 1 .. m : g[k] = f[k]
        BY <3>1
      <3> QED  BY <3>1, <3>2, <3>3
    <2>3. g = [i \in 1 .. m + 1 |-> g[i]]
      OBVIOUS
    <2> HIDE DEF g
    <2>4. g = [i \in 1 .. m + 1 |-> IF i = 1 THEN s[i] ELSE g[i - 1] \o s[i]]
      BY <2>2, <2>3
    <2>5. Flattens(g, s, m + 1)
      BY <2>4 DEF Flattens
    <2> QED  BY <2>5
  <1> HIDE DEF T
  <1>3. n \in T
    BY <1>1, <1>2, NumbersAreInductive
  <1> QED  BY <1>3 DEF T

(* The first n elements of t are those of s.                                *)
Continues(t, s, n) == \A i \in 1 .. n : t[i] = s[i]

(* Further sequences do not change it.                                      *)
LEMMA FlattenAgrees ==
    ASSUME NEW s, NEW t, NEW n \in Nat, NEW m \in Nat, n <= m, Continues(t, s, n),
           NEW f, Flattens(f, s, n), NEW g, Flattens(g, t, m)
    PROVE  Continues(g, f, n)
  <1> DEFINE T == {i \in Nat : i \in 1 .. n => g[i] = f[i]}
  <1>1. \A i \in 1 .. n : f[i] = IF i = 1 THEN s[i] ELSE f[i - 1] \o s[i]
    BY FlattensAt
  <1>2. \A i \in 1 .. n : g[i] = IF i = 1 THEN t[i] ELSE g[i - 1] \o t[i]
    <2>1. \A i \in 1 .. n : i \in 1 .. m
      OBVIOUS
    <2> QED  BY <2>1, FlattensAt
  <1>3. 0 \in T
    OBVIOUS
  <1>4. ASSUME NEW i \in Nat, i \in T PROVE i + 1 \in T
    BY <1>1, <1>2, <1>4 DEF Continues
  <1> HIDE DEF T
  <1>5. \A i \in Nat : i \in T
    BY <1>3, <1>4, NumbersAreInductive
  <1> QED  BY <1>5 DEF T, Continues

(* Its values are sequences of the same elements, and FlattenSeq is the    *)
(* last.                                                                   *)
LEMMA FlattenTyped ==
    ASSUME NEW S, NEW s \in Seq(Seq(S)), NEW f, Flattens(f, s, Len(s))
    PROVE  \A i \in 1 .. Len(s) : f[i] \in Seq(S)
  <1> DEFINE T == {i \in Nat : i \in 1 .. Len(s) => f[i] \in Seq(S)}
  <1>1. \A i \in 1 .. Len(s) : f[i] = IF i = 1 THEN s[i] ELSE f[i - 1] \o s[i]
    BY FlattensAt, LenProperties
  <1>2. \A i \in 1 .. Len(s) : s[i] \in Seq(S)
    BY ElementOfSeq
  <1>3. 0 \in T
    OBVIOUS
  <1>4. ASSUME NEW i \in Nat, i \in T PROVE i + 1 \in T
    <2> SUFFICES ASSUME i + 1 \in 1 .. Len(s) PROVE f[i + 1] \in Seq(S)
      OBVIOUS
    <2>1. CASE i = 0
      BY <1>1, <1>2, <2>1
    <2>2. CASE i # 0
      <3>1. i \in 1 .. Len(s) /\ i + 1 # 1 /\ (i + 1) - 1 = i
        BY <2>2, LenProperties
      <3>2. f[i] \in Seq(S) /\ s[i + 1] \in Seq(S)
        BY <1>2, <1>4, <3>1
      <3>3. f[i + 1] = f[i] \o s[i + 1]
        BY <1>1, <3>1
      <3> QED  BY <3>2, <3>3, ConcatProperties
    <2> QED  BY <2>1, <2>2
  <1> HIDE DEF T
  <1>5. \A i \in Nat : i \in T
    BY <1>3, <1>4, NumbersAreInductive
  <1> QED  BY <1>5 DEF T

LEMMA FlattenIsLast ==
    ASSUME NEW s, Len(s) \in Nat \ {0}
    PROVE  \E f : Flattens(f, s, Len(s)) /\ FlattenSeq(s) = f[Len(s)]
  <1> DEFINE f == CHOOSE f : f = [i \in 1 .. Len(s) |->
                                    IF i = 1 THEN s[i] ELSE f[i - 1] \o s[i]]
  <1>1. Flattens(f, s, Len(s))
    BY FlattenExists DEF Flattens
  <1>2. FlattenSeq(s) = f[Len(s)]
    BY DEF FlattenSeq
  <1> QED  BY <1>1, <1>2

LEMMA FlattenType == ASSUME NEW S, NEW s \in Seq(Seq(S)) PROVE FlattenSeq(s) \in Seq(S)
  <1>1. CASE Len(s) = 0
    BY <1>1, EmptySeq DEF FlattenSeq
  <1>2. CASE Len(s) # 0
    BY <1>2, FlattenIsLast, FlattenTyped, LenProperties
  <1> QED  BY <1>1, <1>2

LEMMA FlattenOfEmpty == FlattenSeq(<<>>) = <<>>
  BY EmptySeq DEF FlattenSeq

(* One more sequence at the end.                                            *)
LEMMA FlattenAppend ==
    ASSUME NEW S, NEW s \in Seq(Seq(S)), NEW x \in Seq(S)
    PROVE  FlattenSeq(Append(s, x)) = FlattenSeq(s) \o x
  <1> DEFINE t == Append(s, x)
             n == Len(s)
  <1>1. /\ t \in Seq(Seq(S)) /\ Len(t) = n + 1 /\ t[n + 1] = x /\ n \in Nat
        /\ \A i \in 1 .. n : t[i] = s[i]
    BY AppendProperties, LenProperties
  <1> HIDE DEF t
  <1>2. PICK g : Flattens(g, t, n + 1) /\ FlattenSeq(t) = g[n + 1]
    BY <1>1, FlattenIsLast, SMTT(30)
  <1>3. g[n + 1] = IF n + 1 = 1 THEN x ELSE g[n] \o x
    <2>1. n + 1 \in 1 .. n + 1 /\ n + 1 \in Nat /\ (n + 1) - 1 = n
      BY <1>1
    <2> HIDE DEF n
    <2>2. g[n + 1] = IF n + 1 = 1 THEN t[n + 1] ELSE g[(n + 1) - 1] \o t[n + 1]
      BY <1>2, <2>1, FlattensAt
    <2> QED  BY <1>1, <2>1, <2>2
  <1>4. CASE n = 0
    BY <1>2, <1>3, <1>4, EmptySeq, ConcatEmptySeq, FlattenOfEmpty DEF t
  <1>5. CASE n # 0
    <2>1. PICK f : Flattens(f, s, n) /\ FlattenSeq(s) = f[n]
      BY <1>1, <1>5, FlattenIsLast
    <2>2. g[n] = f[n]
      <3>1. PICK m \in Nat : m = n + 1 /\ n <= m
        BY <1>1
      <3>2. Flattens(g, t, m)
        BY <1>2, <3>1
      <3>3. Continues(t, s, n)
        BY <1>1 DEF Continues
      <3>4. Continues(g, f, n)
        BY <3>3, <1>1, <2>1, <3>1, <3>2, FlattenAgrees
      <3> QED  BY <1>1, <1>5, <3>4 DEF Continues
    <2> QED  BY <1>1, <1>2, <1>3, <1>5, <2>1, <2>2 DEF t
  <1> QED  BY <1>4, <1>5

(* The first n elements of a sequence, and one more.                        *)
LEMMA FirstOf ==
    ASSUME NEW S, NEW s \in Seq(S)
    PROVE  /\ SubSeq(s, 1, 0) = <<>> /\ SubSeq(s, 1, Len(s)) = s
           /\ \A n \in 0 .. Len(s) : SubSeq(s, 1, n) \in Seq(S)
           /\ \A n \in Nat : n + 1 <= Len(s) =>
                SubSeq(s, 1, n + 1) = Append(SubSeq(s, 1, n), s[n + 1])
<1>1. \A n \in 0 .. Len(s) : SubSeq(s, 1, n) \in Seq(S)
  BY SubSeqProperties, ElementOfSeq, LenProperties
<1>2. ASSUME NEW n \in Nat, n + 1 <= Len(s)
      PROVE  SubSeq(s, 1, n + 1) = Append(SubSeq(s, 1, n), s[n + 1])
  <2>1. SubSeq(s, 1, n + 1) = SubSeq(s, 1, n) \o <<s[n + 1]>>
    <3>1. PICK m \in 1 .. Len(s) : m = n + 1
      BY <1>2, LenProperties
    <3>2. m - 1 = n /\ 1 \in 1 .. Len(s) /\ m \in 1 .. Len(s)
      BY <1>2, <3>1, LenProperties
    <3>3. SubSeq(s, 1, m) = SubSeq(s, 1, m - 1) \o <<s[m]>>
      BY <3>2, SubSeqRecursiveSecond
    <3> QED  BY <3>1, <3>2, <3>3
  <2>2. SubSeq(s, 1, n) \in Seq(S) /\ s[n + 1] \in S
    BY <1>1, <1>2, LenProperties, ElementOfSeq
  <2> QED  BY <2>1, <2>2, AppendIsConcat
<1> QED  BY <1>1, <1>2, SubSeqEmpty, SubSeqFull

(* Concatenation associates, also with Append.                             *)
Associate(s, t, u) == (s \o t) \o u = s \o (t \o u)
LEMMA Associates ==
    ASSUME NEW S, NEW s \in Seq(S), NEW t \in Seq(S), NEW u \in Seq(S)
    PROVE  Associate(s, t, u)
  BY DEF Associate

LEMMA AppendMoves ==
    ASSUME NEW S, NEW s \in Seq(S), NEW t \in Seq(S), NEW x \in S
    PROVE  s \o Append(t, x) = Append(s \o t, x) /\ s \o t \in Seq(S)
  OBVIOUS

(* Flattening a concatenation is concatenating what is flattened.          *)
LEMMA FlattenStep ==
    ASSUME NEW S, NEW s \in Seq(Seq(S)), NEW f \in Seq(Seq(S)), NEW x \in Seq(S),
           FlattenSeq(s \o f) = FlattenSeq(s) \o FlattenSeq(f)
    PROVE  FlattenSeq(s \o Append(f, x)) = FlattenSeq(s) \o FlattenSeq(Append(f, x))
  <1>1. s \o Append(f, x) = Append(s \o f, x) /\ s \o f \in Seq(Seq(S))
    BY AppendMoves, Zenon
  <1>2. FlattenSeq(Append(s \o f, x)) = FlattenSeq(s \o f) \o x
    BY <1>1, FlattenAppend, Zenon
  <1>3. FlattenSeq(Append(f, x)) = FlattenSeq(f) \o x
    BY FlattenAppend, Zenon
  <1>4. (FlattenSeq(s) \o FlattenSeq(f)) \o x = FlattenSeq(s) \o (FlattenSeq(f) \o x)
    <2>1. PICK p \in Seq(S), q \in Seq(S) : p = FlattenSeq(s) /\ q = FlattenSeq(f)
      BY FlattenType
    <2>2. Associate(p, q, x)
      BY Associates
    <2> QED  BY <2>1, <2>2 DEF Associate
  <1> QED  BY <1>1, <1>2, <1>3, <1>4, Zenon

LEMMA FlattenConcat ==
    ASSUME NEW S, NEW s \in Seq(Seq(S)), NEW t \in Seq(Seq(S))
    PROVE  FlattenSeq(s \o t) = FlattenSeq(s) \o FlattenSeq(t)
  <1> DEFINE First(n) == SubSeq(t, 1, n)
             T == {n \in Nat : n <= Len(t) =>
                     FlattenSeq(s \o First(n)) = FlattenSeq(s) \o FlattenSeq(First(n))}
  <1>1. 0 \in T
    <2>1. First(0) = <<>> /\ FlattenSeq(First(0)) = <<>>
      BY FirstOf, FlattenOfEmpty
    <2>2. s \o <<>> = s /\ FlattenSeq(s) \o <<>> = FlattenSeq(s)
      BY FlattenType, ConcatEmptySeq
    <2> HIDE DEF First
    <2>3. FlattenSeq(s \o First(0)) = FlattenSeq(s) \o FlattenSeq(First(0))
      BY <2>1, <2>2, Zenon
    <2> QED  BY <2>3
  <1>2. ASSUME NEW n \in Nat, n \in T PROVE n + 1 \in T
    <2> SUFFICES ASSUME n + 1 <= Len(t)
                 PROVE  FlattenSeq(s \o First(n + 1))
                          = FlattenSeq(s) \o FlattenSeq(First(n + 1))
      OBVIOUS
    <2>1. First(n + 1) = Append(First(n), t[n + 1])
      BY FirstOf
    <2>2. First(n) \in Seq(Seq(S)) /\ t[n + 1] \in Seq(S)
      BY FirstOf, ElementOfSeq, LenProperties
    <2>3. FlattenSeq(s \o First(n)) = FlattenSeq(s) \o FlattenSeq(First(n))
      BY <1>2, LenProperties
    <2> HIDE DEF First, T
    <2>4. PICK x \in Seq(S) : x = t[n + 1]
      BY <2>2
    <2>5. PICK f \in Seq(Seq(S)) : f = First(n)
      BY <2>2
    <2> QED  BY <2>1, <2>3, <2>4, <2>5, FlattenStep, ZenonT(30)
  <1> HIDE DEF T
  <1>3. Len(t) \in T
    BY <1>1, <1>2, NumbersAreInductive, LenProperties
  <1>4. First(Len(t)) = t
    BY FirstOf
  <1> HIDE DEF First
  <1>5. FlattenSeq(s \o First(Len(t))) = FlattenSeq(s) \o FlattenSeq(First(Len(t)))
    BY <1>3, LenProperties DEF T
  <1> QED  BY <1>4, <1>5

(* Nothing but empty sequences; sequences of one element each.              *)
LEMMA FlattenOfNothing ==
    ASSUME NEW n \in Nat, NEW s, s = [i \in 1 .. n |-> <<>>] PROVE FlattenSeq(s) = <<>>
  <1>1. s \in Seq(Seq({}))
    <2>1. <<>> \in Seq({})
      OBVIOUS
    <2>2. s \in [1 .. n -> Seq({})]
      BY <2>1
    <2> QED  BY <2>2
  <1>2. FlattenSeq(s) \in Seq({})
    BY <1>1, FlattenType
  <1> QED  BY <1>2

LEMMA OneOf == ASSUME NEW S, NEW x \in S PROVE <<x>> \in Seq(S)
  OBVIOUS

LEMMA FlattenOfOne == ASSUME NEW S, NEW x \in Seq(S) PROVE FlattenSeq(<<x>>) = x
  <1>1. <<x>> = Append(<<>>, x) /\ <<>> \in Seq(Seq(S)) /\ <<>> \o x = x
    OBVIOUS
  <1> QED  BY <1>1, FlattenAppend, FlattenOfEmpty

LEMMA FlattenOfSingletons ==
    ASSUME NEW S, NEW v \in Seq(S) PROVE FlattenSeq([i \in DOMAIN v |-> <<v[i]>>]) = v
  <1> DEFINE s == [i \in DOMAIN v |-> <<v[i]>>]
             First(n) == SubSeq(s, 1, n)
             T == {n \in Nat : n <= Len(v) => FlattenSeq(First(n)) = SubSeq(v, 1, n)}
  <1>1. s \in Seq(Seq(S)) /\ Len(s) = Len(v) /\ Len(v) \in Nat
    <2>1. Len(v) \in Nat /\ DOMAIN v = 1 .. Len(v) /\ \A i \in 1 .. Len(v) : v[i] \in S
      BY LenProperties, ElementOfSeq
    <2>2. \A i \in 1 .. Len(v) : <<v[i]>> \in Seq(S)
      BY <2>1
    <2>3. s \in [1 .. Len(v) -> Seq(S)]
      BY <2>1, <2>2
    <2> QED  BY <2>1, <2>3
  <1>2. \A i \in 1 .. Len(v) : s[i] = <<v[i]>>
    BY LenProperties
  <1> HIDE DEF s
  <1>3. 0 \in T
    <2>1. First(0) = <<>> /\ SubSeq(v, 1, 0) = <<>>
      BY <1>1
    <2> QED  BY <2>1, FlattenOfEmpty
  <1>4. ASSUME NEW n \in Nat, n \in T PROVE n + 1 \in T
    <2> SUFFICES ASSUME n + 1 <= Len(v)
                 PROVE  FlattenSeq(First(n + 1)) = SubSeq(v, 1, n + 1)
      OBVIOUS
    <2>1. First(n) \in Seq(Seq(S)) /\ First(n + 1) = Append(First(n), s[n + 1])
      BY <1>1, FirstOf
    <2>2. FlattenSeq(First(n)) = SubSeq(v, 1, n)
      BY <1>1, <1>4
    <2>3. SubSeq(v, 1, n) \in Seq(S) /\ v[n + 1] \in S
      BY <1>1, FirstOf, ElementOfSeq
    <2>4. SubSeq(v, 1, n + 1) = Append(SubSeq(v, 1, n), v[n + 1])
      BY FirstOf
    <2>5. s[n + 1] = <<v[n + 1]>> /\ s[n + 1] \in Seq(S)
      BY <1>1, <1>2, <2>3
    <2> HIDE DEF First, T
    <2>6. PICK x : x = s[n + 1]
      OBVIOUS
    <2>7. FlattenSeq(Append(First(n), x)) = FlattenSeq(First(n)) \o x
      BY <2>1, <2>5, <2>6, FlattenAppend
    <2>8. Append(SubSeq(v, 1, n), v[n + 1]) = SubSeq(v, 1, n) \o <<v[n + 1]>>
      BY <2>3, AppendIsConcat
    <2> QED  BY <2>1, <2>2, <2>4, <2>5, <2>6, <2>7, <2>8
  <1> HIDE DEF T
  <1>5. Len(v) \in T
    BY <1>1, <1>3, <1>4, NumbersAreInductive
  <1>6. First(Len(v)) = s /\ SubSeq(v, 1, Len(v)) = v
    BY <1>1, FirstOf
  <1> HIDE DEF First
  <1>7. FlattenSeq(First(Len(v))) = SubSeq(v, 1, Len(v))
    BY <1>1, <1>5 DEF T
  <1> QED  BY <1>6, <1>7 DEF s

-----------------------------------------------------------------------------
(* What a function gives for each element of a sequence, one after another. *)
Mapped(f, s) == [i \in DOMAIN s |-> f[s[i]]]
Collected(f, s) == FlattenSeq(Mapped(f, s))
Gives(f, P, R) == f \in [P -> R]
Follows(m, f, s) == Len(m) = Len(s) /\ \A i \in 1 .. Len(s) : m[i] = f[s[i]]

(* Collecting gives a sequence, from a concatenation the concatenation.    *)
LEMMA MappedType ==
    ASSUME NEW P, NEW R, NEW f, Gives(f, P, R), NEW s \in Seq(P)
    PROVE  Mapped(f, s) \in Seq(R) /\ Follows(Mapped(f, s), f, s)
  <1>1. Len(s) \in Nat /\ DOMAIN s = 1 .. Len(s) /\ \A i \in 1 .. Len(s) : f[s[i]] \in R
    BY LenProperties, ElementOfSeq DEF Gives
  <1>2. Mapped(f, s) \in [1 .. Len(s) -> R]
    BY <1>1 DEF Mapped
  <1>3. \A i \in 1 .. Len(s) : Mapped(f, s)[i] = f[s[i]]
    BY <1>1 DEF Mapped
  <1> QED  BY <1>1, <1>2, <1>3 DEF Follows

LEMMA MappedConcat ==
    ASSUME NEW P, NEW R, NEW f, Gives(f, P, R), NEW s \in Seq(P), NEW t \in Seq(P)
    PROVE  Mapped(f, s \o t) = Mapped(f, s) \o Mapped(f, t)
  <1>1. /\ s \o t \in Seq(P) /\ Len(s \o t) = Len(s) + Len(t)
        /\ \A i \in 1 .. Len(s) + Len(t) :
             (s \o t)[i] = IF i <= Len(s) THEN s[i] ELSE t[i - Len(s)]
        /\ Len(s) \in Nat /\ Len(t) \in Nat
    BY ConcatProperties, LenProperties
  <1> DEFINE m == Mapped(f, s)
             n == Mapped(f, t)
             k == Mapped(f, s \o t)
  <1>2. PICK u \in Seq(P) : u = s \o t
    BY <1>1
  <1>3. /\ m \in Seq(R) /\ Follows(m, f, s)
        /\ n \in Seq(R) /\ Follows(n, f, t)
    BY MappedType
  <1>4. k \in Seq(R) /\ Follows(k, f, u)
    BY <1>2, MappedType
  <1> HIDE DEF m, n, k
  <1>5. /\ m \o n \in Seq(R) /\ Len(m \o n) = Len(s) + Len(t)
        /\ \A i \in 1 .. Len(s) + Len(t) :
             (m \o n)[i] = IF i <= Len(s) THEN m[i] ELSE n[i - Len(s)]
    <2>1. Len(m) = Len(s) /\ Len(n) = Len(t)
      BY <1>3 DEF Follows
    <2>2. /\ m \o n \in Seq(R) /\ Len(m \o n) = Len(m) + Len(n)
          /\ \A i \in 1 .. Len(m) + Len(n) :
               (m \o n)[i] = IF i <= Len(m) THEN m[i] ELSE n[i - Len(m)]
      BY <1>3, ConcatProperties
    <2> QED  BY <2>1, <2>2
  <1>6. \A i \in 1 .. Len(s) + Len(t) : k[i] = (m \o n)[i]
    <2> SUFFICES ASSUME NEW i \in 1 .. Len(s) + Len(t) PROVE k[i] = (m \o n)[i]
      OBVIOUS
    <2>1. k[i] = f[u[i]]
      BY <1>1, <1>2, <1>4 DEF Follows
    <2>2. CASE i <= Len(s)
      <3>1. i \in 1 .. Len(s)
        BY <1>1, <2>2
      <3>2. m[i] = f[s[i]]
        BY <1>3, <3>1 DEF Follows
      <3> QED  BY <1>1, <1>2, <1>5, <2>1, <2>2, <3>2
    <2>3. CASE ~ (i <= Len(s))
      <3>1. i - Len(s) \in 1 .. Len(t)
        BY <1>1, <2>3
      <3>2. n[i - Len(s)] = f[t[i - Len(s)]]
        BY <1>3, <3>1 DEF Follows
      <3> QED  BY <1>1, <1>2, <1>5, <2>1, <2>3, <3>2
    <2> QED  BY <2>2, <2>3
  <1>7. k = m \o n
    <2>1. Len(k) = Len(m \o n) /\ \A i \in 1 .. Len(k) : k[i] = (m \o n)[i]
      BY <1>1, <1>2, <1>4, <1>5, <1>6 DEF Follows
    <2> QED  BY <1>4, <1>5, <2>1, SeqEqual
  <1> QED  BY <1>7 DEF k, m, n

LEMMA CollectedType ==
    ASSUME NEW P, NEW S, NEW f, Gives(f, P, Seq(S)), NEW s \in Seq(P)
    PROVE  Collected(f, s) \in Seq(S)
  BY MappedType, FlattenType DEF Collected

LEMMA CollectedConcat ==
    ASSUME NEW P, NEW S, NEW f, Gives(f, P, Seq(S)), NEW s \in Seq(P), NEW t \in Seq(P)
    PROVE  Collected(f, s \o t) = Collected(f, s) \o Collected(f, t)
  <1>1. Mapped(f, s \o t) = Mapped(f, s) \o Mapped(f, t)
    BY MappedConcat
  <1>2. PICK m \in Seq(Seq(S)), n \in Seq(Seq(S)) : m = Mapped(f, s) /\ n = Mapped(f, t)
    BY MappedType
  <1>3. FlattenSeq(m \o n) = FlattenSeq(m) \o FlattenSeq(n)
    BY FlattenConcat
  <1> QED  BY <1>1, <1>2, <1>3 DEF Collected

LEMMA CollectedOne ==
    ASSUME NEW P, NEW S, NEW f, Gives(f, P, Seq(S)), NEW x \in P
    PROVE  Collected(f, <<x>>) = f[x]
  <1>1. Mapped(f, <<x>>) = <<f[x]>>
    BY DEF Mapped
  <1>2. PICK y \in Seq(S) : y = f[x]
    BY DEF Gives
  <1> QED  BY <1>1, <1>2, FlattenOfOne DEF Collected

(* Elements that give nothing; elements that give themselves.              *)
LEMMA CollectedNothing ==
    ASSUME NEW P, NEW f, NEW s \in Seq(P), \A i \in 1 .. Len(s) : f[s[i]] = <<>>
    PROVE  Collected(f, s) = <<>>
  <1>1. Len(s) \in Nat /\ DOMAIN s = 1 .. Len(s)
    BY LenProperties
  <1>2. Mapped(f, s) = [i \in 1 .. Len(s) |-> <<>>]
    BY <1>1 DEF Mapped
  <1>3. PICK m : m = Mapped(f, s)
    OBVIOUS
  <1> QED  BY <1>1, <1>2, <1>3, FlattenOfNothing DEF Collected

Singles(f, s) == \A i \in 1 .. Len(s) : f[s[i]] = <<s[i]>>

LEMMA CollectedAll ==
    ASSUME NEW P, NEW f, NEW s \in Seq(P), Singles(f, s)
    PROVE  Collected(f, s) = s
  <1>1. Len(s) \in Nat /\ DOMAIN s = 1 .. Len(s)
    BY LenProperties
  <1>2. Mapped(f, s) = [i \in DOMAIN s |-> <<s[i]>>]
    BY <1>1 DEF Mapped, Singles
  <1> QED  BY <1>2, FlattenOfSingletons DEF Collected

-----------------------------------------------------------------------------
(* What statements are made of: words, the names of parameters, values,     *)
(* and parts, which in a USING clause are a literal or a placeholder, and   *)
(* elsewhere the placeholders of a value or the words of columns.           *)
Words == {"a", "b", "c", "json"} \cup Keys \cup {ToString(i - 1) : i \in 1 .. 2}
            \cup (UNION {p.params : p \in Programs})
            \cup (UNION {p.prefixes : p \in Programs})
Paths == Seq(Words)
Vals == Seq(Paths)
ClauseTags == {"columns", "where", "if", "groupBy", "distinct", "limit",
               "limitPerPartition", "json"}
Literals == Seq(Int \cup Words)
Pieces == {p \in [clause : Keys \cup ClauseTags, holes : Vals, literal : Literals] :
             p.clause \in Keys => (p.literal = <<>> <=> p.holes # Lit)}

(* The parts of a clause are parts of a text.                              *)
LEMMA TagsAreNoKeys == ASSUME NEW c \in ClauseTags PROVE c \notin Keys
  BY DEF ClauseTags, Keys

LEMMA ClauseIsPiece ==
    ASSUME NEW c \in ClauseTags, NEW v \in Vals
    PROVE  Clause(c, v, <<>>) \in Pieces
  <1>1. <<>> \in Literals
    BY DEF Literals
  <1> QED  BY <1>1, TagsAreNoKeys DEF Pieces, Clause

LEMMA ColumnIsPiece ==
    ASSUME NEW c \in ClauseTags, NEW columns \in Seq(Words)
    PROVE  Clause(c, Lit, columns) \in Pieces
  <1>1. Lit \in Vals /\ columns \in Literals
    BY DEF Lit, Vals, Literals
  <1> QED  BY <1>1, TagsAreNoKeys DEF Pieces, Clause

LEMMA PartsType ==
    ASSUME NEW c \in ClauseTags, NEW vs \in Seq(Vals)
    PROVE  /\ Parts(c, vs) \in Seq(Pieces) /\ Len(Parts(c, vs)) = Len(vs)
           /\ DOMAIN Parts(c, vs) = 1 .. Len(vs)
           /\ \A i \in 1 .. Len(vs) : Parts(c, vs)[i] = Clause(c, vs[i], <<>>)
  <1>1. Len(vs) \in Nat /\ DOMAIN vs = 1 .. Len(vs) /\ \A i \in 1 .. Len(vs) : vs[i] \in Vals
    BY LenProperties, ElementOfSeq
  <1>2. \A i \in 1 .. Len(vs) : Clause(c, vs[i], <<>>) \in Pieces
    BY <1>1, ClauseIsPiece
  <1>3. Parts(c, vs) = [i \in 1 .. Len(vs) |-> Clause(c, vs[i], <<>>)]
    BY <1>1 DEF Parts
  <1>4. Parts(c, vs) \in [1 .. Len(vs) -> Pieces]
    BY <1>2, <1>3
  <1> QED  BY <1>1, <1>3, <1>4

LEMMA ColumnPartsType ==
    ASSUME NEW c \in ClauseTags, NEW columns \in Seq(Words)
    PROVE  /\ ColumnParts(c, columns) \in Seq(Pieces)
           /\ Len(ColumnParts(c, columns)) = Len(columns)
           /\ DOMAIN ColumnParts(c, columns) = 1 .. Len(columns)
           /\ \A i \in 1 .. Len(columns) :
                ColumnParts(c, columns)[i] = Clause(c, Lit, <<columns[i]>>)
  <1>1. /\ Len(columns) \in Nat /\ DOMAIN columns = 1 .. Len(columns)
        /\ \A i \in 1 .. Len(columns) : <<columns[i]>> \in Seq(Words)
    BY LenProperties, ElementOfSeq
  <1>2. \A i \in 1 .. Len(columns) : Clause(c, Lit, <<columns[i]>>) \in Pieces
    BY <1>1, ColumnIsPiece
  <1>3. ColumnParts(c, columns) = [i \in 1 .. Len(columns) |-> Clause(c, Lit, <<columns[i]>>)]
    BY <1>1 DEF ColumnParts
  <1>4. ColumnParts(c, columns) \in [1 .. Len(columns) -> Pieces]
    BY <1>2, <1>3
  <1>5. \A i \in 1 .. Len(columns) : ColumnParts(c, columns)[i] = Clause(c, Lit, <<columns[i]>>)
    BY <1>3
  <1>6. PICK s, n : s = ColumnParts(c, columns) /\ n = Len(columns)
    OBVIOUS
  <1>7. s \in [1 .. n -> Pieces] /\ n \in Nat
    BY <1>1, <1>4, <1>6
  <1>8. s \in Seq(Pieces) /\ Len(s) = n /\ DOMAIN s = 1 .. n
    BY <1>7
  <1> QED  BY <1>5, <1>6, <1>8

(* The parts of one clause.                                                 *)
OnlyOf(c) == [p \in Pieces |-> Only(c, p)]

LEMMA OnlyOfGives == ASSUME NEW c PROVE Gives(OnlyOf(c), Pieces, Seq(Pieces))
  BY DEF Gives, OnlyOf, Only

LEMMA OfClauseCollects ==
    ASSUME NEW c, NEW s \in Seq(Pieces) PROVE OfClause(c, s) = Collected(OnlyOf(c), s)
  <1>1. DOMAIN s = 1 .. Len(s) /\ \A i \in 1 .. Len(s) : s[i] \in Pieces
    BY LenProperties, ElementOfSeq
  <1> QED  BY <1>1 DEF OfClause, Collected, Mapped, OnlyOf

LEMMA OfClauseType ==
    ASSUME NEW c, NEW s \in Seq(Pieces) PROVE OfClause(c, s) \in Seq(Pieces)
  BY OfClauseCollects, OnlyOfGives, CollectedType

LEMMA OfClauseConcat ==
    ASSUME NEW c, NEW s \in Seq(Pieces), NEW t \in Seq(Pieces)
    PROVE  OfClause(c, s \o t) = OfClause(c, s) \o OfClause(c, t)
  <1>1. Gives(OnlyOf(c), Pieces, Seq(Pieces))
    BY OnlyOfGives
  <1>3. Collected(OnlyOf(c), s \o t) = Collected(OnlyOf(c), s) \o Collected(OnlyOf(c), t)
    BY <1>1, CollectedConcat
  <1>2. PICK u \in Seq(Pieces) : u = s \o t
    BY ConcatProperties
  <1> QED  BY <1>1, <1>2, <1>3, OfClauseCollects

LEMMA OfClauseEmpty == ASSUME NEW c PROVE OfClause(c, <<>>) = <<>>
  <1>1. [i \in DOMAIN <<>> |-> Only(c, <<>>[i])] = <<>>
    OBVIOUS
  <1> QED  BY <1>1, FlattenOfEmpty DEF OfClause

LEMMA OfClauseOne ==
    ASSUME NEW c, NEW p \in Pieces PROVE OfClause(c, <<p>>) = Only(c, p)
  <1>1. PICK f : f = OnlyOf(c) /\ Gives(f, Pieces, Seq(Pieces)) /\ f[p] = Only(c, p)
    <2>1. Gives(OnlyOf(c), Pieces, Seq(Pieces))
      BY OnlyOfGives
    <2>2. OnlyOf(c)[p] = Only(c, p)
      BY DEF OnlyOf
    <2> QED  BY <2>1, <2>2
  <1>2. Collected(f, <<p>>) = f[p]
    BY <1>1, CollectedOne
  <1>3. PICK u \in Seq(Pieces) : u = <<p>>
    BY OneOf
  <1> QED  BY <1>1, <1>2, <1>3, OfClauseCollects

LEMMA OfClauseAppend ==
    ASSUME NEW c, NEW s \in Seq(Pieces), NEW p \in Pieces
    PROVE  OfClause(c, Append(s, p)) = OfClause(c, s) \o Only(c, p)
  <1>1. PICK u \in Seq(Pieces) : u = <<p>>
    BY OneOf
  <1>2. OfClause(c, s \o u) = OfClause(c, s) \o OfClause(c, u)
    BY OfClauseConcat
  <1> QED  BY <1>1, <1>2, OfClauseOne, AppendIsConcat

LEMMA OfNothing ==
    ASSUME NEW c, NEW s \in Seq(Pieces), \A i \in 1 .. Len(s) : s[i].clause # c
    PROVE  OfClause(c, s) = <<>>
  <1>1. \A i \in 1 .. Len(s) : OnlyOf(c)[s[i]] = <<>>
    BY LenProperties, ElementOfSeq DEF OnlyOf, Only
  <1>2. PICK f : f = OnlyOf(c)
    OBVIOUS
  <1> QED  BY <1>1, <1>2, CollectedNothing, OfClauseCollects

LEMMA OfAll ==
    ASSUME NEW c, NEW s \in Seq(Pieces), \A i \in 1 .. Len(s) : s[i].clause = c
    PROVE  OfClause(c, s) = s
  <1>1. \A i \in 1 .. Len(s) : OnlyOf(c)[s[i]] = <<s[i]>>
    BY LenProperties, ElementOfSeq DEF OnlyOf, Only
  <1>2. PICK f : f = OnlyOf(c)
    OBVIOUS
  <1>3. Singles(f, s)
    BY <1>1, <1>2 DEF Singles
  <1>4. Collected(f, s) = s
    BY <1>3, CollectedAll
  <1> QED  BY <1>2, <1>4, OfClauseCollects

LEMMA OfParts ==
    ASSUME NEW c, NEW d \in ClauseTags, NEW vs \in Seq(Vals)
    PROVE  OfClause(c, Parts(d, vs)) = IF c = d THEN Parts(d, vs) ELSE <<>>
  <1>1. PICK s \in Seq(Pieces) : s = Parts(d, vs)
    BY PartsType
  <1>2. \A i \in 1 .. Len(s) : s[i].clause = d
    <2>1. /\ Len(Parts(d, vs)) = Len(vs)
          /\ \A i \in 1 .. Len(vs) : Parts(d, vs)[i] = Clause(d, vs[i], <<>>)
      BY PartsType
    <2>2. Len(s) = Len(vs) /\ \A i \in 1 .. Len(vs) : s[i] = Clause(d, vs[i], <<>>)
      BY <1>1, <2>1, Zenon
    <2>3. \A v : Clause(d, v, <<>>).clause = d
      BY DEF Clause
    <2> QED  BY <2>2, <2>3
  <1> QED  BY <1>1, <1>2, OfNothing, OfAll

(* The placeholders of a text.                                              *)
HolesOf == [p \in Pieces |-> p.holes]

LEMMA HolesOfGives == Gives(HolesOf, Pieces, Seq(Paths))
  BY DEF Gives, HolesOf, Pieces, Vals

LEMMA HolesCollects == ASSUME NEW s \in Seq(Pieces) PROVE Holes(s) = Collected(HolesOf, s)
  <1>1. DOMAIN s = 1 .. Len(s) /\ \A i \in 1 .. Len(s) : s[i] \in Pieces
    BY LenProperties, ElementOfSeq
  <1> QED  BY <1>1 DEF Holes, Collected, Mapped, HolesOf

LEMMA HolesType == ASSUME NEW s \in Seq(Pieces) PROVE Holes(s) \in Seq(Paths)
  BY HolesCollects, HolesOfGives, CollectedType

LEMMA HolesConcat ==
    ASSUME NEW s \in Seq(Pieces), NEW t \in Seq(Pieces)
    PROVE  Holes(s \o t) = Holes(s) \o Holes(t)
  <1>1. PICK u \in Seq(Pieces) : u = s \o t
    BY ConcatProperties
  <1>2. Collected(HolesOf, s \o t) = Collected(HolesOf, s) \o Collected(HolesOf, t)
    BY HolesOfGives, CollectedConcat
  <1> QED  BY <1>1, <1>2, HolesCollects

LEMMA HolesEmpty == Holes(<<>>) = <<>>
  <1>1. [i \in DOMAIN <<>> |-> <<>>[i].holes] = <<>>
    OBVIOUS
  <1> QED  BY <1>1, FlattenOfEmpty DEF Holes

LEMMA HolesOne == ASSUME NEW p \in Pieces PROVE Holes(<<p>>) = p.holes
  <1>1. Collected(HolesOf, <<p>>) = HolesOf[p]
    BY HolesOfGives, CollectedOne
  <1>2. PICK u \in Seq(Pieces) : u = <<p>>
    BY OneOf
  <1> QED  BY <1>1, <1>2, HolesCollects DEF HolesOf

LEMMA HolesOfParts ==
    ASSUME NEW c \in ClauseTags, NEW vs \in Seq(Vals)
    PROVE  Holes(Parts(c, vs)) = FlattenSeq(vs)
  <1>1. DOMAIN vs = 1 .. Len(vs) /\ vs = [i \in DOMAIN vs |-> vs[i]]
    BY LenProperties
  <1>2. [i \in DOMAIN Parts(c, vs) |-> Parts(c, vs)[i].holes] = vs
    BY <1>1 DEF Parts, Clause
  <1> QED  BY <1>2 DEF Holes

(* The columns of a text.                                                   *)
LiteralsOf == [p \in Pieces |-> p.literal]

LEMMA LiteralsOfGives == Gives(LiteralsOf, Pieces, Seq(Int \cup Words))
  BY DEF Gives, LiteralsOf, Pieces, Literals

LEMMA ColumnsCollects ==
    ASSUME NEW s \in Seq(Pieces) PROVE ColumnsIn(s) = Collected(LiteralsOf, s)
  <1>1. DOMAIN s = 1 .. Len(s) /\ \A i \in 1 .. Len(s) : s[i] \in Pieces
    BY LenProperties, ElementOfSeq
  <1> QED  BY <1>1 DEF ColumnsIn, Collected, Mapped, LiteralsOf

LEMMA ColumnsType == ASSUME NEW s \in Seq(Pieces) PROVE ColumnsIn(s) \in Seq(Int \cup Words)
  BY ColumnsCollects, LiteralsOfGives, CollectedType

LEMMA ColumnsConcat ==
    ASSUME NEW s \in Seq(Pieces), NEW t \in Seq(Pieces)
    PROVE  ColumnsIn(s \o t) = ColumnsIn(s) \o ColumnsIn(t)
  <1>1. PICK u \in Seq(Pieces) : u = s \o t
    BY ConcatProperties
  <1>2. Collected(LiteralsOf, s \o t) = Collected(LiteralsOf, s) \o Collected(LiteralsOf, t)
    BY LiteralsOfGives, CollectedConcat
  <1> QED  BY <1>1, <1>2, ColumnsCollects

LEMMA ColumnsEmpty == ColumnsIn(<<>>) = <<>>
  <1>1. [i \in DOMAIN <<>> |-> <<>>[i].literal] = <<>>
    OBVIOUS
  <1> QED  BY <1>1, FlattenOfEmpty DEF ColumnsIn

LEMMA ColumnsOne == ASSUME NEW p \in Pieces PROVE ColumnsIn(<<p>>) = p.literal
  <1>1. Collected(LiteralsOf, <<p>>) = LiteralsOf[p]
    BY LiteralsOfGives, CollectedOne
  <1>2. PICK u \in Seq(Pieces) : u = <<p>>
    BY OneOf
  <1> QED  BY <1>1, <1>2, ColumnsCollects DEF LiteralsOf

LEMMA ColumnsOfParts ==
    ASSUME NEW c \in ClauseTags, NEW columns \in Seq(Words)
    PROVE  ColumnsIn(ColumnParts(c, columns)) = columns
  <1>1. [i \in DOMAIN ColumnParts(c, columns) |-> ColumnParts(c, columns)[i].literal]
          = [i \in DOMAIN columns |-> <<columns[i]>>]
    BY DEF ColumnParts, Clause
  <1> QED  BY <1>1, FlattenOfSingletons DEF ColumnsIn

(* A text that is two has JSON if one of them has.                         *)
LEMMA HasJsonConcat ==
    ASSUME NEW s \in Seq(Pieces), NEW t \in Seq(Pieces)
    PROVE  HasJson(s \o t) <=> HasJson(s) \/ HasJson(t)
  <1>1. PICK u \in Seq(Pieces) : u = s \o t
    BY ConcatProperties
  <1>2. /\ Len(s) \in Nat /\ Len(t) \in Nat /\ Len(u) = Len(s) + Len(t)
        /\ DOMAIN s = 1 .. Len(s) /\ DOMAIN t = 1 .. Len(t) /\ DOMAIN u = 1 .. Len(u)
        /\ \A i \in 1 .. Len(s) + Len(t) : u[i] = IF i <= Len(s) THEN s[i] ELSE t[i - Len(s)]
    BY <1>1, ConcatProperties, LenProperties
  <1>3. HasJson(s) => HasJson(u)
    <2> SUFFICES ASSUME NEW i \in 1 .. Len(s), s[i].clause = "json"
                 PROVE  HasJson(u)
      BY <1>2 DEF HasJson
    <2>1. i \in 1 .. Len(u) /\ u[i] = s[i]
      BY <1>2
    <2> QED  BY <1>2, <2>1 DEF HasJson
  <1>4. HasJson(t) => HasJson(u)
    <2> SUFFICES ASSUME NEW i \in 1 .. Len(t), t[i].clause = "json"
                 PROVE  HasJson(u)
      BY <1>2 DEF HasJson
    <2>1. PICK j \in 1 .. Len(u) : j = i + Len(s) /\ ~ (j <= Len(s)) /\ j - Len(s) = i
      <3>1. PICK m \in Nat, n \in Nat : m = Len(s) /\ n = Len(t) /\ Len(u) = m + n
        BY <1>2
      <3>2. i \in 1 .. n
        BY <3>1
      <3>3. i + m \in 1 .. m + n /\ ~ (i + m <= m) /\ (i + m) - m = i
        BY <3>2
      <3> QED  BY <3>1, <3>3
    <2>2. u[j] = t[i]
      BY <1>2, <2>1
    <2>3. j \in DOMAIN u /\ u[j].clause = "json"
      BY <1>2, <2>1, <2>2
    <2> QED  BY <2>3 DEF HasJson
  <1>5. HasJson(u) => HasJson(s) \/ HasJson(t)
    <2> SUFFICES ASSUME NEW i \in 1 .. Len(u), u[i].clause = "json"
                 PROVE  HasJson(s) \/ HasJson(t)
      BY <1>2 DEF HasJson
    <2>1. CASE i <= Len(s)
      <3>1. i \in 1 .. Len(s) /\ u[i] = s[i]
        BY <1>2, <2>1
      <3> QED  BY <1>2, <3>1 DEF HasJson
    <2>2. CASE ~ (i <= Len(s))
      <3>1. i - Len(s) \in 1 .. Len(t) /\ u[i] = t[i - Len(s)]
        BY <1>2, <2>2
      <3> QED  BY <1>2, <3>1 DEF HasJson
    <2> QED  BY <2>1, <2>2
  <1> QED  BY <1>1, <1>3, <1>4, <1>5

(* What is said of two texts is said of four, one after another.            *)
FourInOne(w, s, t, u, v) ==
    /\ w \in Seq(Pieces)
    /\ Holes(w) = Holes(s) \o Holes(t) \o Holes(u) \o Holes(v)
    /\ HasJson(w) <=> HasJson(s) \/ HasJson(t) \/ HasJson(u) \/ HasJson(v)
    /\ \A c : OfClause(c, w) = OfClause(c, s) \o OfClause(c, t) \o OfClause(c, u)
                                  \o OfClause(c, v)

LEMMA FourTexts ==
    ASSUME NEW s \in Seq(Pieces), NEW t \in Seq(Pieces),
           NEW u \in Seq(Pieces), NEW v \in Seq(Pieces), NEW w, w = s \o t \o u \o v
    PROVE  FourInOne(w, s, t, u, v)
  <1>1. PICK x \in Seq(Pieces) : x = s \o t
    BY ConcatProperties
  <1>2. PICK y \in Seq(Pieces) : y = x \o u
    BY ConcatProperties
  <1>3. w = y \o v /\ w \in Seq(Pieces)
    BY <1>1, <1>2, ConcatProperties
  <1>4. Holes(x) = Holes(s) \o Holes(t) /\ Holes(y) = Holes(x) \o Holes(u)
          /\ Holes(w) = Holes(y) \o Holes(v)
    BY <1>1, <1>2, <1>3, HolesConcat, ZenonT(30)
  <1>5. /\ HasJson(x) <=> HasJson(s) \/ HasJson(t)
        /\ HasJson(y) <=> HasJson(x) \/ HasJson(u)
        /\ HasJson(w) <=> HasJson(y) \/ HasJson(v)
    <2>1. HasJson(s \o t) <=> HasJson(s) \/ HasJson(t)
      BY HasJsonConcat
    <2>2. HasJson(x \o u) <=> HasJson(x) \/ HasJson(u)
      BY HasJsonConcat
    <2>3. HasJson(y \o v) <=> HasJson(y) \/ HasJson(v)
      BY HasJsonConcat
    <2> QED  BY <1>1, <1>2, <1>3, <2>1, <2>2, <2>3
  <1>6. ASSUME NEW c
        PROVE  OfClause(c, w) = OfClause(c, s) \o OfClause(c, t) \o OfClause(c, u)
                                         \o OfClause(c, v)
    <2>1. /\ OfClause(c, x) = OfClause(c, s) \o OfClause(c, t)
          /\ OfClause(c, y) = OfClause(c, x) \o OfClause(c, u)
          /\ OfClause(c, w) = OfClause(c, y) \o OfClause(c, v)
      <3>1. OfClause(c, s \o t) = OfClause(c, s) \o OfClause(c, t)
        BY OfClauseConcat
      <3>2. OfClause(c, x \o u) = OfClause(c, x) \o OfClause(c, u)
        BY OfClauseConcat
      <3>3. OfClause(c, y \o v) = OfClause(c, y) \o OfClause(c, v)
        BY OfClauseConcat
      <3> QED  BY <1>1, <1>2, <1>3, <3>1, <3>2, <3>3
    <2> QED  BY <2>1
  <1> QED  BY <1>3, <1>4, <1>5, <1>6 DEF FourInOne

-----------------------------------------------------------------------------
(* The USING clause: what it writes is at most one part for each key, and   *)
(* the names it returns are those of its placeholders.                      *)
SomeNames == Keys \cup {NoName}
Usings == [ttl : Int, ttlName : SomeNames, timestamp : Int, timestampName : SomeNames,
           timeout : Int, timeoutName : SomeNames]
PartOf(u, key) ==
    CASE key = "TTL"       -> Part("TTL", u.ttl, <<WrittenTTL(u.ttl)>>, u.ttlName)
      [] key = "TIMESTAMP" -> Part("TIMESTAMP", u.timestamp, <<u.timestamp>>, u.timestampName)
      [] key = "TIMEOUT"   -> Part("TIMEOUT", u.timeout, formatDuration(u.timeout),
                                   u.timeoutName)

LEMMA ParamIsValue == ASSUME NEW w \in Words PROVE Param(w) \in Vals /\ Param(w) # Lit
  <1>1. <<w>> \in Paths
    BY OneOf DEF Paths
  <1> QED  BY <1>1, OneOf DEF Vals, Param, Lit

LEMMA LitIsValue == Lit \in Vals
  BY DEF Lit, Vals

OnePart(s, key) ==
    /\ s \in Seq(Pieces) /\ Len(s) \in 0 .. 1 /\ \A i \in 1 .. Len(s) : s[i].clause = key
    /\ OfClause(key, s) = s /\ \A c : c # key => OfClause(c, s) = <<>>
    /\ ~ HasJson(s) /\ Holes(s) \in Seq(Paths)

LEMMA PartType ==
    ASSUME NEW key \in Keys, NEW value \in Int, NEW literal \in Literals, literal # <<>>,
           NEW name \in SomeNames, NEW s, s = Part(key, value, literal, name)
    PROVE  OnePart(s, key) /\ Holes(s) = NameOf(value, name)
  <1>1. CASE value = 0 /\ name = NoName
    <2>1. s = <<>> /\ NameOf(value, name) = <<>>
      BY <1>1 DEF Part, NameOf, Lit
    <2>2. s \in Seq(Pieces) /\ Len(s) = 0 /\ DOMAIN s = {} /\ <<>> \in Seq(Paths)
      BY <2>1
    <2>3. Holes(s) = <<>> /\ \A c : OfClause(c, s) = <<>>
      BY <2>1, OfClauseEmpty, HolesEmpty
    <2>4. ~ HasJson(s)
      BY <2>2 DEF HasJson
    <2>5. Len(s) \in 0 .. 1 /\ \A i \in 1 .. Len(s) : s[i].clause = key
      BY <2>2
    <2>6. NameOf(value, name) = Holes(s) /\ OfClause(key, s) = s
      BY <2>1, <2>3
    <2> QED  BY <2>2, <2>3, <2>4, <2>5, <2>6 DEF OnePart
  <1>2. CASE ~ (value = 0 /\ name = NoName)
    <2>1. PICK p \in Pieces : s = <<p>> /\ p.clause = key /\ p.holes = NameOf(value, name)
      <3>1. name # NoName => Param(name) \in Vals /\ Param(name) # Lit
        BY ParamIsValue DEF SomeNames, Words
      <3>2. CASE value # 0
        <4>1. Clause(key, Lit, literal) \in Pieces
          BY LitIsValue DEF Clause, Pieces
        <4> QED  BY <3>2, <4>1 DEF Part, NameOf, Clause
      <3>3. CASE value = 0
        <4>1. PICK holes \in Vals : holes = Param(name) /\ holes # Lit /\ name # NoName
          BY <1>2, <3>1, <3>3
        <4>2. <<>> \in Literals
          BY DEF Literals
        <4>3. Clause(key, holes, <<>>) \in Pieces
          BY <4>1, <4>2 DEF Clause, Pieces
        <4> QED  BY <3>3, <4>1, <4>3 DEF Part, NameOf, Clause
      <3> QED  BY <3>2, <3>3
    <2>2. s \in Seq(Pieces) /\ Len(s) = 1 /\ s[1] = p
      BY <2>1
    <2>3. Holes(s) = p.holes /\ Holes(s) \in Seq(Paths)
      BY <2>1, <2>2, HolesOne, HolesType
    <2>4. \A c : OfClause(c, s) = Only(c, p)
      BY <2>1, OfClauseOne
    <2>5. key # "json"
      BY DEF Keys
    <2>6. ~ HasJson(s)
      BY <2>1, <2>2, <2>5 DEF HasJson
    <2> QED  BY <2>1, <2>2, <2>3, <2>4, <2>6 DEF Only, OnePart
  <1> QED  BY <1>1, <1>2

LEMMA FormatType ==
    ASSUME NEW d \in Int PROVE formatDuration(d) \in Literals /\ formatDuration(d) # <<>>
  <1>1. CASE d >= 0
    <2>1. PICK x \in Int, y \in Int, z \in Int :
            /\ x = d \div Minute /\ y = (d % Minute) \div Second
            /\ z = (d % Second) \div Millisecond
      BY <1>1 DEF Minute, Second, Millisecond
    <2>2. formatDuration(d) = <<x, y, z>>
      BY <1>1, <2>1 DEF formatDuration
    <2> QED  BY <2>2 DEF Literals
  <1>2. CASE d < 0
    BY <1>2 DEF formatDuration, Literals
  <1> QED  BY <1>1, <1>2

LEMMA PartOfType ==
    ASSUME NEW u \in Usings, NEW key \in Keys, NEW s, s = PartOf(u, key)
    PROVE  /\ OnePart(s, key)
           /\ key = "TTL" => Holes(s) = NameOf(u.ttl, u.ttlName)
           /\ key = "TIMESTAMP" => Holes(s) = NameOf(u.timestamp, u.timestampName)
           /\ key = "TIMEOUT" => Holes(s) = NameOf(u.timeout, u.timeoutName)
  <1>1. CASE key = "TTL"
    <2>1. u.ttl \in Int /\ u.ttlName \in SomeNames /\ <<WrittenTTL(u.ttl)>> \in Literals
          /\ <<WrittenTTL(u.ttl)>> # <<>>
      BY DEF Usings, WrittenTTL, Literals
    <2>2. s = Part(key, u.ttl, <<WrittenTTL(u.ttl)>>, u.ttlName)
      BY <1>1 DEF PartOf
    <2>3. OnePart(s, key) /\ Holes(s) = NameOf(u.ttl, u.ttlName)
      BY <2>1, <2>2, PartType, SMTT(30)
    <2> QED  BY <1>1, <2>3 DEF Keys
  <1>2. CASE key = "TIMESTAMP"
    <2>1. u.timestamp \in Int /\ u.timestampName \in SomeNames
          /\ <<u.timestamp>> \in Literals /\ <<u.timestamp>> # <<>>
      BY DEF Usings, Literals
    <2>2. s = Part(key, u.timestamp, <<u.timestamp>>, u.timestampName)
      BY <1>2 DEF PartOf
    <2>3. PICK literal \in Literals : literal = <<u.timestamp>> /\ literal # <<>>
      BY <2>1
    <2>4. OnePart(s, key) /\ Holes(s) = NameOf(u.timestamp, u.timestampName)
      BY <2>1, <2>2, <2>3, PartType, SMTT(30)
    <2> QED  BY <1>2, <2>4 DEF Keys
  <1>3. CASE key = "TIMEOUT"
    <2>1. u.timeout \in Int /\ u.timeoutName \in SomeNames
          /\ formatDuration(u.timeout) \in Literals /\ formatDuration(u.timeout) # <<>>
      BY FormatType DEF Usings
    <2>2. s = Part(key, u.timeout, formatDuration(u.timeout), u.timeoutName)
      BY <1>3 DEF PartOf
    <2> QED  BY <1>3, <2>1, <2>2, PartType
  <1> QED  BY <1>1, <1>2, <1>3 DEF Keys

Keyed(s) == \A i \in 1 .. Len(s) : s[i].clause \in Keys

LEMMA KeyedConcat ==
    ASSUME NEW s \in Seq(Pieces), NEW t \in Seq(Pieces), Keyed(s), Keyed(t),
           NEW u, u = s \o t
    PROVE  Keyed(u) /\ Len(u) = Len(s) + Len(t)
  <1>1. /\ Len(s \o t) = Len(s) + Len(t) /\ Len(s) \in Nat /\ Len(t) \in Nat
        /\ \A i \in 1 .. Len(s) + Len(t) :
             (s \o t)[i] = IF i <= Len(s) THEN s[i] ELSE t[i - Len(s)]
    BY ConcatProperties, LenProperties
  <1>2. ASSUME NEW i \in 1 .. Len(u) PROVE u[i].clause \in Keys
    <2>1. u[i] = IF i <= Len(s) THEN s[i] ELSE t[i - Len(s)]
      BY <1>1
    <2>2. CASE i <= Len(s)
      <3>1. i \in 1 .. Len(s)
        BY <1>1, <2>2
      <3> QED  BY <2>1, <2>2, <3>1 DEF Keyed
    <2>3. CASE ~ (i <= Len(s))
      <3>1. i - Len(s) \in 1 .. Len(t)
        BY <1>1, <2>3
      <3> QED  BY <2>1, <2>3, <3>1 DEF Keyed
    <2> QED  BY <2>2, <2>3
  <1> QED  BY <1>1, <1>2 DEF Keyed

LEMMA ClausesType ==
    ASSUME NEW u \in Usings, NEW s, s = Clauses(u)
    PROVE  /\ s \in Seq(Pieces) /\ Holes(s) = Names(u) /\ ~ HasJson(s) /\ Len(s) \in 0 .. 3
           /\ Keyed(s)
           /\ \A key \in Keys : OfClause(key, s) = PartOf(u, key)
           /\ \A c \in ClauseTags : OfClause(c, s) = <<>>
  <1> DEFINE P(key) == PartOf(u, key)
  <1>1. PICK l : l = P("TTL")
    OBVIOUS
  <1>2. PICK m : m = P("TIMESTAMP")
    OBVIOUS
  <1>3. PICK n : n = P("TIMEOUT")
    OBVIOUS
  <1>4. /\ OnePart(l, "TTL") /\ Holes(l) = NameOf(u.ttl, u.ttlName)
        /\ OnePart(m, "TIMESTAMP") /\ Holes(m) = NameOf(u.timestamp, u.timestampName)
        /\ OnePart(n, "TIMEOUT") /\ Holes(n) = NameOf(u.timeout, u.timeoutName)
    <2>1. "TTL" \in Keys /\ "TIMESTAMP" \in Keys /\ "TIMEOUT" \in Keys
      BY DEF Keys
    <2> QED  BY <1>1, <1>2, <1>3, <2>1, PartOfType
  <1>5. s = (l \o m) \o n
    BY <1>1, <1>2, <1>3 DEF PartOf, Clauses
  <1> HIDE DEF P
  <1>6. /\ l \in Seq(Pieces) /\ m \in Seq(Pieces) /\ n \in Seq(Pieces)
        /\ Len(l) \in 0 .. 1 /\ Len(m) \in 0 .. 1 /\ Len(n) \in 0 .. 1
        /\ Holes(l) \in Seq(Paths) /\ Holes(m) \in Seq(Paths) /\ Holes(n) \in Seq(Paths)
        /\ ~ HasJson(l) /\ ~ HasJson(m) /\ ~ HasJson(n)
    BY <1>4 DEF OnePart
  <1>7. PICK x \in Seq(Pieces) : x = l \o m
    BY <1>6, ConcatProperties
  <1>8. s = x \o n /\ s \in Seq(Pieces)
    BY <1>5, <1>6, <1>7, ConcatProperties
  <1>9. Holes(s) = Names(u)
    <2>1. Holes(x) = Holes(l) \o Holes(m) /\ Holes(s) = Holes(x) \o Holes(n)
      BY <1>6, <1>7, <1>8, HolesConcat
    <2> QED  BY <1>4, <2>1 DEF Names
  <1>10. ~ HasJson(s)
    <2>1. HasJson(l \o m) <=> HasJson(l) \/ HasJson(m)
      BY <1>6, HasJsonConcat
    <2>2. HasJson(x \o n) <=> HasJson(x) \/ HasJson(n)
      BY <1>6, HasJsonConcat
    <2> QED  BY <1>6, <1>7, <1>8, <2>1, <2>2
  <1>11. Len(s) \in 0 .. 3 /\ Keyed(s)
    <2>1. Keyed(l) /\ Keyed(m) /\ Keyed(n)
      BY <1>4 DEF OnePart, Keyed, Keys
    <2>2. Keyed(x) /\ Len(x) = Len(l) + Len(m)
      BY <1>6, <1>7, <2>1, KeyedConcat
    <2>3. Keyed(s) /\ Len(s) = Len(x) + Len(n)
      BY <1>6, <1>8, <2>1, <2>2, KeyedConcat
    <2>4. \A i, j, k \in 0 .. 1 : (i + j) + k \in 0 .. 3
      OBVIOUS
    <2>5. Len(l) \in 0 .. 1 /\ Len(m) \in 0 .. 1 /\ Len(n) \in 0 .. 1
      BY <1>6
    <2>6. Len(s) = (Len(l) + Len(m)) + Len(n)
      BY <2>2, <2>3
    <2>7. Len(s) \in 0 .. 3
      BY <2>4, <2>5, <2>6, Zenon
    <2> QED  BY <2>3, <2>7
  <1>12. ASSUME NEW c
         PROVE  OfClause(c, s) = (OfClause(c, l) \o OfClause(c, m)) \o OfClause(c, n)
    <2>1. OfClause(c, l \o m) = OfClause(c, l) \o OfClause(c, m)
      BY <1>6, OfClauseConcat
    <2>2. OfClause(c, x \o n) = OfClause(c, x) \o OfClause(c, n)
      BY <1>6, OfClauseConcat
    <2> QED  BY <1>7, <1>8, <2>1, <2>2
  <1>13. /\ OfClause("TTL", s) = l /\ OfClause("TIMESTAMP", s) = m
         /\ OfClause("TIMEOUT", s) = n
    <2>1. /\ OfClause("TTL", l) = l /\ OfClause("TTL", m) = <<>> /\ OfClause("TTL", n) = <<>>
          /\ OfClause("TIMESTAMP", l) = <<>> /\ OfClause("TIMESTAMP", m) = m
          /\ OfClause("TIMESTAMP", n) = <<>>
          /\ OfClause("TIMEOUT", l) = <<>> /\ OfClause("TIMEOUT", m) = <<>>
          /\ OfClause("TIMEOUT", n) = n
      BY <1>4 DEF OnePart
    <2>2. /\ (l \o <<>>) \o <<>> = l /\ (<<>> \o m) \o <<>> = m
          /\ (<<>> \o <<>>) \o n = n
      BY <1>6
    <2> QED  BY <1>12, <2>1, <2>2
  <1>14. ASSUME NEW c \in ClauseTags PROVE OfClause(c, s) = <<>>
    <2>1. OfClause(c, l) = <<>> /\ OfClause(c, m) = <<>> /\ OfClause(c, n) = <<>>
      BY <1>4 DEF OnePart, ClauseTags
    <2>2. (<<>> \o <<>>) \o <<>> = <<>>
      OBVIOUS
    <2> QED  BY <1>12, <2>1, <2>2
  <1>15. \A key \in Keys : OfClause(key, s) = PartOf(u, key)
    BY <1>1, <1>2, <1>3, <1>13 DEF Keys, P
  <1> QED  BY <1>8, <1>9, <1>10, <1>11, <1>14, <1>15

-----------------------------------------------------------------------------
(* The builders a program can have, and what each of them writes.           *)
Makings == [kind : AllKinds, columns : Seq(Vals) \cup Seq(Words), where : Seq(Vals),
            if : Seq(Vals), groupBy : Seq(Words), distinct : Seq(Words),
            limit : Seq(Vals), limitPerPartition : Seq(Vals), json : BOOLEAN,
            using : Usings]
Valued == {"insert", "update"}
OfItsKind(f) ==
    /\ f.kind # "select" => /\ f.groupBy = <<>> /\ f.distinct = <<>>
                            /\ f.limit = <<>> /\ f.limitPerPartition = <<>>
    /\ f.kind \in {"select", "insert"} => f.if = <<>>
    /\ f.kind = "insert" => f.where = <<>>
    /\ f.kind # "insert" => f.json = FALSE
    /\ f.columns \in IF f.kind \in Valued THEN Seq(Vals) ELSE Seq(Words)
    /\ Len(f.limit) <= 1 /\ Len(f.limitPerPartition) <= 1

(* A text among empty ones.                                                 *)
LEMMA AmongEmpty ==
    ASSUME NEW z \in Seq(Pieces), NEW e, e = <<>>
    PROVE  /\ z \o e \o e \o e \o e \o e = z /\ e \o z \o e \o e \o e \o e = z
           /\ e \o e \o z \o e \o e \o e = z /\ e \o e \o e \o z \o e \o e = z
           /\ e \o e \o e \o e \o z \o e = z
  <1>1. z \o e = z /\ e \o z = z /\ e \o e = e
    BY ConcatEmptySeq
  <1> QED  BY <1>1

LEMMA PartsNoJson ==
    ASSUME NEW c \in ClauseTags, c # "json", NEW vs \in Seq(Vals)
    PROVE  ~ HasJson(Parts(c, vs))
  <1>1. \A v : Clause(c, v, <<>>).clause = c
    BY DEF Clause
  <1>2. /\ DOMAIN Parts(c, vs) = 1 .. Len(vs)
        /\ \A i \in 1 .. Len(vs) : Parts(c, vs)[i] = Clause(c, vs[i], <<>>)
    BY PartsType
  <1> QED  BY <1>1, <1>2 DEF HasJson

(* The parts of one clause in a text.                                       *)
PartsOf(s, c, vs) ==
    /\ s = Parts(c, vs) /\ s \in Seq(Pieces) /\ ~ HasJson(s) /\ Holes(s) = FlattenSeq(vs)
    /\ OfClause(c, s) = s /\ \A d : d # c => OfClause(d, s) = <<>>
    /\ vs = <<>> => s = <<>>

LEMMA PartsAre ==
    ASSUME NEW c \in ClauseTags, c # "json", NEW vs \in Seq(Vals)
    PROVE  PartsOf(Parts(c, vs), c, vs)
  <1>1. Parts(c, <<>>) = <<>>
    BY DEF Parts
  <1> QED  BY <1>1, PartsType, PartsNoJson, HolesOfParts, OfParts DEF PartsOf

(* The columns of one clause in a text.                                     *)
ColumnsOf(s, c, columns) ==
    /\ s = ColumnParts(c, columns) /\ s \in Seq(Pieces) /\ ~ HasJson(s) /\ Holes(s) = <<>>
    /\ OfClause(c, s) = s /\ \A d : d # c => OfClause(d, s) = <<>>

LEMMA ColumnsAre ==
    ASSUME NEW c \in ClauseTags, c # "json", NEW columns \in Seq(Words)
    PROVE  ColumnsOf(ColumnParts(c, columns), c, columns)
  <1>1. PICK s \in Seq(Pieces) : s = ColumnParts(c, columns)
    BY ColumnPartsType
  <1>2. \A i \in 1 .. Len(s) : s[i] = Clause(c, Lit, <<columns[i]>>)
    BY <1>1, ColumnPartsType, Zenon
  <1>3. \A l : Clause(c, Lit, l).clause = c /\ Clause(c, Lit, l).holes = <<>>
    BY DEF Clause, Lit
  <1>4. \A i \in 1 .. Len(s) : s[i].clause = c /\ s[i].holes = <<>>
    BY <1>2, <1>3
  <1>5. ~ HasJson(s)
    BY <1>1, <1>4, LenProperties DEF HasJson
  <1>6. Holes(s) = <<>>
    <2>1. PICK f : f = HolesOf /\ Gives(f, Pieces, Seq(Paths))
      BY HolesOfGives
    <2>2. \A i \in 1 .. Len(s) : f[s[i]] = <<>>
      BY <1>4, <2>1, LenProperties, ElementOfSeq DEF HolesOf
    <2> QED  BY <1>1, <2>1, <2>2, CollectedNothing, HolesCollects
  <1>7. OfClause(c, s) = s /\ \A d : d # c => OfClause(d, s) = <<>>
    BY <1>4, OfNothing, OfAll
  <1> QED  BY <1>1, <1>5, <1>6, <1>7 DEF ColumnsOf

(* What is to be shown of a statement s that f has written.                 *)
Ordered(f, s) ==
    /\ s.names = Holes(s.text)
    /\ OfClause("where", s.text) = Parts("where", f.where)
    /\ OfClause("if", s.text) = Parts("if", f.if)
    /\ OfClause("groupBy", s.text) = ColumnParts("groupBy", f.groupBy)
    /\ OfClause("limit", s.text) = Parts("limit", f.limit)
    /\ OfClause("limitPerPartition", s.text) = Parts("limitPerPartition", f.limitPerPartition)
    /\ f.kind \in Valued => OfClause("columns", s.text) = Parts("columns", f.columns)
    /\ f.kind = "delete" => OfClause("columns", s.text) = ColumnParts("columns", f.columns)
    /\ f.kind = "select" =>
         /\ OfClause("distinct", s.text) = ColumnParts("distinct", f.distinct)
         /\ OfClause("columns", s.text) =
              IF f.distinct # <<>> THEN <<>>
              ELSE ColumnParts("columns", f.groupBy \o f.columns)
InOrder(f, s) ==
    Ordered(f, s) /\ \A key \in Keys : OfClause(key, s.text) = PartOf(f.using, key)
WellWritten(f, s) ==
    /\ s.text \in Seq(Pieces) /\ s.names \in Seq(Paths)
    /\ HasJson(s.text) <=> f.json
    /\ ~ f.json => InOrder(f, s)

(* What each of the four builders writes: its names are those of the       *)
(* placeholders, its clauses those it holds, its USING clause as it is     *)
(* set.                                                                    *)
LEMMA NoKeyIsAClause ==
    /\ Keys \cap ClauseTags = {} /\ {"where", "if", "groupBy", "limit", "columns",
                                    "limitPerPartition", "distinct"} \subseteq ClauseTags
    /\ "json" \notin Keys
  BY DEF Keys, ClauseTags

LEMMA EmptyParts == \A c : Parts(c, <<>>) = <<>> /\ ColumnParts(c, <<>>) = <<>>
  BY DEF Parts, ColumnParts

LEMMA UpdateWritten ==
    ASSUME NEW f \in Makings, OfItsKind(f), f.kind = "update", NEW s, s = UpdateToCql(f)
    PROVE  WellWritten(f, s)
  <1>1. PICK u \in Seq(Pieces) :
          /\ u = Clauses(f.using) /\ Holes(u) = Names(f.using) /\ ~ HasJson(u)
          /\ \A key \in Keys : OfClause(key, u) = PartOf(f.using, key)
          /\ \A c \in ClauseTags : OfClause(c, u) = <<>>
    BY ClausesType DEF Makings
  <1>2. PICK c : PartsOf(c, "columns", f.columns)
    BY PartsAre, NoKeyIsAClause DEF OfItsKind, Valued
  <1>3. PICK w : PartsOf(w, "where", f.where)
    BY PartsAre, NoKeyIsAClause DEF Makings
  <1>4. PICK i : PartsOf(i, "if", f.if)
    BY PartsAre, NoKeyIsAClause DEF Makings
  <1>5. c \in Seq(Pieces) /\ w \in Seq(Pieces) /\ i \in Seq(Pieces)
    BY <1>2, <1>3, <1>4 DEF PartsOf
  <1>6. s.text = u \o c \o w \o i
    BY <1>1, <1>2, <1>3, <1>4 DEF UpdateToCql, Statement, PartsOf
  <1>7. s.names = Holes(u) \o Holes(c) \o Holes(w) \o Holes(i)
    BY <1>1, <1>2, <1>3, <1>4 DEF UpdateToCql, Statement, PartsOf
  <1>8. PICK t : t = s.text
    OBVIOUS
  <1>9. /\ t \in Seq(Pieces)
        /\ Holes(t) = Holes(u) \o Holes(c) \o Holes(w) \o Holes(i)
        /\ HasJson(t) <=> HasJson(u) \/ HasJson(c) \/ HasJson(w) \/ HasJson(i)
        /\ \A d : OfClause(d, t) = OfClause(d, u) \o OfClause(d, c) \o OfClause(d, w)
                                      \o OfClause(d, i)
    <2>1. FourInOne(t, u, c, w, i)
      BY <1>1, <1>5, <1>6, <1>8, FourTexts
    <2> QED  BY <2>1 DEF FourInOne
  <1>10. ~ HasJson(t) /\ f.json = FALSE
    BY <1>1, <1>2, <1>3, <1>4, <1>9 DEF PartsOf, OfItsKind
  <1>11. s.names = Holes(t) /\ s.names \in Seq(Paths)
    BY <1>7, <1>9, HolesType
  <1>12. ASSUME NEW d \in ClauseTags
         PROVE  OfClause(d, t) = CASE d = "columns" -> c [] d = "where" -> w [] d = "if" -> i
                                   [] OTHER -> <<>>
    <2>1. /\ OfClause(d, u) = <<>>
          /\ OfClause(d, c) = IF d = "columns" THEN c ELSE <<>>
          /\ OfClause(d, w) = IF d = "where" THEN w ELSE <<>>
          /\ OfClause(d, i) = IF d = "if" THEN i ELSE <<>>
      BY <1>1, <1>2, <1>3, <1>4 DEF PartsOf
    <2>2. /\ <<>> \o c \o <<>> \o <<>> = c /\ <<>> \o <<>> \o w \o <<>> = w
          /\ <<>> \o <<>> \o <<>> \o i = i /\ <<>> \o <<>> \o <<>> \o <<>> = <<>>
      BY <1>5
    <2> QED  BY <1>9, <2>1, <2>2
  <1>13. ASSUME NEW key \in Keys PROVE OfClause(key, t) = PartOf(f.using, key)
    <2>1. /\ OfClause(key, u) = PartOf(f.using, key) /\ OfClause(key, c) = <<>>
          /\ OfClause(key, w) = <<>> /\ OfClause(key, i) = <<>>
      BY <1>1, <1>2, <1>3, <1>4, NoKeyIsAClause DEF PartsOf
    <2>2. PartOf(f.using, key) \o <<>> \o <<>> \o <<>> = PartOf(f.using, key)
      BY PartOfType DEF OnePart, Makings
    <2> QED  BY <1>9, <2>1, <2>2
  <1>14. /\ OfClause("where", t) = w /\ OfClause("if", t) = i /\ OfClause("columns", t) = c
         /\ OfClause("groupBy", t) = <<>> /\ OfClause("limit", t) = <<>>
         /\ OfClause("limitPerPartition", t) = <<>>
    BY <1>12, NoKeyIsAClause
  <1>15. f.groupBy = <<>> /\ f.limit = <<>> /\ f.limitPerPartition = <<>>
    BY DEF OfItsKind
  <1>16. c = Parts("columns", f.columns) /\ w = Parts("where", f.where) /\ i = Parts("if", f.if)
    BY <1>2, <1>3, <1>4 DEF PartsOf
  <1> QED  BY <1>8, <1>9, <1>10, <1>11, <1>13, <1>14, <1>15, <1>16, EmptyParts
           DEF WellWritten, InOrder, Ordered, Valued

LEMMA DeleteWritten ==
    ASSUME NEW f \in Makings, OfItsKind(f), f.kind = "delete", NEW s, s = DeleteToCql(f)
    PROVE  WellWritten(f, s)
  <1>1. PICK u \in Seq(Pieces) :
          /\ u = Clauses(f.using) /\ Holes(u) = Names(f.using) /\ ~ HasJson(u)
          /\ \A key \in Keys : OfClause(key, u) = PartOf(f.using, key)
          /\ \A c \in ClauseTags : OfClause(c, u) = <<>>
    BY ClausesType DEF Makings
  <1>2. PICK c : ColumnsOf(c, "columns", f.columns)
    BY ColumnsAre, NoKeyIsAClause DEF OfItsKind, Valued
  <1>3. PICK w : PartsOf(w, "where", f.where)
    BY PartsAre, NoKeyIsAClause DEF Makings
  <1>4. PICK i : PartsOf(i, "if", f.if)
    BY PartsAre, NoKeyIsAClause DEF Makings
  <1>5. c \in Seq(Pieces) /\ w \in Seq(Pieces) /\ i \in Seq(Pieces)
    BY <1>2, <1>3, <1>4 DEF PartsOf, ColumnsOf
  <1>6. s.text = c \o u \o w \o i
    BY <1>1, <1>2, <1>3, <1>4 DEF DeleteToCql, Statement, PartsOf, ColumnsOf
  <1>7. s.names = Holes(u) \o Holes(w) \o Holes(i)
    BY <1>1, <1>2, <1>3, <1>4 DEF DeleteToCql, Statement, PartsOf, ColumnsOf
  <1>8. PICK t : t = s.text
    OBVIOUS
  <1>9. /\ t \in Seq(Pieces)
        /\ Holes(t) = Holes(c) \o Holes(u) \o Holes(w) \o Holes(i)
        /\ HasJson(t) <=> HasJson(c) \/ HasJson(u) \/ HasJson(w) \/ HasJson(i)
        /\ \A d : OfClause(d, t) = OfClause(d, c) \o OfClause(d, u) \o OfClause(d, w)
                                      \o OfClause(d, i)
    <2>1. FourInOne(t, c, u, w, i)
      BY <1>1, <1>5, <1>6, <1>8, FourTexts
    <2> QED  BY <2>1 DEF FourInOne
  <1>10. ~ HasJson(t) /\ f.json = FALSE
    BY <1>1, <1>2, <1>3, <1>4, <1>9 DEF PartsOf, ColumnsOf, OfItsKind
  <1>11. s.names = Holes(t) /\ s.names \in Seq(Paths)
    <2>1. Holes(c) = <<>>
      BY <1>2 DEF ColumnsOf
    <2>2. <<>> \o Holes(u) = Holes(u)
      BY <1>1, HolesType
    <2> QED  BY <1>7, <1>9, <2>1, <2>2, HolesType
  <1>12. ASSUME NEW d \in ClauseTags
         PROVE  OfClause(d, t) = CASE d = "columns" -> c [] d = "where" -> w [] d = "if" -> i
                                   [] OTHER -> <<>>
    <2>1. /\ OfClause(d, u) = <<>>
          /\ OfClause(d, c) = IF d = "columns" THEN c ELSE <<>>
          /\ OfClause(d, w) = IF d = "where" THEN w ELSE <<>>
          /\ OfClause(d, i) = IF d = "if" THEN i ELSE <<>>
      BY <1>1, <1>2, <1>3, <1>4 DEF PartsOf, ColumnsOf
    <2>2. /\ c \o <<>> \o <<>> \o <<>> = c /\ <<>> \o <<>> \o w \o <<>> = w
          /\ <<>> \o <<>> \o <<>> \o i = i /\ <<>> \o <<>> \o <<>> \o <<>> = <<>>
      BY <1>5
    <2> QED  BY <1>9, <2>1, <2>2
  <1>13. ASSUME NEW key \in Keys PROVE OfClause(key, t) = PartOf(f.using, key)
    <2>1. /\ OfClause(key, u) = PartOf(f.using, key) /\ OfClause(key, c) = <<>>
          /\ OfClause(key, w) = <<>> /\ OfClause(key, i) = <<>>
      BY <1>1, <1>2, <1>3, <1>4, NoKeyIsAClause DEF PartsOf, ColumnsOf
    <2>2. <<>> \o PartOf(f.using, key) \o <<>> \o <<>> = PartOf(f.using, key)
      BY PartOfType DEF OnePart, Makings
    <2> QED  BY <1>9, <2>1, <2>2
  <1>14. /\ OfClause("where", t) = w /\ OfClause("if", t) = i /\ OfClause("columns", t) = c
         /\ OfClause("groupBy", t) = <<>> /\ OfClause("limit", t) = <<>>
         /\ OfClause("limitPerPartition", t) = <<>>
    BY <1>12, NoKeyIsAClause
  <1>15. f.groupBy = <<>> /\ f.limit = <<>> /\ f.limitPerPartition = <<>>
    BY DEF OfItsKind
  <1>16. c = ColumnParts("columns", f.columns) /\ w = Parts("where", f.where) /\ i = Parts("if", f.if)
    BY <1>2, <1>3, <1>4 DEF PartsOf, ColumnsOf
  <1> QED  BY <1>8, <1>9, <1>10, <1>11, <1>13, <1>14, <1>15, <1>16, EmptyParts
           DEF WellWritten, InOrder, Ordered, Valued

LEMMA InsertWritten ==
    ASSUME NEW f \in Makings, OfItsKind(f), f.kind = "insert", NEW s, s = InsertToCql(f)
    PROVE  WellWritten(f, s)
  <1>1. CASE f.json
    <2>1. PICK p \in Pieces : p = Clause("json", Param("json"), <<>>)
      <3>1. Param("json") \in Vals /\ "json" \in ClauseTags
        BY ParamIsValue DEF Words, ClauseTags
      <3> QED  BY <3>1, ClauseIsPiece
    <2>2. s.text = <<p>> /\ s.names = <<>> /\ p.clause = "json"
      BY <1>1, <2>1 DEF InsertToCql, Statement, Clause
    <2>3. s.text \in Seq(Pieces) /\ 1 \in DOMAIN s.text /\ s.text[1].clause = "json"
      BY <2>2
    <2>4. HasJson(s.text) /\ s.names \in Seq(Paths)
      BY <2>2, <2>3 DEF HasJson
    <2> QED  BY <1>1, <2>3, <2>4 DEF WellWritten
  <1>2. CASE ~ f.json
    <2>1. PICK u \in Seq(Pieces) :
            /\ u = Clauses(f.using) /\ Holes(u) = Names(f.using) /\ ~ HasJson(u)
            /\ \A key \in Keys : OfClause(key, u) = PartOf(f.using, key)
            /\ \A c \in ClauseTags : OfClause(c, u) = <<>>
      BY ClausesType DEF Makings
    <2>2. PICK c : PartsOf(c, "columns", f.columns)
      BY PartsAre, NoKeyIsAClause DEF OfItsKind, Valued
    <2>3. c \in Seq(Pieces) /\ ~ HasJson(c) /\ c = Parts("columns", f.columns)
      BY <2>2 DEF PartsOf
    <2>4. PICK t : t = s.text
      OBVIOUS
    <2>5. t = c \o u /\ s.names = Holes(c) \o Holes(u)
      BY <1>2, <2>1, <2>2, <2>4 DEF InsertToCql, Statement, PartsOf
    <2>6. t \in Seq(Pieces) /\ Holes(t) = Holes(c) \o Holes(u)
      BY <2>3, <2>5, ConcatProperties, HolesConcat
    <2>7. ~ HasJson(t)
      <3>1. HasJson(c \o u) <=> HasJson(c) \/ HasJson(u)
        BY <2>3, HasJsonConcat
      <3> QED  BY <2>1, <2>3, <2>5, <3>1
    <2>8. \A d : OfClause(d, t) = OfClause(d, c) \o OfClause(d, u)
      BY <2>3, <2>5, OfClauseConcat
    <2>9. ASSUME NEW d \in ClauseTags
          PROVE  OfClause(d, t) = IF d = "columns" THEN c ELSE <<>>
      <3>1. OfClause(d, u) = <<>> /\ OfClause(d, c) = IF d = "columns" THEN c ELSE <<>>
        BY <2>1, <2>2 DEF PartsOf
      <3>2. c \o <<>> = c /\ <<>> \o <<>> = <<>>
        BY <2>3
      <3> QED  BY <2>8, <3>1, <3>2
    <2>10. ASSUME NEW key \in Keys PROVE OfClause(key, t) = PartOf(f.using, key)
      <3>1. OfClause(key, u) = PartOf(f.using, key) /\ OfClause(key, c) = <<>>
        BY <2>1, <2>2, NoKeyIsAClause DEF PartsOf
      <3>2. <<>> \o PartOf(f.using, key) = PartOf(f.using, key)
        BY PartOfType DEF OnePart, Makings
      <3> QED  BY <2>8, <3>1, <3>2
    <2>11. /\ f.groupBy = <<>> /\ f.limit = <<>> /\ f.limitPerPartition = <<>>
           /\ f.if = <<>> /\ f.where = <<>>
      BY DEF OfItsKind
    <2>12. /\ OfClause("where", t) = <<>> /\ OfClause("if", t) = <<>>
           /\ OfClause("columns", t) = c /\ OfClause("groupBy", t) = <<>>
           /\ OfClause("limit", t) = <<>> /\ OfClause("limitPerPartition", t) = <<>>
      BY <2>9, NoKeyIsAClause
    <2>13. s.names = Holes(t) /\ s.names \in Seq(Paths)
      BY <2>5, <2>6, HolesType
    <2> QED  BY <1>2, <2>3, <2>4, <2>6, <2>7, <2>10, <2>11, <2>12, <2>13, EmptyParts
             DEF WellWritten, InOrder, Ordered, Valued
  <1> QED  BY <1>1, <1>2

LEMMA SelectWritten ==
    ASSUME NEW f \in Makings, OfItsKind(f), f.kind = "select", NEW s, s = SelectToCql(f)
    PROVE  WellWritten(f, s)
  <1> DEFINE tag == IF f.distinct # <<>> THEN "distinct" ELSE "columns"
             values == IF f.distinct # <<>> THEN f.distinct ELSE f.groupBy \o f.columns
  <1>1. PICK u \in Seq(Pieces) :
          /\ u = Clauses(f.using) /\ Holes(u) = Names(f.using) /\ ~ HasJson(u)
          /\ \A key \in Keys : OfClause(key, u) = PartOf(f.using, key)
          /\ \A c \in ClauseTags : OfClause(c, u) = <<>>
    BY ClausesType DEF Makings
  <1>2. values \in Seq(Words)
    <2>1. f.groupBy \in Seq(Words) /\ f.columns \in Seq(Words) /\ f.distinct \in Seq(Words)
      BY DEF Makings, OfItsKind, Valued
    <2>2. f.groupBy \o f.columns \in Seq(Words)
      BY <2>1, ConcatProperties
    <2> QED  BY <2>1, <2>2
  <1>3. PICK c : ColumnsOf(c, tag, values) /\ Holes(c) = <<>>
    <2>1. ColumnsOf(ColumnParts(tag, values), tag, values)
      BY <1>2, ColumnsAre, NoKeyIsAClause
    <2> HIDE DEF tag, values
    <2> QED  BY <2>1 DEF ColumnsOf
  <1>4. PICK w : PartsOf(w, "where", f.where)
    BY PartsAre, NoKeyIsAClause DEF Makings
  <1>5. PICK g : ColumnsOf(g, "groupBy", f.groupBy) /\ Holes(g) = <<>>
    <2>1. ColumnsOf(ColumnParts("groupBy", f.groupBy), "groupBy", f.groupBy)
      BY ColumnsAre, NoKeyIsAClause DEF Makings
    <2> QED  BY <2>1 DEF ColumnsOf
  <1>6. PICK p : PartsOf(p, "limitPerPartition", f.limitPerPartition)
    BY PartsAre, NoKeyIsAClause DEF Makings
  <1>7. PICK l : PartsOf(l, "limit", f.limit)
    BY PartsAre, NoKeyIsAClause DEF Makings
  <1>8. /\ c \in Seq(Pieces) /\ w \in Seq(Pieces) /\ g \in Seq(Pieces)
        /\ p \in Seq(Pieces) /\ l \in Seq(Pieces)
    BY <1>3, <1>4, <1>5, <1>6, <1>7 DEF PartsOf, ColumnsOf
  <1>9. c = Selectors(f)
    BY <1>3 DEF PartsOf, ColumnsOf, Selectors
  <1>10. PICK x : x = c \o w \o g \o p
    OBVIOUS
  <1>11. PICK t : t = s.text
    OBVIOUS
  <1>12. t = x \o l \o u
    BY <1>1, <1>4, <1>5, <1>6, <1>7, <1>9, <1>10, <1>11 DEF SelectToCql, Statement, PartsOf, ColumnsOf
  <1>13. s.names = Holes(w) \o Holes(p) \o Holes(l) \o Holes(u)
    BY <1>1, <1>4, <1>6, <1>7 DEF SelectToCql, Statement, PartsOf, ColumnsOf
  <1>14. FourInOne(x, c, w, g, p)
    BY <1>8, <1>10, FourTexts
  <1>15. PICK y \in Seq(Pieces) : y = x \o l /\ x \in Seq(Pieces)
    BY <1>8, <1>14, ConcatProperties DEF FourInOne
  <1>16. t = y \o u /\ t \in Seq(Pieces)
    BY <1>12, <1>15, ConcatProperties
  <1>17. s.names = Holes(t) /\ s.names \in Seq(Paths)
    <2>1. Holes(y) = Holes(x) \o Holes(l) /\ Holes(t) = Holes(y) \o Holes(u)
      BY <1>8, <1>15, <1>16, HolesConcat
    <2>2. Holes(x) = Holes(c) \o Holes(w) \o Holes(g) \o Holes(p)
      BY <1>14 DEF FourInOne
    <2>3. Holes(w) \in Seq(Paths)
      BY <1>8, HolesType
    <2>4. <<>> \o Holes(w) \o <<>> = Holes(w)
      BY <2>3
    <2> QED  BY <1>3, <1>5, <1>13, <1>16, <2>1, <2>2, <2>4, HolesType
  <1>18. ~ HasJson(t) /\ f.json = FALSE
    <2>1. HasJson(x \o l) <=> HasJson(x) \/ HasJson(l)
      BY <1>8, <1>15, HasJsonConcat
    <2>2. HasJson(y \o u) <=> HasJson(y) \/ HasJson(u)
      BY HasJsonConcat
    <2>3. ~ HasJson(x) /\ ~ HasJson(l)
      BY <1>3, <1>4, <1>5, <1>6, <1>7, <1>14 DEF FourInOne, PartsOf, ColumnsOf
    <2> QED  BY <1>1, <1>15, <1>16, <2>1, <2>2, <2>3 DEF OfItsKind
  <1>19. ASSUME NEW d
         PROVE  OfClause(d, t) = OfClause(d, c) \o OfClause(d, w) \o OfClause(d, g)
                                   \o OfClause(d, p) \o OfClause(d, l) \o OfClause(d, u)
    <2>1. OfClause(d, x \o l) = OfClause(d, x) \o OfClause(d, l)
      BY <1>8, <1>15, OfClauseConcat
    <2>2. OfClause(d, y \o u) = OfClause(d, y) \o OfClause(d, u)
      BY OfClauseConcat
    <2> QED  BY <1>14, <1>15, <1>16, <2>1, <2>2 DEF FourInOne
  <1>20. ASSUME NEW d \in ClauseTags
         PROVE  OfClause(d, t) = CASE d = tag -> c [] d = "where" -> w [] d = "groupBy" -> g
                                   [] d = "limitPerPartition" -> p [] d = "limit" -> l
                                   [] OTHER -> <<>>
    <2>1. /\ OfClause(d, u) = <<>>
          /\ OfClause(d, c) = IF d = tag THEN c ELSE <<>>
          /\ OfClause(d, w) = IF d = "where" THEN w ELSE <<>>
          /\ OfClause(d, g) = IF d = "groupBy" THEN g ELSE <<>>
          /\ OfClause(d, p) = IF d = "limitPerPartition" THEN p ELSE <<>>
          /\ OfClause(d, l) = IF d = "limit" THEN l ELSE <<>>
      BY <1>1, <1>3, <1>4, <1>5, <1>6, <1>7 DEF PartsOf, ColumnsOf
    <2>2. tag \notin {"where", "groupBy", "limitPerPartition", "limit"}
      OBVIOUS
    <2> HIDE DEF tag
    <2>3. PICK e : e = <<>>
      OBVIOUS
    <2>4. e \o e = e
      BY <2>3
    <2>5. CASE d = tag
      <3>1. OfClause(d, t) = c \o e \o e \o e \o e \o e
        BY <1>19, <2>1, <2>2, <2>3, <2>5
      <3>2. OfClause(d, t) = c
        BY <1>8, <2>3, <3>1, AmongEmpty
      <3> QED  BY <2>2, <2>5, <3>2
    <2>6. CASE d = "where"
      <3>1. OfClause(d, t) = e \o w \o e \o e \o e \o e
        BY <1>19, <2>1, <2>2, <2>3, <2>6
      <3> QED  BY <1>8, <2>2, <2>3, <2>6, <3>1, AmongEmpty
    <2>7. CASE d = "groupBy"
      <3>1. OfClause(d, t) = e \o e \o g \o e \o e \o e
        BY <1>19, <2>1, <2>2, <2>3, <2>7
      <3> QED  BY <1>8, <2>2, <2>3, <2>7, <3>1, AmongEmpty
    <2>8. CASE d = "limitPerPartition"
      <3>1. OfClause(d, t) = e \o e \o e \o p \o e \o e
        BY <1>19, <2>1, <2>2, <2>3, <2>8
      <3> QED  BY <1>8, <2>2, <2>3, <2>8, <3>1, AmongEmpty
    <2>9. CASE d = "limit"
      <3>1. OfClause(d, t) = e \o e \o e \o e \o l \o e
        BY <1>19, <2>1, <2>2, <2>3, <2>9
      <3> QED  BY <1>8, <2>2, <2>3, <2>9, <3>1, AmongEmpty
    <2>10. CASE d \notin {tag, "where", "groupBy", "limitPerPartition", "limit"}
      BY <1>19, <2>1, <2>3, <2>4, <2>10
    <2> QED  BY <2>5, <2>6, <2>7, <2>8, <2>9, <2>10
  <1>21. ASSUME NEW key \in Keys PROVE OfClause(key, t) = PartOf(f.using, key)
    <2>1. /\ OfClause(key, u) = PartOf(f.using, key) /\ OfClause(key, c) = <<>>
          /\ OfClause(key, w) = <<>> /\ OfClause(key, g) = <<>>
          /\ OfClause(key, p) = <<>> /\ OfClause(key, l) = <<>>
      BY <1>1, <1>3, <1>4, <1>5, <1>6, <1>7, NoKeyIsAClause DEF PartsOf, ColumnsOf
    <2>2. <<>> \o PartOf(f.using, key) = PartOf(f.using, key) /\ <<>> \o <<>> = <<>>
      BY PartOfType DEF OnePart, Makings
    <2> QED  BY <1>19, <2>1, <2>2
  <1>22. /\ OfClause("where", t) = w /\ OfClause("if", t) = <<>>
         /\ f.distinct = <<>> => OfClause("columns", t) = c /\ OfClause("distinct", t) = <<>>
         /\ f.distinct # <<>> => OfClause("columns", t) = <<>> /\ OfClause("distinct", t) = c
         /\ OfClause("groupBy", t) = g /\ OfClause("limit", t) = l
         /\ OfClause("limitPerPartition", t) = p
    BY <1>20, NoKeyIsAClause
  <1>23. f.if = <<>>
    BY DEF OfItsKind
  <1>24. /\ f.distinct = <<>> => c = ColumnParts("columns", f.groupBy \o f.columns)
         /\ f.distinct # <<>> => c = ColumnParts("distinct", f.distinct)
         /\ w = Parts("where", f.where) /\ g = ColumnParts("groupBy", f.groupBy)
         /\ p = Parts("limitPerPartition", f.limitPerPartition) /\ l = Parts("limit", f.limit)
    BY <1>3, <1>4, <1>5, <1>6, <1>7 DEF PartsOf, ColumnsOf
  <1> HIDE DEF tag, values
  <1> QED  BY <1>11, <1>16, <1>17, <1>18, <1>21, <1>22, <1>23, <1>24, EmptyParts
           DEF WellWritten, InOrder, Ordered, Valued

LEMMA BuilderWrites ==
    ASSUME NEW f \in Makings, OfItsKind(f), NEW s, s = BuilderToCql(f)
    PROVE  WellWritten(f, s)
  <1>1. f.kind \in AllKinds
    BY DEF Makings
  <1>2. CASE f.kind = "select"
    BY <1>2, SelectWritten DEF BuilderToCql
  <1>3. CASE f.kind = "insert"
    BY <1>3, InsertWritten DEF BuilderToCql
  <1>4. CASE f.kind = "update"
    BY <1>4, UpdateWritten DEF BuilderToCql
  <1>5. CASE f.kind = "delete"
    BY <1>5, DeleteWritten DEF BuilderToCql
  <1> QED  BY <1>1, <1>2, <1>3, <1>4, <1>5 DEF AllKinds

-----------------------------------------------------------------------------
(* The histories fit the builder: what was asked is what it holds, and its  *)
(* USING value is what the last setters left and writing has made of it.    *)
LastOf(s) == IF s = <<>> THEN <<>> ELSE <<s[Len(s)]>>
DistinctAsked(columns, asked) ==
    \A i \in {1} \cup DOMAIN asked :
        Standing(asked, i) => columns = DistinctSince(asked, i)
AsAsked(f, asked) ==
    /\ asked \in Seq(Pieces)
    /\ Parts("where", f.where) = OfClause("where", asked)
    /\ Parts("if", f.if) = OfClause("if", asked)
    /\ f.groupBy = ColumnsIn(OfClause("groupBy", asked))
    /\ f.kind \in Valued => Parts("columns", f.columns) = OfClause("columns", asked)
    /\ f.kind \notin Valued => f.columns = ColumnsIn(OfClause("columns", asked))
    /\ Parts("limit", f.limit) = LastOf(OfClause("limit", asked))
    /\ Parts("limitPerPartition", f.limitPerPartition)
         = LastOf(OfClause("limitPerPartition", asked))
    /\ DistinctAsked(f.distinct, asked)

(* The USING value after the last setter of each key: a TTL of zero is -1  *)
(* until it was written once, and a TTL set after it clears the name of a  *)
(* timestamp.                                                              *)
Setters == [by : {"none", "name", "value"}, arg : Int, name : SomeNames, writes : 0 .. 2,
            ttlAfter : BOOLEAN]
TTLKept(u, c) ==
    /\ c.by = "none" => u.ttl = 0 /\ u.ttlName = NoName
    /\ c.by = "name" => u.ttl = 0 /\ u.ttlName = c.name
    /\ c.by = "value" /\ Quot(c.arg, Second) \notin {0, -1} => u.ttl = Quot(c.arg, Second)
    /\ c.by = "value" /\ Quot(c.arg, Second) = 0 => u.ttl = IF c.writes = 0 THEN -1 ELSE 0
TimestampKept(u, c) ==
    /\ c.by = "none" => u.timestamp = 0 /\ u.timestampName = NoName
    /\ c.by = "name" => u.timestamp = 0 /\ (~ c.ttlAfter => u.timestampName = c.name)
    /\ c.by = "value" => u.timestamp = c.arg
TimeoutIsKept(u, c) ==
    /\ c.by = "none" => u.timeout = 0 /\ u.timeoutName = NoName
    /\ c.by = "name" => u.timeout = 0 /\ u.timeoutName = c.name
    /\ c.by = "value" => u.timeout = c.arg
UsingKept(u, setters) ==
    /\ setters \in [Keys -> Setters]
    /\ \A key \in Keys : setters[key].by = "name" => setters[key].name = key
    /\ TTLKept(u, setters["TTL"]) /\ TimestampKept(u, setters["TIMESTAMP"])
    /\ TimeoutIsKept(u, setters["TIMEOUT"])

(* The batch holds what was added to it.                                    *)
Additions ==
    {a \in [prefix : Words \cup {NoName}, stmt : [text : Seq(Pieces), names : Seq(Paths)]] :
       ~ HasJson(a.stmt.text) => a.stmt.names = Holes(a.stmt.text)}
NamesOf(a) ==
    [k \in DOMAIN Holes(a.stmt.text) |->
        (IF a.prefix = NoName THEN <<>> ELSE <<a.prefix>>) \o Holes(a.stmt.text)[k]]
AllNames(adds) == FlattenSeq([i \in DOMAIN adds |-> NamesOf(adds[i])])
AllText(adds) == FlattenSeq([i \in DOMAIN adds |-> adds[i].stmt.text])
SomeJson(adds) == \E i \in DOMAIN adds : HasJson(adds[i].stmt.text)
Batches == [stmts : Seq(Seq(Pieces)), names : Seq(Paths), using : Usings]
BatchHolds(bt, adds) ==
    /\ bt \in Batches /\ adds \in Seq(Additions)
    /\ bt.stmts = [i \in DOMAIN adds |-> adds[i].stmt.text]
    /\ HasJson(AllText(adds)) <=> SomeJson(adds)
    /\ ~ SomeJson(adds) => /\ bt.names = AllNames(adds)
                           /\ Len(bt.names) = Len(Holes(AllText(adds)))

OutputIsText(o) ==
    /\ o.stmt.text \in Seq(Pieces)
    /\ ~ HasJson(o.stmt.text) => Len(o.stmt.names) = Len(Holes(o.stmt.text))

(* What a statement shows that a builder, now f with the setters g, wrote.   *)
LiteralOf(key, arg) ==
    CASE key = "TTL"       -> <<Quot(arg, Second)>>
      [] key = "TIMESTAMP" -> <<arg>>
      [] key = "TIMEOUT"   -> formatDuration(arg)
AskedBy(g, key) ==
    CASE g[key].by = "none"  -> <<>>
      [] g[key].by = "name"  -> <<Clause(key, Param(g[key].name), <<>>)>>
      [] g[key].by = "value" -> <<Clause(key, Lit, LiteralOf(key, g[key].arg))>>
DroppedBy(g, key) ==
    \/ /\ key = "TTL" /\ g[key].by = "value"
       /\ \/ Quot(g[key].arg, Second) = -1
          \/ Quot(g[key].arg, Second) = 0 /\ g[key].writes > 1
    \/ key = "TIMESTAMP" /\ g[key].by = "name" /\ g[key].ttlAfter
    \/ key = "TIMESTAMP" /\ g[key].by = "value" /\ g[key].arg = 0
    \/ key = "TIMEOUT" /\ g[key].by = "value" /\ g[key].arg < Millisecond
AsSet(s, g) ==
    \A key \in Keys : DroppedBy(g, key) \/ OfClause(key, s.text) = AskedBy(g, key)
Shows(s, f, g) == ~ HasJson(s.text) => Ordered(f, s) /\ AsSet(s, g)

(* What a statement shows that a batch wrote: its own USING clause, then    *)
(* what was added to it.                                                    *)
InLine(s, adds) ==
    LET using == SubSeq(s.text, 1, Len(s.text) - Len(AllText(adds)))
    IN  /\ \A i \in DOMAIN using : using[i].clause \in Keys
        /\ s.text = using \o AllText(adds)
        /\ s.names = Holes(using) \o AllNames(adds)

Showing(o, f, g, adds) ==
    /\ o.from = "builder" => Shows(o.stmt, f, g)
    /\ o.from = "batch" /\ ~ SomeJson(adds) => InLine(o.stmt, adds)

(* The inductive invariant.                                                 *)
Building ==
    /\ program \in Programs
    /\ b \in Makings /\ OfItsKind(b)
    /\ AsAsked(b, calls) /\ UsingKept(b.using, last)
    /\ BatchHolds(batch, added)
    /\ OutputIsText(out) /\ Showing(out, b, last, added)

-----------------------------------------------------------------------------
(* What is added to a builder is a value, and the builder is as asked.      *)
LEMMA TwoOf == ASSUME NEW S, NEW f, f \in [1 .. 2 -> S] PROVE f \in Seq(S)
  <1>1. PICK n \in Nat : n = 2
    OBVIOUS
  <1>2. f \in [1 .. n -> S]
    BY <1>1
  <1> QED  BY <1>2

LEMMA TupleIsValue == ASSUME NEW n \in Words PROVE TupleParam(n, 2) \in Vals
  <1>1. \A i \in 1 .. 2 : ToString(i - 1) \in Words
    BY DEF Words
  <1>2. \A i \in 1 .. 2 : <<n, ToString(i - 1)>> \in Paths
    BY <1>1 DEF Paths
  <1>3. TupleParam(n, 2) \in [1 .. 2 -> Paths]
    BY <1>2 DEF TupleParam
  <1> QED  BY <1>3, TwoOf DEF Vals

LEMMA TokenIsValue ==
    ASSUME NEW m \in Words, NEW n \in Words PROVE Token(<<m, n>>, <<>>) \in Vals
  <1>1. <<m>> \in Paths /\ <<n>> \in Paths
    BY OneOf DEF Paths
  <1>2. Token(<<m, n>>, <<>>) = [i \in 1 .. 2 |-> << <<m, n>>[i] >>]
    BY DEF Token, Func
  <1>3. \A i \in 1 .. 2 : << <<m, n>>[i] >> \in Paths
    <2> SUFFICES ASSUME NEW i \in 1 .. 2 PROVE << <<m, n>>[i] >> \in Paths
      OBVIOUS
    <2>1. i = 1 \/ i = 2
      OBVIOUS
    <2> QED  BY <1>1, <2>1
  <1>4. Token(<<m, n>>, <<>>) \in [1 .. 2 -> Paths]
    BY <1>2, <1>3
  <1> QED  BY <1>4, TwoOf DEF Vals

LEMMA ValuesAreVals ==
    ASSUME NEW p \in Programs, NEW value,
           value \in {Lit} \cup {Param(n) : n \in p.params}
                      \cup {TupleParam(n, 2) : n \in p.params}
                      \cup {Token(columns, <<>>) : columns \in p.params \X p.params}
    PROVE  value \in Vals
  <1> DEFINE params == {Param(n) : n \in p.params}
             tuples == {TupleParam(n, 2) : n \in p.params}
             tokens == {Token(columns, <<>>) : columns \in p.params \X p.params}
  <1>1. \A n \in p.params : n \in Words
    BY DEF Words
  <1>2. \A v \in params : v \in Vals
    BY <1>1, ParamIsValue
  <1>3. \A v \in tuples : v \in Vals
    BY <1>1, TupleIsValue
  <1>4. \A v \in tokens : v \in Vals
    <2> SUFFICES ASSUME NEW columns \in p.params \X p.params
                 PROVE  Token(columns, <<>>) \in Vals
      OBVIOUS
    <2>1. PICK m \in Words, n \in Words : columns = <<m, n>>
      BY <1>1
    <2> QED  BY <2>1, TokenIsValue
  <1>5. value \in {Lit} \cup params \cup tuples \cup tokens
    OBVIOUS
  <1> HIDE DEF params, tuples, tokens
  <1> QED  BY <1>2, <1>3, <1>4, <1>5, LitIsValue

(* One more value of a clause is one more part of it.                      *)
LEMMA OnlyClause ==
    ASSUME NEW c, NEW d, NEW v
    PROVE  Only(c, Clause(d, v, <<>>)) = IF c = d THEN <<Clause(d, v, <<>>)>> ELSE <<>>
  BY DEF Only, Clause

LEMMA PartsAppend ==
    ASSUME NEW c \in ClauseTags, NEW vs \in Seq(Vals), NEW v \in Vals
    PROVE  Parts(c, Append(vs, v)) = Append(Parts(c, vs), Clause(c, v, <<>>))
  <1>1. PICK ws \in Seq(Vals) : ws = Append(vs, v)
    BY AppendProperties
  <1>2. PICK p \in Pieces : p = Clause(c, v, <<>>)
    BY ClauseIsPiece
  <1>3. /\ Len(ws) = Len(vs) + 1 /\ ws[Len(vs) + 1] = v /\ Len(vs) \in Nat
        /\ \A i \in 1 .. Len(vs) : ws[i] = vs[i]
    BY <1>1, AppendProperties, LenProperties
  <1> DEFINE s == Parts(c, vs)
             t == Parts(c, ws)
  <1>4. /\ s \in Seq(Pieces) /\ Len(s) = Len(vs)
        /\ \A i \in 1 .. Len(vs) : s[i] = Clause(c, vs[i], <<>>)
    BY PartsType
  <1>5. /\ t \in Seq(Pieces) /\ Len(t) = Len(ws)
        /\ \A i \in 1 .. Len(ws) : t[i] = Clause(c, ws[i], <<>>)
    BY PartsType
  <1> HIDE DEF s, t
  <1>6. /\ Append(s, p) \in Seq(Pieces) /\ Len(Append(s, p)) = Len(s) + 1
        /\ \A i \in 1 .. Len(s) : Append(s, p)[i] = s[i]
        /\ Append(s, p)[Len(s) + 1] = p
    BY <1>4, AppendProperties
  <1>7. \A i \in 1 .. Len(t) : t[i] = Append(s, p)[i]
    <2> SUFFICES ASSUME NEW i \in 1 .. Len(t) PROVE t[i] = Append(s, p)[i]
      OBVIOUS
    <2>1. CASE i = Len(vs) + 1
      BY <1>2, <1>3, <1>4, <1>5, <1>6, <2>1
    <2>2. CASE i # Len(vs) + 1
      <3>1. i \in 1 .. Len(vs) /\ i \in 1 .. Len(s)
        BY <1>3, <1>4, <1>5, <2>2
      <3> QED  BY <1>3, <1>4, <1>5, <1>6, <3>1
    <2> QED  BY <2>1, <2>2
  <1>8. t = Append(s, p)
    BY <1>3, <1>4, <1>5, <1>6, <1>7, SeqEqual
  <1> QED  BY <1>1, <1>2, <1>8 DEF s, t

LEMMA LastOfAppend ==
    ASSUME NEW s \in Seq(Pieces), NEW p \in Pieces
    PROVE  /\ LastOf(s \o <<p>>) = <<p>> /\ s \o <<p>> # <<>>
           /\ s \o <<p>> = Append(s, p)
  <1>1. Append(s, p) = s \o <<p>>
    BY AppendIsConcat
  <1>2. PICK t \in Seq(Pieces) : t = Append(s, p) /\ t # <<>> /\ Len(t) = Len(s) + 1
                                  /\ t[Len(s) + 1] = p
    BY AppendProperties
  <1> QED  BY <1>1, <1>2 DEF LastOf

-----------------------------------------------------------------------------
(* One more call in the history of what was asked.                         *)
OneMore(more, asked, p) ==
    /\ more \in Seq(Pieces)
    /\ \A d : d # p.clause => OfClause(d, more) = OfClause(d, asked)
    /\ OfClause(p.clause, more) = Append(OfClause(p.clause, asked), p)
    /\ LastOf(OfClause(p.clause, more)) = <<p>>
    /\ ColumnsIn(OfClause(p.clause, more))
         = ColumnsIn(OfClause(p.clause, asked)) \o p.literal

LEMMA AskedMore ==
    ASSUME NEW p \in Pieces, NEW asked \in Seq(Pieces), NEW more, more = Append(asked, p)
    PROVE  OneMore(more, asked, p)
  <1>1. PICK c : c = p.clause
    OBVIOUS
  <1>2. \A d : OfClause(d, more) = OfClause(d, asked) \o Only(d, p)
    BY OfClauseAppend
  <1>3. \A d : OfClause(d, asked) \in Seq(Pieces)
    BY OfClauseType
  <1>4. \A d : Only(d, p) = IF d = c THEN <<p>> ELSE <<>>
    BY <1>1 DEF Only
  <1>5. ASSUME NEW d, d # c PROVE OfClause(d, more) = OfClause(d, asked)
    <2>1. OfClause(d, more) = OfClause(d, asked) \o <<>>
      BY <1>2, <1>4, <1>5
    <2> QED  BY <1>3, <2>1, ConcatEmptySeq
  <1>6. PICK s \in Seq(Pieces) : s = OfClause(c, asked)
    BY <1>3
  <1>7. OfClause(c, more) = s \o <<p>>
    BY <1>2, <1>4, <1>6
  <1>8. LastOf(s \o <<p>>) = <<p>> /\ s \o <<p>> = Append(s, p)
    BY LastOfAppend
  <1>9. ColumnsIn(s \o <<p>>) = ColumnsIn(s) \o p.literal
    <2>1. PICK u \in Seq(Pieces) : u = <<p>>
      BY OneOf
    <2>2. ColumnsIn(s \o u) = ColumnsIn(s) \o ColumnsIn(u)
      BY ColumnsConcat
    <2> QED  BY <2>1, <2>2, ColumnsOne
  <1> QED  BY <1>1, <1>5, <1>6, <1>7, <1>8, <1>9, AppendProperties DEF OneMore

(* A part of a sequence.                                                    *)
Within(s, m, n, S) == \A i \in m .. n : s[i] \in S
IsCut(x, s, m, n, S) ==
    /\ x \in Seq(S) /\ Len(x) = IF m <= n THEN n - m + 1 ELSE 0
    /\ \A i \in 1 .. n - m + 1 : x[i] = s[m + i - 1]

LEMMA CutIs ==
    ASSUME NEW S, NEW s, NEW m \in Int, NEW n \in Int, Within(s, m, n, S)
    PROVE  IsCut(SubSeq(s, m, n), s, m, n, S)
  <1>1. \A i \in m .. n : s[i] \in S
    BY DEF Within
  <1>2. PICK x : x = SubSeq(s, m, n)
    OBVIOUS
  <1>3. x \in Seq(S)
    BY <1>1, <1>2, SubSeqProperties
  <1>4. Len(x) = IF m <= n THEN n - m + 1 ELSE 0
    BY <1>1, <1>2, SubSeqProperties
  <1>5. \A i \in 1 .. n - m + 1 : x[i] = s[m + i - 1]
    BY <1>1, <1>2, SubSeqProperties
  <1> QED  BY <1>2, <1>3, <1>4, <1>5 DEF IsCut

Alike(s, t, m, n, S) ==
    Within(s, m, n, S) /\ Within(t, m, n, S) /\ \A i \in m .. n : s[i] = t[i]
SameCut(s, t, m, n) == SubSeq(s, m, n) = SubSeq(t, m, n)

LEMMA CutsEqual ==
    ASSUME NEW S, NEW s, NEW t, NEW m \in Int, NEW n \in Int, Alike(s, t, m, n, S)
    PROVE  SameCut(s, t, m, n)
  <1>1. PICK x, y : x = SubSeq(s, m, n) /\ y = SubSeq(t, m, n)
    OBVIOUS
  <1>2. IsCut(x, s, m, n, S) /\ IsCut(y, t, m, n, S)
    BY <1>1, CutIs, Zenon DEF Alike
  <1>3. x \in Seq(S) /\ y \in Seq(S) /\ Len(x) = Len(y)
    BY <1>2 DEF IsCut
  <1>4. \A i \in 1 .. Len(x) : i \in 1 .. n - m + 1 /\ m + i - 1 \in m .. n
    BY <1>2 DEF IsCut
  <1>5. \A i \in 1 .. Len(x) : x[i] = y[i]
    BY <1>2, <1>4 DEF IsCut, Alike
  <1>6. x = y
    BY <1>3, <1>5, SeqEqual
  <1> QED  BY <1>1, <1>6 DEF SameCut

(* The tail of a history after one more call, and its beginnings.           *)
LEMMA MoreOf ==
    ASSUME NEW s \in Seq(Pieces), NEW p \in Pieces, NEW more, more = Append(s, p)
    PROVE  /\ Len(more) = Len(s) + 1 /\ Len(s) \in Nat /\ DOMAIN more = 1 .. Len(s) + 1
           /\ DOMAIN s = 1 .. Len(s)
           /\ more[Len(s) + 1] = p /\ \A i \in 1 .. Len(s) : more[i] = s[i]
           /\ \A i \in 1 .. Len(s) + 1 :
                /\ SubSeq(more, 1, i - 1) = SubSeq(s, 1, i - 1)
                /\ SubSeq(s, i, Len(s)) \in Seq(Pieces)
                /\ SubSeq(more, i, Len(s) + 1) = Append(SubSeq(s, i, Len(s)), p)
           /\ SubSeq(s, 1, Len(s)) = s
  <1>1. /\ Len(more) = Len(s) + 1 /\ Len(s) \in Nat /\ DOMAIN more = 1 .. Len(s) + 1
        /\ DOMAIN s = 1 .. Len(s) /\ more \in Seq(Pieces)
        /\ more[Len(s) + 1] = p /\ \A i \in 1 .. Len(s) : more[i] = s[i]
    BY AppendProperties, LenProperties
  <1>2. PICK n \in Nat : n = Len(s)
    BY <1>1
  <1>3. /\ \A i \in 1 .. n : s[i] \in Pieces
        /\ \A i \in 1 .. n + 1 : more[i] \in Pieces
    BY <1>1, <1>2, ElementOfSeq
  <1>4. ASSUME NEW i \in 1 .. n + 1
        PROVE  SubSeq(more, 1, i - 1) = SubSeq(s, 1, i - 1)
    <2>1. PICK m \in Int, k \in Int : m = 1 /\ k = i - 1
      OBVIOUS
    <2>2. \A l \in m .. k : l \in 1 .. n /\ l \in 1 .. n + 1
      BY <2>1
    <2>3. Within(more, m, k, Pieces) /\ Within(s, m, k, Pieces)
      BY <1>3, <2>2 DEF Within
    <2>4. \A l \in m .. k : more[l] = s[l]
      BY <1>1, <1>2, <2>2
    <2>5. Alike(more, s, m, k, Pieces)
      BY <2>3, <2>4 DEF Alike
    <2>6. SameCut(more, s, m, k)
      BY <2>5, CutsEqual, Zenon
    <2> QED  BY <2>1, <2>6 DEF SameCut
  <1>5. ASSUME NEW i \in 1 .. n + 1
        PROVE  /\ SubSeq(s, i, n) \in Seq(Pieces)
               /\ SubSeq(more, i, n + 1) = Append(SubSeq(s, i, n), p)
    <2>1. i \in Int /\ n \in Int /\ \A k \in i .. n : k \in 1 .. n /\ k \in 1 .. n + 1
      OBVIOUS
    <2>2. Within(more, i, n, Pieces) /\ Within(s, i, n, Pieces)
      BY <1>3, <2>1 DEF Within
    <2>3. PICK x \in Seq(Pieces) : x = SubSeq(s, i, n)
      BY <2>1, <2>2, CutIs, Zenon DEF IsCut
    <2>4. SubSeq(more, i, n + 1) = SubSeq(more, i, n) \o <<more[n + 1]>>
      <3>1. PICK k : k = n + 1
        OBVIOUS
      <3>2. i \in 1 .. Len(more) /\ k \in i .. Len(more) /\ k - 1 = n
        BY <1>1, <1>2, <3>1
      <3>3. SubSeq(more, i, k) = SubSeq(more, i, k - 1) \o <<more[k]>>
        BY <1>1, <3>2, SubSeqRecursiveSecond
      <3> QED  BY <3>1, <3>2, <3>3
    <2>5. \A k \in i .. n : more[k] = s[k]
      BY <1>1, <1>2, <2>1
    <2>6. SubSeq(more, i, n) = SubSeq(s, i, n)
      <3>1. Alike(more, s, i, n, Pieces)
        BY <2>2, <2>5 DEF Alike
      <3>2. SameCut(more, s, i, n)
        BY <2>1, <3>1, CutsEqual, Zenon
      <3> QED  BY <3>2 DEF SameCut
    <2>7. Append(x, p) = x \o <<p>>
      BY AppendIsConcat
    <2> QED  BY <1>1, <1>2, <2>3, <2>4, <2>6, <2>7
  <1>6. SubSeq(s, 1, Len(s)) = s
    BY SubSeqFull
  <1> QED  BY <1>1, <1>2, <1>4, <1>5, <1>6

(* DISTINCT after one more call.                                            *)
DistinctAfter(columns, asked, p) ==
    IF p.clause # "distinct" THEN columns
    ELSE IF OfClause("where", asked) = <<>> THEN p.literal ELSE columns \o p.literal

LEMMA DistinctMore ==
    ASSUME NEW columns, NEW asked \in Seq(Pieces), DistinctAsked(columns, asked),
           NEW p \in Pieces, NEW more, more = Append(asked, p)
    PROVE  DistinctAsked(DistinctAfter(columns, asked, p), more)
  <1>1. PICK n \in Nat : n = Len(asked)
    BY LenProperties
  <1>2. /\ Len(more) = n + 1 /\ DOMAIN more = 1 .. n + 1 /\ DOMAIN asked = 1 .. n
        /\ more[n + 1] = p /\ \A i \in 1 .. n : more[i] = asked[i]
        /\ \A i \in 1 .. n + 1 :
             /\ SubSeq(more, 1, i - 1) = SubSeq(asked, 1, i - 1)
             /\ SubSeq(asked, i, n) \in Seq(Pieces)
             /\ SubSeq(more, i, n + 1) = Append(SubSeq(asked, i, n), p)
        /\ SubSeq(asked, 1, n) = asked
    BY <1>1, MoreOf
  <1>3. Discards(more, n + 1) <=> p.clause = "distinct" /\ OfClause("where", asked) = <<>>
    <2>1. (n + 1) - 1 = n /\ n + 1 \in 1 .. n + 1
      OBVIOUS
    <2>2. SubSeq(more, 1, (n + 1) - 1) = asked
      BY <1>2, <2>1
    <2> QED  BY <1>2, <2>2 DEF Discards
  <1>4. \A i \in 1 .. n : Discards(more, i) <=> Discards(asked, i)
    <2> TAKE i \in 1 .. n
    <2>1. i \in 1 .. n + 1
      OBVIOUS
    <2>2. more[i] = asked[i] /\ SubSeq(more, 1, i - 1) = SubSeq(asked, 1, i - 1)
      BY <1>2, <2>1
    <2> QED  BY <2>2, Zenon DEF Discards
  <1> SUFFICES ASSUME NEW i \in {1} \cup DOMAIN more, Standing(more, i)
               PROVE  DistinctAfter(columns, asked, p) = DistinctSince(more, i)
    BY DEF DistinctAsked
  <1>5. i \in 1 .. n + 1
    BY <1>2
  <1>6. PICK s \in Seq(Pieces) : s = SubSeq(asked, i, n)
    BY <1>2, <1>5
  <1>7. DistinctSince(more, i) = ColumnsIn(OfClause("distinct", Append(s, p)))
    BY <1>2, <1>5, <1>6 DEF DistinctSince
  <1>8. PICK l : l = Append(s, p)
    OBVIOUS
  <1>9. OneMore(l, s, p)
    BY <1>8, AskedMore
  <1>10. CASE Discards(more, n + 1)
    <2>1. i = n + 1
      <3>1. i < n + 1 => n + 1 \in i + 1 .. n + 1
        BY <1>5
      <3>2. ~ (i < n + 1)
        BY <1>2, <1>10, <3>1 DEF Standing
      <3> QED  BY <1>5, <3>2
    <2>2. s = <<>>
      BY <1>6, <2>1, SubSeqEmpty
    <2>3. ColumnsIn(OfClause("distinct", s)) = <<>>
      BY <2>2, OfClauseEmpty, ColumnsEmpty
    <2>4. p.clause = "distinct" /\ OfClause("where", asked) = <<>>
      BY <1>3, <1>10
    <2>5. ColumnsIn(OfClause("distinct", l)) = <<>> \o p.literal
      BY <1>9, <2>3, <2>4 DEF OneMore
    <2>6. p.literal \in Seq(Int \cup Words)
      BY DEF Pieces, Literals
    <2>7. <<>> \o p.literal = p.literal
      BY <2>6, ConcatEmptySeq
    <2> QED  BY <1>7, <1>8, <2>4, <2>5, <2>7 DEF DistinctAfter
  <1>11. CASE ~ Discards(more, n + 1)
    <2>1. i \in {1} \cup DOMAIN asked
      <3>1. i = n + 1 => i = 1
        BY <1>11 DEF Standing
      <3> QED  BY <1>2, <1>5, <3>1
    <2>2. Standing(asked, i)
      <3>1. i = 1 \/ Discards(asked, i)
        <4>1. CASE i = n + 1
          BY <1>11, <4>1 DEF Standing
        <4>2. CASE i # n + 1
          <5>1. i \in 1 .. n
            BY <1>5, <4>2
          <5> QED  BY <1>4, <5>1 DEF Standing
        <4> QED  BY <4>1, <4>2
      <3>2. ASSUME NEW k \in i + 1 .. Len(asked) PROVE ~ Discards(asked, k)
        <4>1. k \in 1 .. n /\ k \in i + 1 .. Len(more)
          BY <1>1, <1>2, <1>5, <3>2
        <4> QED  BY <1>4, <4>1 DEF Standing
      <3> QED  BY <3>1, <3>2 DEF Standing
    <2>3. columns = ColumnsIn(OfClause("distinct", s))
      BY <1>1, <1>6, <2>1, <2>2 DEF DistinctAsked, DistinctSince
    <2>4. CASE p.clause = "distinct"
      BY <1>3, <1>7, <1>8, <1>9, <1>11, <2>3, <2>4 DEF DistinctAfter, OneMore
    <2>5. CASE p.clause # "distinct"
      BY <1>7, <1>8, <1>9, <2>3, <2>5 DEF DistinctAfter, OneMore
    <2> QED  BY <2>4, <2>5
  <1> QED  BY <1>10, <1>11

(* A builder after a clause was added.                                      *)
Asks(f, g, asked, p) ==
    /\ g \in Makings /\ OfItsKind(g) /\ g.kind = f.kind /\ g.using = f.using
    /\ AsAsked(g, Append(asked, p))

(* What a call adds to is a clause of a statement.                          *)
LEMMA SomeClause ==
    ASSUME NEW kind \in AllKinds, NEW c, c \in ValueClauses(kind) \cup ColumnClauses(kind)
    PROVE  c \in ClauseTags \ {"json"}
  <1>1. CASE kind = "select"
    BY <1>1 DEF ValueClauses, ColumnClauses, ClauseTags
  <1>2. CASE kind = "insert"
    BY <1>2 DEF ValueClauses, ColumnClauses, ClauseTags
  <1>3. CASE kind = "update"
    BY <1>3 DEF ValueClauses, ColumnClauses, ClauseTags
  <1>4. CASE kind = "delete"
    BY <1>4 DEF ValueClauses, ColumnClauses, ClauseTags
  <1> QED  BY <1>1, <1>2, <1>3, <1>4 DEF AllKinds

LEMMA AddKeeps ==
    ASSUME NEW f \in Makings, OfItsKind(f), NEW asked, AsAsked(f, asked),
           NEW c, NEW v \in Vals, NEW g, g = Add(f, c, v), c \in ValueClauses(f.kind)
    PROVE  Asks(f, g, asked, Clause(c, v, <<>>))
  <1>1. f.kind \in AllKinds
    BY DEF Makings
  <1>2. c \in ClauseTags \ {"json"}
    BY <1>1, SomeClause
  <1>3. asked \in Seq(Pieces)
    BY DEF AsAsked
  <1>4. PICK p \in Pieces : p = Clause(c, v, <<>>) /\ p.clause = c
    BY <1>2, ClauseIsPiece DEF Clause
  <1>5. PICK more : more = Append(asked, p)
    OBVIOUS
  <1>6. /\ more \in Seq(Pieces)
        /\ \A d : d # c => OfClause(d, more) = OfClause(d, asked)
        /\ OfClause(c, more) = Append(OfClause(c, asked), Clause(c, v, <<>>))
        /\ LastOf(OfClause(c, more)) = Parts(c, <<v>>)
    <2>1. OneMore(more, asked, p)
      BY <1>3, <1>5, AskedMore
    <2>2. Parts(c, <<v>>) = <<p>>
      BY <1>4 DEF Parts
    <2> QED  BY <1>4, <2>1, <2>2 DEF OneMore
  <1>7. c # "distinct" /\ c # "groupBy"
    BY <1>1 DEF ValueClauses, AllKinds
  <1>8. DistinctAsked(f.distinct, more)
    <2>1. DistinctAsked(DistinctAfter(f.distinct, asked, p), more)
      BY <1>3, <1>5, DistinctMore DEF AsAsked
    <2> QED  BY <1>4, <1>7, <2>1 DEF DistinctAfter
  <1>9. ASSUME NEW vs \in Seq(Vals)
        PROVE  /\ Parts(c, Append(vs, v)) = Append(Parts(c, vs), Clause(c, v, <<>>))
               /\ Append(vs, v) \in Seq(Vals)
    BY <1>2, PartsAppend, AppendProperties
  <1>10. <<v>> \in Seq(Vals) /\ Len(<<v>>) = 1
    BY OneOf
  <1>11. CASE c = "columns"
    <2>1. g = [f EXCEPT !.columns = Append(@, v)]
      BY <1>11 DEF Add, AddValue
    <2>2. f.kind \in Valued
      BY <1>1, <1>11 DEF ValueClauses, AllKinds, Valued
    <2>3. f.columns \in Seq(Vals)
      BY <2>2 DEF OfItsKind
    <2>4. g \in Makings /\ g.columns = Append(f.columns, v)
      BY <1>9, <2>1, <2>3 DEF Makings
    <2>5. OfItsKind(g)
      BY <1>9, <2>1, <2>2, <2>3, <2>4 DEF OfItsKind, Makings
    <2>6. AsAsked(g, more)
      BY <1>6, <1>8, <1>9, <1>11, <2>1, <2>2, <2>3, <2>4 DEF AsAsked, Makings
    <2> QED  BY <1>4, <1>5, <2>1, <2>4, <2>5, <2>6 DEF Asks, Makings
  <1>12. CASE c = "where"
    <2>1. g = [f EXCEPT !.where = Append(@, v)]
      BY <1>12 DEF Add, AddValue
    <2>2. f.kind # "insert"
      BY <1>12 DEF ValueClauses
    <2>3. f.where \in Seq(Vals)
      BY DEF Makings
    <2>4. g \in Makings /\ g.where = Append(f.where, v)
      BY <1>9, <2>1, <2>3 DEF Makings
    <2>5. OfItsKind(g)
      BY <2>1, <2>2, <2>4 DEF OfItsKind, Makings
    <2>6. AsAsked(g, more)
      BY <1>6, <1>8, <1>9, <1>12, <2>1, <2>3, <2>4 DEF AsAsked, Makings
    <2> QED  BY <1>4, <1>5, <2>1, <2>4, <2>5, <2>6 DEF Asks, Makings
  <1>13. CASE c = "if"
    <2>1. g = [f EXCEPT !.if = Append(@, v)]
      BY <1>13 DEF Add, AddValue
    <2>2. f.kind \notin {"select", "insert"}
      BY <1>13 DEF ValueClauses
    <2>3. f.if \in Seq(Vals)
      BY DEF Makings
    <2>4. g \in Makings /\ g.if = Append(f.if, v)
      BY <1>9, <2>1, <2>3 DEF Makings
    <2>5. OfItsKind(g)
      BY <2>1, <2>2, <2>4 DEF OfItsKind, Makings
    <2>6. AsAsked(g, more)
      BY <1>6, <1>8, <1>9, <1>13, <2>1, <2>3, <2>4 DEF AsAsked, Makings
    <2> QED  BY <1>4, <1>5, <2>1, <2>4, <2>5, <2>6 DEF Asks, Makings
  <1>14. CASE c = "limit"
    <2>1. g = [f EXCEPT !.limit = <<v>>]
      BY <1>14 DEF Add
    <2>2. f.kind = "select"
      BY <1>1, <1>14 DEF ValueClauses, AllKinds
    <2>3. g \in Makings /\ g.limit = <<v>>
      BY <1>10, <2>1 DEF Makings
    <2>4. OfItsKind(g)
      BY <1>10, <2>1, <2>2, <2>3 DEF OfItsKind, Makings
    <2>5. AsAsked(g, more)
      BY <1>6, <1>8, <1>14, <2>1, <2>3 DEF AsAsked, Makings
    <2> QED  BY <1>4, <1>5, <2>1, <2>3, <2>4, <2>5 DEF Asks, Makings
  <1>15. CASE c = "limitPerPartition"
    <2>1. g = [f EXCEPT !.limitPerPartition = <<v>>]
      BY <1>15 DEF Add
    <2>2. f.kind = "select"
      BY <1>1, <1>15 DEF ValueClauses, AllKinds
    <2>3. g \in Makings /\ g.limitPerPartition = <<v>>
      BY <1>10, <2>1 DEF Makings
    <2>4. OfItsKind(g)
      BY <1>10, <2>1, <2>2, <2>3 DEF OfItsKind, Makings
    <2>5. AsAsked(g, more)
      BY <1>6, <1>8, <1>15, <2>1, <2>3 DEF AsAsked, Makings
    <2> QED  BY <1>4, <1>5, <2>1, <2>3, <2>4, <2>5 DEF Asks, Makings
  <1> QED  BY <1>2, <1>7, <1>11, <1>12, <1>13, <1>14, <1>15 DEF ClauseTags

(* A builder after a call that gives it columns.                            *)
LEMMA AddColumnsKeeps ==
    ASSUME NEW f \in Makings, OfItsKind(f), NEW asked, AsAsked(f, asked),
           NEW c, NEW columns \in Seq(Words), NEW g, g = AddColumns(f, c, columns),
           c \in ColumnClauses(f.kind)
    PROVE  Asks(f, g, asked, Clause(c, Lit, columns))
  <1>1. f.kind \in AllKinds
    BY DEF Makings
  <1>2. c \in ClauseTags /\ f.kind \notin Valued
    <2>1. c \in ClauseTags
      BY <1>1, SomeClause
    <2> QED  BY <1>1, <2>1 DEF ColumnClauses, AllKinds, Valued
  <1>3. asked \in Seq(Pieces)
    BY DEF AsAsked
  <1>4. PICK p \in Pieces : p = Clause(c, Lit, columns) /\ p.clause = c /\ p.literal = columns
    BY <1>2, ColumnIsPiece DEF Clause
  <1>5. PICK more : more = Append(asked, p)
    OBVIOUS
  <1>6. /\ more \in Seq(Pieces)
        /\ \A d : d # c => OfClause(d, more) = OfClause(d, asked)
        /\ ColumnsIn(OfClause(c, more)) = ColumnsIn(OfClause(c, asked)) \o columns
    <2>1. OneMore(more, asked, p)
      BY <1>3, <1>5, AskedMore
    <2> QED  BY <1>4, <2>1 DEF OneMore
  <1>7. DistinctAsked(DistinctAfter(f.distinct, asked, p), more)
    BY <1>3, <1>5, DistinctMore DEF AsAsked
  <1>8. ASSUME NEW cs \in Seq(Words) PROVE cs \o columns \in Seq(Words)
    BY ConcatProperties
  <1>9. f.columns \in Seq(Words) /\ f.groupBy \in Seq(Words) /\ f.distinct \in Seq(Words)
    BY <1>2 DEF OfItsKind, Makings
  <1>10. CASE c = "columns"
    <2>1. g = [f EXCEPT !.columns = @ \o columns]
      BY <1>10 DEF AddColumns
    <2>2. g \in Makings /\ g.columns = f.columns \o columns
      BY <1>8, <1>9, <2>1 DEF Makings
    <2>3. OfItsKind(g)
      BY <1>2, <1>8, <1>9, <2>1, <2>2 DEF OfItsKind, Makings
    <2>4. DistinctAsked(f.distinct, more)
      BY <1>4, <1>7, <1>10 DEF DistinctAfter
    <2>5. AsAsked(g, more)
      BY <1>2, <1>6, <1>10, <2>1, <2>2, <2>4 DEF AsAsked, Makings
    <2> QED  BY <1>4, <1>5, <2>1, <2>2, <2>3, <2>5 DEF Asks, Makings
  <1>11. CASE c = "groupBy"
    <2>1. g = [f EXCEPT !.groupBy = @ \o columns]
      BY <1>11 DEF AddColumns
    <2>2. g \in Makings /\ g.groupBy = f.groupBy \o columns
      BY <1>8, <1>9, <2>1 DEF Makings
    <2>3. f.kind = "select"
      BY <1>1, <1>11 DEF ColumnClauses, AllKinds
    <2>4. OfItsKind(g)
      BY <2>1, <2>2, <2>3 DEF OfItsKind, Makings
    <2>5. DistinctAsked(f.distinct, more)
      BY <1>4, <1>7, <1>11 DEF DistinctAfter
    <2>6. AsAsked(g, more)
      BY <1>2, <1>6, <1>11, <2>1, <2>2, <2>5 DEF AsAsked, Makings
    <2> QED  BY <1>4, <1>5, <2>1, <2>2, <2>4, <2>6 DEF Asks, Makings
  <1>12. CASE c = "distinct"
    <2>1. PICK cs : cs = IF f.where = <<>> THEN columns ELSE f.distinct \o columns
      OBVIOUS
    <2>2. g = [f EXCEPT !.distinct = cs]
      BY <1>12, <2>1 DEF AddColumns, Distinct
    <2>3. cs \in Seq(Words)
      BY <1>8, <1>9, <2>1
    <2>4. g \in Makings /\ g.distinct = cs
      BY <2>2, <2>3 DEF Makings
    <2>5. f.kind = "select"
      BY <1>1, <1>12 DEF ColumnClauses, AllKinds
    <2>6. OfItsKind(g)
      BY <2>2, <2>4, <2>5 DEF OfItsKind, Makings
    <2>7. f.where = <<>> <=> OfClause("where", asked) = <<>>
      <3>1. PICK vs \in Seq(Vals) : vs = f.where
        BY DEF Makings
      <3>2. Parts("where", vs) = OfClause("where", asked)
        BY <3>1 DEF AsAsked
      <3>3. Len(Parts("where", vs)) = Len(vs)
        BY PartsType, NoKeyIsAClause
      <3>4. vs # <<>> => Len(vs) # 0
        BY EmptySeq
      <3>5. Len(<<>>) = 0
        OBVIOUS
      <3> QED  BY <3>1, <3>2, <3>3, <3>4, <3>5, EmptyParts
    <2>8. DistinctAfter(f.distinct, asked, p) = cs
      BY <1>4, <1>12, <2>1, <2>7 DEF DistinctAfter
    <2>9. AsAsked(g, more)
      BY <1>2, <1>6, <1>7, <1>12, <2>2, <2>4, <2>8 DEF AsAsked, Makings
    <2> QED  BY <1>4, <1>5, <2>2, <2>4, <2>6, <2>9 DEF Asks, Makings
  <1> QED  BY <1>1, <1>10, <1>11, <1>12 DEF ColumnClauses, AllKinds

(* A new builder, and one made with columns and conditions.                 *)
LEMMA NamedType ==
    ASSUME NEW s \in Seq(Words) PROVE Named(s) \in Seq(Vals)
  <1>1. Len(s) \in Nat /\ DOMAIN s = 1 .. Len(s) /\ \A i \in 1 .. Len(s) : s[i] \in Words
    BY LenProperties, ElementOfSeq
  <1>2. \A i \in 1 .. Len(s) : Param(s[i]) \in Vals
    BY <1>1, ParamIsValue
  <1>3. Named(s) \in [1 .. Len(s) -> Vals]
    BY <1>1, <1>2 DEF Named
  <1> QED  BY <1>1, <1>3

LEMMA KeysAreWords ==
    /\ PartKey \in Seq(Words) /\ PrimaryKey \in Seq(Words) /\ PrimaryKey \o <<"c">> \in Seq(Words)
    /\ <<>> \in Seq(Words) /\ <<"c">> \in Seq(Words)
  <1>1. "a" \in Words /\ "b" \in Words /\ "c" \in Words
    BY DEF Words
  <1>2. <<"a">> \in Seq(Words) /\ <<"b">> \in Seq(Words) /\ <<"c">> \in Seq(Words)
    BY <1>1, OneOf
  <1>3. <<"a", "b">> = <<"a">> \o <<"b">> /\ <<>> \in Seq(Words)
    OBVIOUS
  <1>4. <<"a", "b">> \in Seq(Words)
    BY <1>2, <1>3, ConcatProperties
  <1>5. <<"a", "b">> \o <<"c">> \in Seq(Words)
    BY <1>2, <1>4, ConcatProperties
  <1> QED  BY <1>2, <1>3, <1>4, <1>5 DEF PartKey, PrimaryKey

(* The instance has its own copies of what both modules define.             *)
LEMMA SameInU ==
    /\ U!NoName = NoName /\ U!Keys = Keys /\ U!Lit = Lit
    /\ U!Second = Second /\ U!Millisecond = Millisecond /\ U!Minute = Minute
    /\ \A d, e : U!Quot(d, e) = Quot(d, e)
    /\ \A d : U!formatDuration(d) = formatDuration(d)
    /\ \A c, h, l : U!Clause(c, h, l) = Clause(c, h, l)
    /\ \A n : U!Param(n) = Param(n)
    /\ \A c, s : U!OfClause(c, s) = OfClause(c, s)
  <1>1. U!NoName = NoName /\ U!Keys = Keys /\ U!Lit = Lit
    BY DEF U!NoName, NoName, U!Keys, Keys, U!Lit, Lit
  <1>2. U!Millisecond = Millisecond /\ U!Second = Second /\ U!Minute = Minute
    BY DEF U!Second, Second, U!Millisecond, Millisecond, U!Minute, Minute
  <1>3. \A d, e : U!Quot(d, e) = Quot(d, e)
    BY Zenon DEF U!Quot, Quot
  <1>4. \A d : U!formatDuration(d) = formatDuration(d)
    BY <1>2, Zenon DEF U!formatDuration, formatDuration
  <1>5. \A c, h, l : U!Clause(c, h, l) = Clause(c, h, l)
    BY Zenon DEF U!Clause, Clause
  <1>6. \A n : U!Param(n) = Param(n)
    BY Zenon DEF U!Param, Param
  <1>7. \A c, s : U!OfClause(c, s) = OfClause(c, s)
    BY Zenon DEF U!OfClause, OfClause, U!Only, Only, U!FlattenSeq, FlattenSeq
  <1> QED  BY <1>1, <1>2, <1>3, <1>4, <1>5, <1>6, <1>7

(* Nothing set is nothing asked.                                           *)
LEMMA NothingSetKept == NoUsing \in Usings /\ UsingKept(NoUsing, NoSetters)
  <1>1. NoUsing \in Usings
    BY DEF NoUsing, Usings, SomeNames, Keys
  <1>2. NoSetters \in [Keys -> Setters]
    <2>1. U!NoSetter \in Setters
      BY SameInU DEF U!NoSetter, U!Setter, Setters, SomeNames
    <2> QED  BY <2>1 DEF NoSetters
  <1>3. \A key \in Keys : NoSetters[key] = [by |-> "none", arg |-> 0, name |-> NoName, writes |-> 0,
                                            ttlAfter |-> FALSE]
    BY SameInU DEF NoSetters, U!NoSetter, U!Setter
  <1>4. {"TTL", "TIMESTAMP", "TIMEOUT"} = Keys
    BY DEF Keys
  <1> QED  BY <1>1, <1>2, <1>3, <1>4
           DEF UsingKept, TTLKept, TimestampKept, TimeoutIsKept, NoUsing

(* A builder that was made so holds its histories.                          *)
Made(f, asked) ==
    f \in Makings /\ OfItsKind(f) /\ AsAsked(f, asked) /\ f.using = NoUsing

FreshBuilder(kind, columns, where) ==
    [NewBuilder(kind) EXCEPT !.columns = columns, !.where = where]

LEMMA FreshIs ==
    ASSUME NEW kind, NEW columns, NEW where, NEW f, f = FreshBuilder(kind, columns, where)
    PROVE  f = [kind |-> kind, columns |-> columns, where |-> where, if |-> <<>>,
                groupBy |-> <<>>, distinct |-> <<>>, limit |-> <<>>,
                limitPerPartition |-> <<>>, json |-> FALSE, using |-> NoUsing]
  BY DEF FreshBuilder, NewBuilder

(* The calls that give it its columns.                                      *)
LEMMA GivenAsks ==
    ASSUME NEW kind, NEW columns \in IF kind \in Valued THEN Seq(Vals) ELSE Seq(Words),
           kind \in AllKinds
    PROVE  /\ Given(kind, columns) \in Seq(Pieces)
           /\ \A i \in 1 .. Len(Given(kind, columns)) :
                Given(kind, columns)[i].clause = "columns"
           /\ kind \in Valued => Given(kind, columns) = Parts("columns", columns)
           /\ kind \notin Valued => ColumnsIn(Given(kind, columns)) = columns
  <1>1. kind \in Valued <=> kind \notin {"select", "delete"}
    BY DEF Valued, AllKinds
  <1>2. PICK s : s = Given(kind, columns)
    OBVIOUS
  <1>3. CASE kind \in Valued
    <2>1. s = Parts("columns", columns) /\ columns \in Seq(Vals)
      BY <1>1, <1>2, <1>3 DEF Given
    <2>2. /\ s \in Seq(Pieces) /\ Len(s) = Len(columns)
          /\ \A i \in 1 .. Len(columns) : s[i] = Clause("columns", columns[i], <<>>)
      BY <2>1, PartsType, NoKeyIsAClause
    <2>3. \A v : Clause("columns", v, <<>>).clause = "columns"
      BY DEF Clause
    <2> QED  BY <1>2, <1>3, <2>1, <2>2, <2>3
  <1>4. CASE kind \notin Valued /\ columns = <<>>
    <2>1. s = <<>>
      BY <1>1, <1>2, <1>4, EmptyParts DEF Given
    <2>2. s \in Seq(Pieces) /\ \A i \in 1 .. Len(s) : s[i].clause = "columns"
      BY <2>1, EmptySeq
    <2>3. ColumnsIn(s) = columns
      BY <1>4, <2>1, ColumnsEmpty
    <2> QED  BY <1>2, <1>4, <2>2, <2>3, Zenon
  <1>5. CASE kind \notin Valued /\ columns # <<>>
    <2>1. PICK p \in Pieces : /\ p = Clause("columns", Lit, columns)
                              /\ p.clause = "columns" /\ p.literal = columns
      BY <1>5, ColumnIsPiece, NoKeyIsAClause DEF Clause
    <2>2. s = <<p>>
      BY <1>1, <1>2, <1>5, <2>1 DEF Given
    <2>3. s \in Seq(Pieces) /\ Len(s) = 1 /\ s[1] = p
      BY <2>2
    <2>4. ColumnsIn(s) = columns
      BY <2>1, <2>2, ColumnsOne
    <2> QED  BY <1>2, <1>5, <2>1, <2>3, <2>4
  <1> QED  BY <1>3, <1>4, <1>5

(* Nothing distinct is asked for by calls that are not for it.              *)
LEMMA NotDistinct ==
    ASSUME NEW asked \in Seq(Pieces),
           \A i \in 1 .. Len(asked) : asked[i].clause # "distinct"
    PROVE  DistinctAsked(<<>>, asked)
  <1> SUFFICES ASSUME NEW i \in {1} \cup DOMAIN asked
               PROVE  <<>> = DistinctSince(asked, i)
    BY DEF DistinctAsked
  <1>1. Len(asked) \in Int /\ i \in Int
    BY LenProperties
  <1>2. PICK n \in Int : n = Len(asked)
    BY <1>1
  <1>3. PICK P : P = {p \in Pieces : p.clause # "distinct"}
    OBVIOUS
  <1>4. Within(asked, i, n, P)
    <2>1. \A k \in i .. n : k \in 1 .. Len(asked)
      BY <1>1, <1>2, LenProperties
    <2> QED  BY <1>3, <2>1, ElementOfSeq DEF Within
  <1>5. PICK s \in Seq(P) : s = SubSeq(asked, i, n)
    BY <1>1, <1>2, <1>4, CutIs, Zenon DEF IsCut
  <1>6. s \in Seq(Pieces) /\ \A k \in 1 .. Len(s) : s[k].clause # "distinct"
    BY <1>3
  <1>7. OfClause("distinct", s) = <<>>
    BY <1>6, OfNothing
  <1> QED  BY <1>2, <1>5, <1>7, ColumnsEmpty DEF DistinctSince

LEMMA FreshIsMade ==
    ASSUME NEW kind \in AllKinds, NEW where \in Seq(Vals),
           NEW columns \in IF kind \in Valued THEN Seq(Vals) ELSE Seq(Words),
           kind = "insert" => where = <<>>,
           NEW f, f = FreshBuilder(kind, columns, where)
    PROVE  Made(f, Given(kind, columns) \o Parts("where", where))
  <1>1. <<>> \in Seq(Vals) /\ <<>> \in Seq(Words) /\ Len(<<>>) = 0
    OBVIOUS
  <1>2. f = [kind |-> kind, columns |-> columns, where |-> where, if |-> <<>>,
             groupBy |-> <<>>, distinct |-> <<>>, limit |-> <<>>,
             limitPerPartition |-> <<>>, json |-> FALSE, using |-> NoUsing]
    BY FreshIs
  <1>3. f \in Makings
    <2>1. /\ f.kind \in AllKinds /\ f.using \in Usings /\ f.json \in BOOLEAN
          /\ f.columns \in Seq(Vals) \cup Seq(Words) /\ f.where \in Seq(Vals)
      BY <1>2, NothingSetKept
    <2>2. PICK u \in Usings : u = NoUsing
      BY NothingSetKept
    <2> QED  BY <1>1, <1>2, <2>1, <2>2 DEF Makings
  <1>4. OfItsKind(f)
    BY <1>1, <1>2 DEF OfItsKind
  <1>5. PICK s \in Seq(Pieces) : /\ s = Given(kind, columns)
                                 /\ \A i \in 1 .. Len(s) : s[i].clause = "columns"
                                 /\ kind \in Valued => s = Parts("columns", columns)
                                 /\ kind \notin Valued => ColumnsIn(s) = columns
    BY GivenAsks
  <1>6. PICK t \in Seq(Pieces) : t = Parts("where", where)
    BY PartsType, NoKeyIsAClause
  <1>7. s \o t \in Seq(Pieces)
    BY ConcatProperties
  <1>8. \A c : OfClause(c, s \o t) = OfClause(c, s) \o OfClause(c, t)
    BY OfClauseConcat
  <1>9. /\ \A c : OfClause(c, s) = IF c = "columns" THEN s ELSE <<>>
        /\ \A c : OfClause(c, t) = IF c = "where" THEN t ELSE <<>>
    <2>1. \A c : OfClause(c, s) = IF c = "columns" THEN s ELSE <<>>
      BY <1>5, OfNothing, OfAll
    <2>2. \A c : OfClause(c, t) = IF c = "where" THEN t ELSE <<>>
      BY <1>6, OfParts, NoKeyIsAClause
    <2> QED  BY <2>1, <2>2
  <1>10. s \o <<>> = s /\ <<>> \o t = t /\ <<>> \o <<>> = <<>>
    BY ConcatEmptySeq
  <1>11. /\ OfClause("columns", s \o t) = s /\ OfClause("where", s \o t) = t
         /\ \A c : c \notin {"columns", "where"} => OfClause(c, s \o t) = <<>>
    BY <1>8, <1>9, <1>10
  <1>12. AsAsked(f, s \o t)
    <2>1. /\ f.where = where /\ f.columns = columns /\ f.if = <<>> /\ f.groupBy = <<>>
          /\ f.limit = <<>> /\ f.limitPerPartition = <<>> /\ f.distinct = <<>>
      BY <1>2
    <2>2. LastOf(<<>>) = <<>>
      BY DEF LastOf
    <2>3. /\ OfClause("if", s \o t) = <<>> /\ OfClause("groupBy", s \o t) = <<>>
          /\ OfClause("limit", s \o t) = <<>> /\ OfClause("limitPerPartition", s \o t) = <<>>
      BY <1>11
    <2>4. DistinctAsked(<<>>, s \o t)
      <3>1. PICK asked \in Seq(Pieces) : asked = s \o t
        BY <1>7
      <3>2. /\ Len(asked) = Len(s) + Len(t) /\ Len(s) \in Nat /\ Len(t) \in Nat
            /\ \A i \in 1 .. Len(s) + Len(t) :
                 asked[i] = IF i <= Len(s) THEN s[i] ELSE t[i - Len(s)]
        BY <3>1, ConcatProperties, LenProperties
      <3>3. \A i \in 1 .. Len(t) : t[i].clause = "where"
        <4>1. /\ Len(t) = Len(where)
              /\ \A i \in 1 .. Len(where) : t[i] = Clause("where", where[i], <<>>)
          BY <1>6, PartsType, NoKeyIsAClause
        <4>2. \A v : Clause("where", v, <<>>).clause = "where"
          BY DEF Clause
        <4> QED  BY <4>1, <4>2
      <3>4. ASSUME NEW i \in 1 .. Len(asked) PROVE asked[i].clause # "distinct"
        <4>1. CASE i <= Len(s)
          <5>1. i \in 1 .. Len(s) /\ asked[i] = s[i]
            BY <3>2, <4>1
          <5> QED  BY <1>5, <5>1
        <4>2. CASE ~ (i <= Len(s))
          <5>1. i - Len(s) \in 1 .. Len(t) /\ asked[i] = t[i - Len(s)]
            BY <3>2, <4>2
          <5> QED  BY <3>3, <5>1
        <4> QED  BY <4>1, <4>2
      <3> QED  BY <3>1, <3>4, NotDistinct
    <2>5. f.kind = kind
      BY <1>2
    <2> QED  BY <1>5, <1>6, <1>7, <1>11, <2>1, <2>2, <2>3, <2>4, <2>5, EmptyParts, ColumnsEmpty
             DEF AsAsked
  <1> QED  BY <1>2, <1>3, <1>4, <1>5, <1>6, <1>12 DEF Made

-----------------------------------------------------------------------------
(* The histories after a setter and after a write, of any setters.          *)
SetterOf(by, arg, name) ==
    [by |-> by, arg |-> arg, name |-> name, writes |-> 0, ttlAfter |-> FALSE]
TTLAfter(g, k, key, by) ==
    key = "TTL" /\ by = "value" /\ g[k].by = "name" /\ k = "TIMESTAMP"
SettersAfter(g, key, by, arg, name) ==
    [k \in Keys |->
        IF k = key THEN SetterOf(by, arg, name)
        ELSE [g[k] EXCEPT !.ttlAfter = @ \/ TTLAfter(g, k, key, by)]]
SettersWritten(g) ==
    IF g["TTL"].by = "value" /\ Quot(g["TTL"].arg, Second) = 0
    THEN [g EXCEPT !["TTL"].writes = IF @ = 2 THEN 2 ELSE @ + 1]
    ELSE g

LEMMA QuotType == ASSUME NEW d \in Int PROVE Quot(d, Second) \in Int
  <1>1. d >= 0 => d \div 1000000 \in Int
    OBVIOUS
  <1>2. d < 0 => -((-d) \div 1000000) \in Int
    OBVIOUS
  <1>3. Second = 1000000
    BY DEF Second, Millisecond
  <1> QED  BY <1>1, <1>2, <1>3 DEF Quot

(* What a setter asks for.                                                  *)
Setting(key, by, arg, name) ==
    /\ key \in Keys
    /\ \/ by = "name" /\ arg = 0 /\ name = key
       \/ by = "value" /\ arg \in Int /\ name = NoName

(* The other keys' histories.                                               *)
Unset(g, h, key, by) ==
    \A k \in Keys \ {key} :
        /\ h[k] \in Setters /\ h[k].by = g[k].by /\ h[k].arg = g[k].arg
        /\ h[k].name = g[k].name /\ h[k].writes = g[k].writes
        /\ ~ h[k].ttlAfter => ~ g[k].ttlAfter /\ ~ TTLAfter(g, k, key, by)

LEMMA SettersAre ==
    ASSUME NEW g \in [Keys -> Setters], NEW key, NEW by, NEW arg, NEW name,
           Setting(key, by, arg, name), NEW h, h = SettersAfter(g, key, by, arg, name)
    PROVE  /\ h \in [Keys -> Setters] /\ h[key] = SetterOf(by, arg, name)
           /\ Unset(g, h, key, by)
  <1>1. SetterOf(by, arg, name) \in Setters
    BY DEF Setting, SetterOf, Setters, SomeNames
  <1>2. ASSUME NEW k \in Keys \ {key}
        PROVE  /\ h[k] = [g[k] EXCEPT !.ttlAfter = @ \/ TTLAfter(g, k, key, by)]
               /\ h[k] \in Setters /\ h[k].by = g[k].by /\ h[k].arg = g[k].arg
               /\ h[k].name = g[k].name /\ h[k].writes = g[k].writes
               /\ h[k].ttlAfter = (g[k].ttlAfter \/ TTLAfter(g, k, key, by))
    <2>1. h[k] = [g[k] EXCEPT !.ttlAfter = @ \/ TTLAfter(g, k, key, by)]
      BY DEF SettersAfter
    <2>2. PICK r \in Setters : r = g[k]
      OBVIOUS
    <2>3. PICK t \in BOOLEAN : t = (r.ttlAfter \/ TTLAfter(g, k, key, by))
      BY DEF TTLAfter
    <2>4. h[k] = [r EXCEPT !.ttlAfter = t]
      BY <2>1, <2>2, <2>3
    <2>5. h[k] = [by |-> r.by, arg |-> r.arg, name |-> r.name, writes |-> r.writes,
                  ttlAfter |-> t]
      BY <2>4 DEF Setters
    <2>6. h[k] \in Setters
      BY <2>5 DEF Setters
    <2> QED  BY <2>1, <2>2, <2>3, <2>5, <2>6
  <1>3. key \in Keys /\ h[key] = SetterOf(by, arg, name)
    BY DEF SettersAfter, Setting
  <1>4. h \in [Keys -> Setters]
    <2>1. h = [k \in Keys |-> h[k]]
      BY DEF SettersAfter
    <2>2. \A k \in Keys : h[k] \in Setters
      BY <1>1, <1>2, <1>3
    <2> QED  BY <2>1, <2>2
  <1>5. Unset(g, h, key, by)
    BY <1>2 DEF Unset
  <1> QED  BY <1>3, <1>4, <1>5

(* A setter leaves the USING value that its history asks for, and so does  *)
(* writing, which turns a TTL of -1 into 0.                                *)
LEMMA NamedUsing ==
    ASSUME NEW u \in Usings, NEW n \in SomeNames
    PROVE  /\ [u EXCEPT !.ttl = 0, !.ttlName = n] \in Usings
           /\ [u EXCEPT !.timestamp = 0, !.timestampName = n] \in Usings
           /\ [u EXCEPT !.timeout = 0, !.timeoutName = n] \in Usings
  <1>1. PICK z \in Int : z = 0
    OBVIOUS
  <1>2. /\ [u EXCEPT !.ttl = z, !.ttlName = n] \in Usings
        /\ [u EXCEPT !.timestamp = z, !.timestampName = n] \in Usings
        /\ [u EXCEPT !.timeout = z, !.timeoutName = n] \in Usings
    BY DEF Usings
  <1> QED  BY <1>1, <1>2

LEMMA SetterKeeps ==
    ASSUME NEW u \in Usings, NEW g, UsingKept(u, g), NEW key, NEW by, NEW arg, NEW name,
           Setting(key, by, arg, name), NEW h, h = SettersAfter(g, key, by, arg, name),
           NEW w, w = Set(u, key, by, arg, name)
    PROVE  w \in Usings /\ UsingKept(w, h)
  <1>1. g \in [Keys -> Setters]
    BY DEF UsingKept
  <1>2. h \in [Keys -> Setters] /\ h[key] = SetterOf(by, arg, name) /\ Unset(g, h, key, by)
    BY <1>1, SettersAre
  <1>3. /\ h[key].by = by /\ h[key].arg = arg /\ h[key].name = name /\ h[key].writes = 0
        /\ ~ h[key].ttlAfter
    BY <1>2 DEF SetterOf
  <1>4. \A k \in Keys : h[k].by = "name" => h[k].name = k
    <2>1. \A k \in Keys : g[k].by = "name" => g[k].name = k
      BY DEF UsingKept
    <2> QED  BY <1>2, <1>3, <2>1 DEF Unset, Setting
  <1>5. /\ u.ttl \in Int /\ u.timestamp \in Int /\ u.timeout \in Int
        /\ u.ttlName \in SomeNames /\ u.timestampName \in SomeNames
        /\ u.timeoutName \in SomeNames /\ name \in SomeNames /\ NoName \in SomeNames
        /\ arg \in Int /\ key \in Keys
    BY DEF Usings, Setting, SomeNames
  <1>6. CASE key = "TTL"
    <2>1. /\ w \in Usings
          /\ w.timestamp = u.timestamp /\ w.timeout = u.timeout
          /\ w.timeoutName = u.timeoutName
          /\ by = "name" => w.ttl = 0 /\ w.ttlName = name /\ w.timestampName = u.timestampName
          /\ by = "value" => /\ w.ttl = IF Quot(arg, Second) = 0 THEN -1 ELSE Quot(arg, Second)
                             /\ w.timestampName = NoName
      <3>1. CASE by = "name"
        <4>1. w = [u EXCEPT !.ttl = 0, !.ttlName = name]
          BY <1>6, <3>1 DEF Set, TTLNamed
        <4>2. w \in Usings
          BY <1>5, <4>1, NamedUsing
        <4> QED  BY <3>1, <4>1, <4>2 DEF Usings
      <3>2. CASE by = "value"
        <4>1. PICK s \in Int : s = Quot(arg, Second)
          BY <1>5, QuotType
        <4>2. PICK t \in Int : t = IF s = 0 THEN -1 ELSE s
          OBVIOUS
        <4>3. w = [u EXCEPT !.ttl = t, !.timestampName = NoName]
          BY <1>6, <3>2, <4>1, <4>2 DEF Set, TTL
        <4>4. w \in Usings
          BY <1>5, <4>3 DEF Usings
        <4> QED  BY <3>2, <4>1, <4>2, <4>3, <4>4 DEF Usings
      <3> QED  BY <3>1, <3>2 DEF Setting
    <2>2. TTLKept(w, h["TTL"])
      BY <1>3, <1>6, <2>1 DEF TTLKept, Setting
    <2>3. {"TIMESTAMP", "TIMEOUT"} \subseteq Keys \ {key}
      BY <1>6 DEF Keys
    <2>4. TimestampKept(w, h["TIMESTAMP"])
      <3>1. TimestampKept(u, g["TIMESTAMP"])
        BY DEF UsingKept
      <3>2. /\ h["TIMESTAMP"].by = g["TIMESTAMP"].by /\ h["TIMESTAMP"].arg = g["TIMESTAMP"].arg
            /\ h["TIMESTAMP"].name = g["TIMESTAMP"].name
            /\ ~ h["TIMESTAMP"].ttlAfter
                 => /\ ~ g["TIMESTAMP"].ttlAfter
                    /\ ~ (by = "value" /\ g["TIMESTAMP"].by = "name")
        BY <1>2, <1>6, <2>3 DEF Unset, TTLAfter
      <3> QED  BY <2>1, <3>1, <3>2 DEF TimestampKept, Setting
    <2>5. TimeoutIsKept(w, h["TIMEOUT"])
      BY <1>2, <2>1, <2>3 DEF Unset, UsingKept, TimeoutIsKept
    <2> QED  BY <1>2, <1>4, <2>1, <2>2, <2>4, <2>5 DEF UsingKept
  <1>7. CASE key = "TIMESTAMP"
    <2>1. /\ w \in Usings
          /\ w.ttl = u.ttl /\ w.ttlName = u.ttlName /\ w.timeout = u.timeout
          /\ w.timeoutName = u.timeoutName
          /\ by = "name" => w.timestamp = 0 /\ w.timestampName = name
          /\ by = "value" => w.timestamp = arg
      <3>1. CASE by = "name"
        <4>1. w = [u EXCEPT !.timestamp = 0, !.timestampName = name]
          BY <1>7, <3>1 DEF Set, TimestampNamed
        <4>2. w \in Usings
          BY <1>5, <4>1, NamedUsing
        <4> QED  BY <3>1, <4>1, <4>2 DEF Usings
      <3>2. CASE by = "value"
        <4>1. w = [u EXCEPT !.timestamp = arg, !.timestampName = NoName]
          BY <1>7, <3>2 DEF Set, Timestamp
        <4> QED  BY <1>5, <3>2, <4>1 DEF Usings
      <3> QED  BY <3>1, <3>2 DEF Setting
    <2>2. TimestampKept(w, h["TIMESTAMP"])
      BY <1>3, <1>7, <2>1 DEF TimestampKept, Setting
    <2>3. {"TTL", "TIMEOUT"} \subseteq Keys \ {key}
      BY <1>7 DEF Keys
    <2>4. TTLKept(w, h["TTL"])
      BY <1>2, <2>1, <2>3 DEF Unset, UsingKept, TTLKept
    <2>5. TimeoutIsKept(w, h["TIMEOUT"])
      BY <1>2, <2>1, <2>3 DEF Unset, UsingKept, TimeoutIsKept
    <2> QED  BY <1>2, <1>4, <2>1, <2>2, <2>4, <2>5 DEF UsingKept
  <1>8. CASE key = "TIMEOUT"
    <2>1. /\ w \in Usings
          /\ w.ttl = u.ttl /\ w.ttlName = u.ttlName /\ w.timestamp = u.timestamp
          /\ w.timestampName = u.timestampName
          /\ by = "name" => w.timeout = 0 /\ w.timeoutName = name
          /\ by = "value" => w.timeout = arg
      <3>1. CASE by = "name"
        <4>1. w = [u EXCEPT !.timeout = 0, !.timeoutName = name]
          BY <1>8, <3>1 DEF Set, TimeoutNamed
        <4>2. w \in Usings
          BY <1>5, <4>1, NamedUsing
        <4> QED  BY <3>1, <4>1, <4>2 DEF Usings
      <3>2. CASE by = "value"
        <4>1. w = [u EXCEPT !.timeout = arg, !.timeoutName = NoName]
          BY <1>8, <3>2 DEF Set, Timeout
        <4> QED  BY <1>5, <3>2, <4>1 DEF Usings
      <3> QED  BY <3>1, <3>2 DEF Setting
    <2>2. TimeoutIsKept(w, h["TIMEOUT"])
      BY <1>3, <1>8, <2>1 DEF TimeoutIsKept, Setting
    <2>3. {"TTL", "TIMESTAMP"} \subseteq Keys \ {key}
      BY <1>8 DEF Keys
    <2>4. TTLKept(w, h["TTL"])
      BY <1>2, <2>1, <2>3 DEF Unset, UsingKept, TTLKept
    <2>5. TimestampKept(w, h["TIMESTAMP"])
      BY <1>2, <2>1, <2>3 DEF Unset, UsingKept, TimestampKept
    <2> QED  BY <1>2, <1>4, <2>1, <2>2, <2>4, <2>5 DEF UsingKept
  <1> QED  BY <1>5, <1>6, <1>7, <1>8 DEF Keys

LEMMA WriteKeeps ==
    ASSUME NEW u \in Usings, NEW g, UsingKept(u, g), NEW h, h = SettersWritten(g),
           NEW w, w = AfterWrite(u)
    PROVE  w \in Usings /\ UsingKept(w, h)
  <1>1. g \in [Keys -> Setters] /\ "TTL" \in Keys
    BY DEF UsingKept, Keys
  <1>2. /\ w \in Usings /\ w.ttl = WrittenTTL(u.ttl) /\ w.ttlName = u.ttlName
        /\ w.timestamp = u.timestamp /\ w.timestampName = u.timestampName
        /\ w.timeout = u.timeout /\ w.timeoutName = u.timeoutName
    BY DEF AfterWrite, Usings, WrittenTTL
  <1>3. PICK c \in Setters : c = g["TTL"]
    BY <1>1
  <1>4. CASE c.by = "value" /\ Quot(c.arg, Second) = 0
    <2>1. PICK m \in 1 .. 2 : m = IF c.writes = 2 THEN 2 ELSE c.writes + 1
      BY DEF Setters
    <2>2. PICK d : d = [c EXCEPT !.writes = m]
      OBVIOUS
    <2>3. /\ d \in Setters /\ d.by = c.by /\ d.arg = c.arg /\ d.name = c.name
          /\ d.writes = m
      BY <2>2 DEF Setters
    <2>4. h = [g EXCEPT !["TTL"] = d]
      BY <1>1, <1>3, <1>4, <2>1, <2>2 DEF SettersWritten
    <2>5. h \in [Keys -> Setters] /\ h["TTL"] = d /\ \A k \in Keys \ {"TTL"} : h[k] = g[k]
      BY <1>1, <2>3, <2>4
    <2>6. TTLKept(w, d)
      <3>1. TTLKept(u, c)
        BY <1>3 DEF UsingKept
      <3>2. u.ttl = IF c.writes = 0 THEN -1 ELSE 0
        BY <1>4, <3>1 DEF TTLKept
      <3>3. w.ttl = 0
        BY <1>2, <3>2 DEF WrittenTTL
      <3> QED  BY <1>4, <2>3, <3>3 DEF TTLKept
    <2>7. {"TIMESTAMP", "TIMEOUT"} \subseteq Keys \ {"TTL"}
      BY DEF Keys
    <2>8. TimestampKept(w, h["TIMESTAMP"]) /\ TimeoutIsKept(w, h["TIMEOUT"])
      BY <1>2, <2>5, <2>7 DEF UsingKept, TimestampKept, TimeoutIsKept
    <2>9. \A key \in Keys : h[key].by = "name" => h[key].name = key
      BY <1>3, <2>3, <2>5 DEF UsingKept
    <2> QED  BY <1>2, <2>5, <2>6, <2>8, <2>9 DEF UsingKept
  <1>5. CASE ~ (c.by = "value" /\ Quot(c.arg, Second) = 0)
    <2>1. h = g
      BY <1>3, <1>5 DEF SettersWritten
    <2>2. TTLKept(w, c)
      <3>1. TTLKept(u, c)
        BY <1>3 DEF UsingKept
      <3> QED  BY <1>2, <1>5, <3>1 DEF TTLKept, WrittenTTL
    <2> QED  BY <1>2, <1>3, <2>1, <2>2 DEF UsingKept, TimestampKept, TimeoutIsKept
  <1> QED  BY <1>4, <1>5

-----------------------------------------------------------------------------
(* The USING value stays one.                                              *)
LEMMA SetType ==
    ASSUME NEW u \in Usings, NEW key, NEW by, NEW arg, NEW name, Setting(key, by, arg, name)
    PROVE  Set(u, key, by, arg, name) \in Usings
  <1>1. key \in Keys /\ arg \in Int /\ name \in SomeNames /\ NoName \in SomeNames
    BY DEF Setting, SomeNames
  <1>2. CASE by = "name"
    <2>1. \/ Set(u, key, by, arg, name) = [u EXCEPT !.ttl = 0, !.ttlName = name]
          \/ Set(u, key, by, arg, name) = [u EXCEPT !.timestamp = 0, !.timestampName = name]
          \/ Set(u, key, by, arg, name) = [u EXCEPT !.timeout = 0, !.timeoutName = name]
      BY <1>1, <1>2 DEF Set, TTLNamed, TimestampNamed, TimeoutNamed, Keys
    <2> QED  BY <1>1, <2>1, NamedUsing
  <1>3. CASE by = "value"
    <2>1. PICK t \in Int : t = IF Quot(arg, Second) = 0 THEN -1 ELSE Quot(arg, Second)
      BY <1>1, QuotType
    <2>2. \/ Set(u, key, by, arg, name) = [u EXCEPT !.ttl = t, !.timestampName = NoName]
          \/ Set(u, key, by, arg, name) = [u EXCEPT !.timestamp = arg, !.timestampName = NoName]
          \/ Set(u, key, by, arg, name) = [u EXCEPT !.timeout = arg, !.timeoutName = NoName]
      BY <1>1, <1>3, <2>1 DEF Set, TTL, Timestamp, Timeout, Keys
    <2>3. /\ [u EXCEPT !.ttl = t, !.timestampName = NoName] \in Usings
          /\ [u EXCEPT !.timestamp = arg, !.timestampName = NoName] \in Usings
          /\ [u EXCEPT !.timeout = arg, !.timeoutName = NoName] \in Usings
      BY <1>1 DEF Usings
    <2> QED  BY <2>2, <2>3
  <1> QED  BY <1>2, <1>3 DEF Setting

LEMMA WriteType == ASSUME NEW u \in Usings PROVE AfterWrite(u) \in Usings
  BY DEF AfterWrite, Usings, WrittenTTL

-----------------------------------------------------------------------------
(* What the batch holds of one addition, and of one more.                   *)
TextOf == [a \in Additions |-> a.stmt.text]
NamesIn == [a \in Additions |-> NamesOf(a)]

LEMMA MappedAppend ==
    ASSUME NEW P, NEW R, NEW f, Gives(f, P, R), NEW s \in Seq(P), NEW x \in P
    PROVE  Mapped(f, Append(s, x)) = Append(Mapped(f, s), f[x])
  <1>1. Append(s, x) = s \o <<x>> /\ <<x>> \in Seq(P)
    BY AppendIsConcat, OneOf
  <1>2. Mapped(f, s \o <<x>>) = Mapped(f, s) \o Mapped(f, <<x>>)
    <2>1. PICK y \in Seq(P) : y = <<x>>
      BY <1>1
    <2>2. Mapped(f, s \o y) = Mapped(f, s) \o Mapped(f, y)
      BY MappedConcat
    <2> QED  BY <2>1, <2>2
  <1>3. Mapped(f, <<x>>) = <<f[x]>>
    BY DEF Mapped
  <1>4. PICK m \in Seq(R) : m = Mapped(f, s)
    BY MappedType
  <1>5. PICK y \in R : y = f[x]
    BY DEF Gives
  <1>6. Append(m, y) = m \o <<y>>
    BY AppendIsConcat
  <1> QED  BY <1>1, <1>2, <1>3, <1>4, <1>5, <1>6

LEMMA CollectedAppend ==
    ASSUME NEW P, NEW S, NEW f, Gives(f, P, Seq(S)), NEW s \in Seq(P), NEW x \in P
    PROVE  Collected(f, Append(s, x)) = Collected(f, s) \o f[x]
  <1>1. Mapped(f, Append(s, x)) = Append(Mapped(f, s), f[x])
    BY MappedAppend
  <1>2. PICK m \in Seq(Seq(S)) : m = Mapped(f, s)
    BY MappedType
  <1>3. PICK y \in Seq(S) : y = f[x]
    BY DEF Gives
  <1>4. FlattenSeq(Append(m, y)) = FlattenSeq(m) \o y
    BY FlattenAppend
  <1> QED  BY <1>1, <1>2, <1>3, <1>4 DEF Collected

(* A name with its prefix is a name.                                        *)
PrefixWords == Words \cup {NoName}
With(prefix, name) == (IF prefix = NoName THEN <<>> ELSE <<prefix>>) \o name

LEMMA WithType ==
    ASSUME NEW prefix \in PrefixWords, NEW name \in Paths
    PROVE  /\ With(prefix, name) \in Paths
           /\ With(prefix, name) = IF prefix = NoName THEN name ELSE <<prefix>> \o name
  <1>1. CASE prefix = NoName
    <2>1. With(prefix, name) = <<>> \o name
      BY <1>1 DEF With
    <2>2. <<>> \o name = name
      BY ConcatEmptySeq DEF Paths
    <2> QED  BY <1>1, <2>1, <2>2
  <1>2. CASE prefix # NoName
    <2>1. With(prefix, name) = <<prefix>> \o name
      BY <1>2 DEF With
    <2>2. <<prefix>> \in Seq(Words)
      BY <1>2, OneOf DEF PrefixWords
    <2>3. <<prefix>> \o name \in Seq(Words)
      BY <2>2, ConcatProperties DEF Paths
    <2> QED  BY <1>2, <2>1, <2>3 DEF Paths
  <1> QED  BY <1>1, <1>2

LEMMA PrefixedType ==
    ASSUME NEW prefix \in PrefixWords, NEW names \in Seq(Paths)
    PROVE  /\ Prefixed(prefix, names) \in Seq(Paths)
           /\ Len(Prefixed(prefix, names)) = Len(names)
           /\ Prefixed(prefix, names) = [k \in DOMAIN names |-> With(prefix, names[k])]
  <1>1. /\ Len(names) \in Nat /\ DOMAIN names = 1 .. Len(names)
        /\ \A k \in 1 .. Len(names) : names[k] \in Paths
    BY LenProperties, ElementOfSeq
  <1>2. Prefixed(prefix, names) = [k \in DOMAIN names |-> With(prefix, names[k])]
    BY <1>1, WithType DEF Prefixed
  <1>3. \A k \in 1 .. Len(names) : With(prefix, names[k]) \in Paths
    BY <1>1, WithType
  <1>4. Prefixed(prefix, names) \in [1 .. Len(names) -> Paths]
    BY <1>1, <1>2, <1>3
  <1>5. PICK n \in Nat : n = Len(names)
    BY <1>1
  <1>6. Prefixed(prefix, names) \in [1 .. n -> Paths]
    BY <1>4, <1>5
  <1>7. Prefixed(prefix, names) \in Seq(Paths) /\ Len(Prefixed(prefix, names)) = n
    BY <1>6
  <1> QED  BY <1>2, <1>5, <1>7

LEMMA NamesOfType ==
    ASSUME NEW a \in Additions
    PROVE  NamesOf(a) = Prefixed(a.prefix, Holes(a.stmt.text)) /\ NamesOf(a) \in Seq(Paths)
  <1>1. a.prefix \in PrefixWords /\ a.stmt.text \in Seq(Pieces)
    BY DEF Additions, PrefixWords
  <1>2. Holes(a.stmt.text) \in Seq(Paths)
    BY <1>1, HolesType
  <1>3. Prefixed(a.prefix, Holes(a.stmt.text))
          = [k \in DOMAIN Holes(a.stmt.text) |-> With(a.prefix, Holes(a.stmt.text)[k])]
    BY <1>1, <1>2, PrefixedType
  <1>4. NamesOf(a) = [k \in DOMAIN Holes(a.stmt.text) |->
                        With(a.prefix, Holes(a.stmt.text)[k])]
    BY DEF NamesOf, With
  <1> QED  BY <1>1, <1>2, <1>3, <1>4, PrefixedType

LEMMA AdditionsGive ==
    Gives(TextOf, Additions, Seq(Pieces)) /\ Gives(NamesIn, Additions, Seq(Paths))
  <1>1. \A a \in Additions : a.stmt.text \in Seq(Pieces)
    BY DEF Additions
  <1> QED  BY <1>1, NamesOfType DEF Gives, TextOf, NamesIn

LEMMA AllCollected ==
    ASSUME NEW adds \in Seq(Additions)
    PROVE  AllText(adds) = Collected(TextOf, adds) /\ AllNames(adds) = Collected(NamesIn, adds)
           /\ [i \in DOMAIN adds |-> adds[i].stmt.text] = Mapped(TextOf, adds)
  <1>1. \A i \in DOMAIN adds : adds[i] \in Additions
    BY LenProperties, ElementOfSeq
  <1>2. [i \in DOMAIN adds |-> adds[i].stmt.text] = Mapped(TextOf, adds)
    BY <1>1 DEF Mapped, TextOf
  <1>3. [i \in DOMAIN adds |-> NamesOf(adds[i])] = Mapped(NamesIn, adds)
    BY <1>1 DEF Mapped, NamesIn
  <1> QED  BY <1>2, <1>3 DEF AllText, AllNames, Collected

(* One more addition.                                                       *)
Adds(more, adds, a) ==
    /\ more \in Seq(Additions)
    /\ AllText(more) = AllText(adds) \o a.stmt.text /\ AllText(adds) \in Seq(Pieces)
    /\ AllNames(more) = AllNames(adds) \o NamesOf(a) /\ AllNames(adds) \in Seq(Paths)
    /\ [i \in DOMAIN more |-> more[i].stmt.text]
         = Append([i \in DOMAIN adds |-> adds[i].stmt.text], a.stmt.text)
    /\ SomeJson(more) <=> SomeJson(adds) \/ HasJson(a.stmt.text)

LEMMA OneMoreAdded ==
    ASSUME NEW adds \in Seq(Additions), NEW a \in Additions, NEW more, more = Append(adds, a)
    PROVE  Adds(more, adds, a)
  <1>1. /\ more \in Seq(Additions) /\ Len(more) = Len(adds) + 1 /\ more[Len(adds) + 1] = a
        /\ \A i \in 1 .. Len(adds) : more[i] = adds[i]
        /\ Len(adds) \in Nat /\ DOMAIN adds = 1 .. Len(adds) /\ DOMAIN more = 1 .. Len(more)
    BY AppendProperties, LenProperties
  <1>2. TextOf[a] = a.stmt.text /\ NamesIn[a] = NamesOf(a)
    BY DEF TextOf, NamesIn
  <1>3. AllText(more) = AllText(adds) \o a.stmt.text
    <2>1. Collected(TextOf, Append(adds, a)) = Collected(TextOf, adds) \o TextOf[a]
      BY AdditionsGive, CollectedAppend
    <2> QED  BY <1>1, <1>2, <2>1, AllCollected
  <1>4. AllNames(more) = AllNames(adds) \o NamesOf(a)
    <2>1. Collected(NamesIn, Append(adds, a)) = Collected(NamesIn, adds) \o NamesIn[a]
      BY AdditionsGive, CollectedAppend
    <2> QED  BY <1>1, <1>2, <2>1, AllCollected
  <1>5. Mapped(TextOf, more) = Append(Mapped(TextOf, adds), TextOf[a])
    BY AdditionsGive, MappedAppend
  <1>6. AllText(adds) \in Seq(Pieces) /\ AllNames(adds) \in Seq(Paths)
    BY AdditionsGive, AllCollected, CollectedType
  <1>7. SomeJson(more) <=> SomeJson(adds) \/ HasJson(a.stmt.text)
    <2>1. SomeJson(adds) => SomeJson(more)
      <3> SUFFICES ASSUME NEW i \in 1 .. Len(adds), HasJson(adds[i].stmt.text)
                   PROVE  SomeJson(more)
        BY <1>1 DEF SomeJson
      <3>1. i \in 1 .. Len(more) /\ more[i] = adds[i]
        BY <1>1
      <3> QED  BY <1>1, <3>1 DEF SomeJson
    <2>2. HasJson(a.stmt.text) => SomeJson(more)
      <3>1. Len(adds) + 1 \in DOMAIN more
        BY <1>1
      <3> QED  BY <1>1, <3>1 DEF SomeJson
    <2>3. SomeJson(more) => SomeJson(adds) \/ HasJson(a.stmt.text)
      <3> SUFFICES ASSUME NEW i \in 1 .. Len(more), HasJson(more[i].stmt.text)
                   PROVE  SomeJson(adds) \/ HasJson(a.stmt.text)
        BY <1>1 DEF SomeJson
      <3>1. CASE i = Len(adds) + 1
        BY <1>1, <3>1
      <3>2. CASE i # Len(adds) + 1
        <4>1. i \in 1 .. Len(adds)
          BY <1>1, <3>2
        <4> QED  BY <1>1, <4>1 DEF SomeJson
      <3> QED  BY <3>1, <3>2
    <2> QED  BY <2>1, <2>2, <2>3
  <1> QED  BY <1>1, <1>2, <1>3, <1>4, <1>5, <1>6, <1>7, AllCollected DEF Adds

(* A statement a builder has written, and a batch after it was added.       *)
Writings ==
    {s \in [text : Seq(Pieces), names : Seq(Paths)] : ~ HasJson(s.text) => s.names = Holes(s.text)}

LEMMA AddKeepsBatch ==
    ASSUME NEW bt, NEW adds, BatchHolds(bt, adds), NEW prefix \in PrefixWords, NEW s \in Writings,
           NEW bu, bu = AddStmtWithPrefix(bt, prefix, s),
           NEW more, more = Append(adds, [prefix |-> prefix, stmt |-> s])
    PROVE  BatchHolds(bu, more)
  <1>1. PICK a \in Additions : a = [prefix |-> prefix, stmt |-> s]
    BY DEF Additions, Writings, PrefixWords
  <1>2. a.prefix = prefix /\ a.stmt = s
    BY <1>1
  <1>3. /\ adds \in Seq(Additions) /\ bt \in Batches
        /\ bt.stmts = [i \in DOMAIN adds |-> adds[i].stmt.text]
        /\ HasJson(AllText(adds)) <=> SomeJson(adds)
    BY DEF BatchHolds
  <1>4. Adds(more, adds, a)
    BY <1>1, <1>3, OneMoreAdded
  <1>5. s.text \in Seq(Pieces) /\ s.names \in Seq(Paths)
          /\ (~ HasJson(s.text) => s.names = Holes(s.text))
    BY DEF Writings
  <1>6. /\ Prefixed(prefix, s.names) \in Seq(Paths)
        /\ Len(Prefixed(prefix, s.names)) = Len(s.names)
    BY <1>5, PrefixedType
  <1>7. /\ bu.stmts = Append(bt.stmts, s.text) /\ bu.using = bt.using
        /\ bu.names = bt.names \o Prefixed(prefix, s.names)
    BY <1>3 DEF AddStmtWithPrefix, Batches
  <1>8. bu \in Batches
    <2>1. PICK ss \in Seq(Seq(Pieces)) : ss = Append(bt.stmts, s.text)
      BY <1>3, <1>5, AppendProperties DEF Batches
    <2>2. PICK ns \in Seq(Paths) : ns = bt.names \o Prefixed(prefix, s.names)
      BY <1>3, <1>6, ConcatProperties DEF Batches
    <2>3. bu = [bt EXCEPT !.stmts = ss, !.names = ns]
      BY <2>1, <2>2 DEF AddStmtWithPrefix
    <2> QED  BY <1>3, <2>3 DEF Batches
  <1>9. bu.stmts = [i \in DOMAIN more |-> more[i].stmt.text]
    BY <1>2, <1>3, <1>4, <1>7 DEF Adds
  <1>10. HasJson(AllText(more)) <=> SomeJson(more)
    <2>1. PICK t \in Seq(Pieces) : t = AllText(adds)
      BY <1>4 DEF Adds
    <2>2. HasJson(t \o s.text) <=> HasJson(t) \/ HasJson(s.text)
      BY <1>5, HasJsonConcat
    <2> QED  BY <1>2, <1>3, <1>4, <2>1, <2>2 DEF Adds
  <1>11. ASSUME ~ SomeJson(more)
         PROVE  bu.names = AllNames(more) /\ Len(bu.names) = Len(Holes(AllText(more)))
    <2>1. ~ SomeJson(adds) /\ ~ HasJson(s.text)
      BY <1>2, <1>4, <1>11 DEF Adds
    <2>2. bt.names = AllNames(adds) /\ Len(bt.names) = Len(Holes(AllText(adds)))
      BY <2>1 DEF BatchHolds
    <2>3. s.names = Holes(s.text)
      BY <1>5, <2>1
    <2>4. Prefixed(prefix, s.names) = NamesOf(a)
      BY <1>2, <2>3, NamesOfType
    <2>5. bu.names = AllNames(more)
      BY <1>4, <1>7, <2>2, <2>4 DEF Adds
    <2>6. PICK t \in Seq(Pieces) : t = AllText(adds)
      BY <1>4 DEF Adds
    <2>7. Holes(t \o s.text) = Holes(t) \o Holes(s.text)
      BY <1>5, HolesConcat
    <2>8. Len(Holes(t) \o Holes(s.text)) = Len(Holes(t)) + Len(Holes(s.text))
      BY <1>5, HolesType, ConcatProperties
    <2>9. Len(bt.names \o Prefixed(prefix, s.names)) = Len(bt.names) + Len(s.names)
      <3>1. PICK l \in Seq(Paths) : l = bt.names
        BY <1>3 DEF Batches
      <3>2. PICK m \in Seq(Paths) : m = Prefixed(prefix, s.names) /\ Len(m) = Len(s.names)
        BY <1>6
      <3>3. Len(l \o m) = Len(l) + Len(m)
        BY ConcatProperties
      <3> QED  BY <3>1, <3>2, <3>3
    <2>10. AllText(more) = t \o s.text
      BY <1>2, <1>4, <2>6 DEF Adds
    <2> QED  BY <1>7, <2>2, <2>3, <2>5, <2>6, <2>7, <2>8, <2>9, <2>10
  <1> QED  BY <1>4, <1>8, <1>9, <1>10, <1>11 DEF BatchHolds, Adds

(* The setters of USING, of the builder and of the batch.                  *)
LEMMA UsingKeepsBatch ==
    ASSUME NEW bt, NEW adds, BatchHolds(bt, adds), NEW u \in Usings,
           NEW bu, bu = [bt EXCEPT !.using = u]
    PROVE  BatchHolds(bu, adds)
  BY DEF BatchHolds, Batches

(* What a batch writes.                                                     *)
LEMMA FrontOfConcat ==
    ASSUME NEW S, NEW s \in Seq(S), NEW t \in Seq(S), NEW u, u = s \o t
    PROVE  SubSeq(u, 1, Len(u) - Len(t)) = s
  <1>1. /\ Len(s) \in Nat /\ Len(t) \in Nat /\ u \in Seq(S) /\ Len(u) = Len(s) + Len(t)
        /\ \A i \in 1 .. Len(s) + Len(t) : u[i] = IF i <= Len(s) THEN s[i] ELSE t[i - Len(s)]
    BY ConcatProperties, LenProperties
  <1>2. PICK n \in 0 .. Len(u) : n = Len(s) /\ Len(u) - Len(t) = n
    BY <1>1
  <1>3. SubSeq(u, 1, n) \in Seq(S)
    BY <1>1, FirstOf
  <1>4. Len(SubSeq(u, 1, n)) = n /\ \A i \in 1 .. n : SubSeq(u, 1, n)[i] = u[i]
    BY <1>1, <1>2
  <1>5. \A i \in 1 .. n : u[i] = s[i]
    BY <1>1, <1>2
  <1>6. SubSeq(u, 1, n) = s
    BY <1>2, <1>3, <1>4, <1>5, SeqEqual
  <1> QED  BY <1>2, <1>6

LEMMA BatchWrites ==
    ASSUME NEW bt, NEW adds, BatchHolds(bt, adds), NEW s, s = BatchToCql(bt)
    PROVE  /\ s.text \in Seq(Pieces)
           /\ HasJson(s.text) <=> SomeJson(adds)
           /\ ~ SomeJson(adds) => InLine(s, adds) /\ Len(s.names) = Len(Holes(s.text))
  <1>1. /\ bt \in Batches /\ adds \in Seq(Additions)
        /\ bt.stmts = [i \in DOMAIN adds |-> adds[i].stmt.text]
        /\ HasJson(AllText(adds)) <=> SomeJson(adds)
    BY DEF BatchHolds
  <1>2. PICK u \in Seq(Pieces) : /\ u = Clauses(bt.using) /\ Holes(u) = Names(bt.using)
                                 /\ ~ HasJson(u) /\ Keyed(u)
    BY <1>1, ClausesType DEF Batches
  <1>3. PICK t \in Seq(Pieces) : t = AllText(adds)
    BY <1>1, AdditionsGive, AllCollected, CollectedType
  <1>4. s.text = u \o t /\ s.names = Holes(u) \o bt.names
    <2>1. FlattenSeq(bt.stmts) = t
      BY <1>1, <1>3 DEF AllText
    <2>2. s = Statement(u \o t, Holes(u) \o bt.names)
      BY <1>2, <2>1 DEF BatchToCql
    <2> QED  BY <2>2 DEF Statement
  <1>5. s.text \in Seq(Pieces)
    BY <1>4, ConcatProperties
  <1>6. HasJson(s.text) <=> SomeJson(adds)
    <2>1. HasJson(u \o t) <=> HasJson(u) \/ HasJson(t)
      BY HasJsonConcat
    <2> QED  BY <1>1, <1>2, <1>3, <1>4, <2>1
  <1>7. ASSUME ~ SomeJson(adds) PROVE InLine(s, adds) /\ Len(s.names) = Len(Holes(s.text))
    <2>1. bt.names = AllNames(adds) /\ Len(bt.names) = Len(Holes(t))
      BY <1>3, <1>7 DEF BatchHolds
    <2>2. SubSeq(s.text, 1, Len(s.text) - Len(t)) = u
      BY <1>4, FrontOfConcat
    <2>3. \A i \in DOMAIN u : u[i].clause \in Keys
      BY <1>2, LenProperties DEF Keyed
    <2>4. InLine(s, adds)
      BY <1>3, <1>4, <2>1, <2>2, <2>3 DEF InLine
    <2>5. Holes(u \o t) = Holes(u) \o Holes(t)
      BY HolesConcat
    <2>6. Len(Holes(u) \o Holes(t)) = Len(Holes(u)) + Len(Holes(t))
      BY HolesType, ConcatProperties
    <2>7. Len(Holes(u) \o bt.names) = Len(Holes(u)) + Len(bt.names)
      <3>1. bt.names \in Seq(Paths)
        BY <1>1 DEF Batches
      <3> QED  BY <3>1, HolesType, ConcatProperties
    <2> QED  BY <1>4, <2>1, <2>4, <2>5, <2>6, <2>7
  <1> QED  BY <1>5, <1>6, <1>7

-----------------------------------------------------------------------------
(* After a write every clause is the one asked for, but the dropped ones.   *)
LEMMA KeysAreNames == NoName \notin Keys
  BY Zenon DEF Keys, NoName

LEMMA SettersWrittenAre ==
    ASSUME NEW g \in [Keys -> Setters], NEW h, h = SettersWritten(g)
    PROVE  /\ \A k \in Keys \ {"TTL"} : h[k] = g[k]
           /\ \A k \in Keys : /\ h[k].by = g[k].by /\ h[k].arg = g[k].arg
                              /\ h[k].name = g[k].name
           /\ g["TTL"].by = "value" /\ Quot(g["TTL"].arg, Second) = 0 /\ h["TTL"].writes <= 1
                => g["TTL"].writes = 0
  <1>1. PICK c \in Setters : c = g["TTL"] /\ "TTL" \in Keys
    BY DEF Keys
  <1>2. CASE c.by = "value" /\ Quot(c.arg, Second) = 0
    <2>1. PICK m \in 1 .. 2 : m = IF c.writes = 2 THEN 2 ELSE c.writes + 1
      BY DEF Setters
    <2>2. PICK d : d = [c EXCEPT !.writes = m]
      OBVIOUS
    <2>3. d.by = c.by /\ d.arg = c.arg /\ d.name = c.name /\ d.writes = m
      BY <2>2 DEF Setters
    <2>4. h = [g EXCEPT !["TTL"] = d]
      BY <1>1, <1>2, <2>1, <2>2 DEF SettersWritten
    <2>5. h["TTL"] = d /\ \A k \in Keys \ {"TTL"} : h[k] = g[k]
      BY <1>1, <2>4
    <2>6. m <= 1 => c.writes = 0
      BY <2>1 DEF Setters
    <2> QED  BY <1>1, <2>3, <2>5, <2>6
  <1>3. CASE ~ (c.by = "value" /\ Quot(c.arg, Second) = 0)
    BY <1>1, <1>3 DEF SettersWritten
  <1> QED  BY <1>2, <1>3

LEMMA WritesAsSet ==
    ASSUME NEW u \in Usings, NEW g, UsingKept(u, g), NEW h, h = SettersWritten(g),
           NEW key \in Keys
    PROVE  DroppedBy(h, key) \/ PartOf(u, key) = AskedBy(h, key)
  <1>1. g \in [Keys -> Setters] /\ h \in [Keys -> Setters]
    BY WriteKeeps DEF UsingKept
  <1>2. PICK c \in Setters : c = g[key]
    BY <1>1
  <1>3. PICK d \in Setters : d = h[key]
    BY <1>1
  <1>4. /\ d.by = c.by /\ d.arg = c.arg /\ d.name = c.name
        /\ key # "TTL" => d = c
        /\ key = "TTL" /\ c.by = "value" /\ Quot(c.arg, Second) = 0 /\ d.writes <= 1
             => c.writes = 0
    BY <1>1, <1>2, <1>3, SettersWrittenAre
  <1>5. c.by = "name" => c.name = key /\ c.name # NoName
    BY <1>2, KeysAreNames DEF UsingKept
  <1>6. /\ d.by = "none" => AskedBy(h, key) = <<>>
        /\ d.by = "name" => AskedBy(h, key) = <<Clause(key, Param(d.name), <<>>)>>
        /\ d.by = "value" => AskedBy(h, key) = <<Clause(key, Lit, LiteralOf(key, d.arg))>>
    BY <1>3 DEF AskedBy
  <1>7. c.by \in {"none", "name", "value"} /\ c.arg \in Int /\ c.writes \in 0 .. 2
          /\ d.writes \in 0 .. 2
    BY DEF Setters
  <1>8. CASE key = "TTL"
    <2>1. TTLKept(u, c)
      BY <1>2, <1>8 DEF UsingKept
    <2>2. PartOf(u, key) = Part(key, u.ttl, <<WrittenTTL(u.ttl)>>, u.ttlName)
      BY <1>8 DEF PartOf
    <2>3. CASE c.by = "none"
      BY <1>4, <1>6, <2>1, <2>2, <2>3 DEF TTLKept, Part
    <2>4. CASE c.by = "name"
      BY <1>4, <1>5, <1>6, <2>1, <2>2, <2>4 DEF TTLKept, Part
    <2>5. CASE c.by = "value"
      <3>1. PICK q \in Int : q = Quot(c.arg, Second)
        BY <1>7, QuotType
      <3>2. CASE q = -1 \/ (q = 0 /\ d.writes > 1)
        BY <1>3, <1>4, <1>8, <2>5, <3>1, <3>2 DEF DroppedBy
      <3>3. CASE ~ (q = -1 \/ (q = 0 /\ d.writes > 1))
        <4>1. q = 0 => c.writes = 0
          BY <1>4, <1>7, <1>8, <2>5, <3>1, <3>3
        <4>2. q = 0 => u.ttl = -1
          BY <2>1, <2>5, <3>1, <4>1 DEF TTLKept
        <4>3. q # 0 => u.ttl = q /\ q # -1
          <5> SUFFICES ASSUME q # 0 PROVE u.ttl = q /\ q # -1
            OBVIOUS
          <5>1. q # -1
            BY <3>3
          <5>2. PICK s : s = Quot(c.arg, Second) /\ s \notin {0, -1}
            BY <3>1, <5>1
          <5>3. u.ttl = s
            BY <2>1, <2>5, <5>2 DEF TTLKept
          <5> QED  BY <3>1, <5>1, <5>2, <5>3
        <4>4. u.ttl # 0 /\ WrittenTTL(u.ttl) = q
          BY <4>2, <4>3 DEF WrittenTTL
        <4>5. LiteralOf(key, d.arg) = <<q>>
          BY <1>4, <1>8, <3>1 DEF LiteralOf
        <4> QED  BY <1>4, <1>6, <2>2, <2>5, <4>4, <4>5 DEF Part
      <3> QED  BY <3>2, <3>3
    <2> QED  BY <1>7, <2>3, <2>4, <2>5
  <1>9. CASE key = "TIMESTAMP"
    <2>1. TimestampKept(u, c)
      BY <1>2, <1>9 DEF UsingKept
    <2>2. PartOf(u, key) = Part(key, u.timestamp, <<u.timestamp>>, u.timestampName)
      BY <1>9 DEF PartOf
    <2>3. CASE c.by = "none"
      BY <1>4, <1>6, <2>1, <2>2, <2>3 DEF TimestampKept, Part
    <2>4. CASE c.by = "name"
      <3>1. CASE c.ttlAfter
        BY <1>3, <1>4, <1>9, <2>4, <3>1 DEF DroppedBy
      <3>2. CASE ~ c.ttlAfter
        BY <1>4, <1>5, <1>6, <2>1, <2>2, <2>4, <3>2 DEF TimestampKept, Part
      <3> QED  BY <3>1, <3>2
    <2>5. CASE c.by = "value"
      <3>1. CASE c.arg = 0
        BY <1>3, <1>4, <1>9, <2>5, <3>1 DEF DroppedBy
      <3>2. CASE c.arg # 0
        <4>1. LiteralOf(key, d.arg) = <<c.arg>>
          BY <1>4, <1>9 DEF LiteralOf
        <4> QED  BY <1>4, <1>6, <2>1, <2>2, <2>5, <3>2, <4>1 DEF TimestampKept, Part
      <3> QED  BY <3>1, <3>2
    <2> QED  BY <1>7, <2>3, <2>4, <2>5
  <1>10. CASE key = "TIMEOUT"
    <2>1. TimeoutIsKept(u, c)
      BY <1>2, <1>10 DEF UsingKept
    <2>2. PartOf(u, key) = Part(key, u.timeout, formatDuration(u.timeout), u.timeoutName)
      BY <1>10 DEF PartOf
    <2>3. CASE c.by = "none"
      BY <1>4, <1>6, <2>1, <2>2, <2>3 DEF TimeoutIsKept, Part
    <2>4. CASE c.by = "name"
      BY <1>4, <1>5, <1>6, <2>1, <2>2, <2>4 DEF TimeoutIsKept, Part
    <2>5. CASE c.by = "value"
      <3>1. CASE c.arg < Millisecond
        BY <1>3, <1>4, <1>10, <2>5, <3>1 DEF DroppedBy
      <3>2. CASE ~ (c.arg < Millisecond)
        <4>1. c.arg # 0
          BY <1>7, <3>2 DEF Millisecond
        <4>2. LiteralOf(key, d.arg) = formatDuration(c.arg)
          BY <1>4, <1>10 DEF LiteralOf
        <4> QED  BY <1>4, <1>6, <2>1, <2>2, <2>5, <4>1, <4>2 DEF TimeoutIsKept, Part
      <3> QED  BY <3>1, <3>2
    <2> QED  BY <1>7, <2>3, <2>4, <2>5
  <1> QED  BY <1>8, <1>9, <1>10 DEF Keys

(* What a builder writes can be added to a batch.                           *)
LEMMA BuilderWritings ==
    ASSUME NEW f \in Makings, OfItsKind(f) PROVE BuilderToCql(f) \in Writings
  <1>1. PICK s : s = BuilderToCql(f)
    OBVIOUS
  <1>2. WellWritten(f, s)
    BY <1>1, BuilderWrites
  <1>3. s = [text |-> s.text, names |-> s.names]
    <2>1. \A t, n : Statement(t, n) = [text |-> Statement(t, n).text,
                                       names |-> Statement(t, n).names]
      BY DEF Statement
    <2>2. \E t, n : s = Statement(t, n)
      <3>1. f.kind \in AllKinds
        BY DEF Makings
      <3> QED  BY <1>1, <3>1
                DEF BuilderToCql, AllKinds, SelectToCql, InsertToCql, UpdateToCql, DeleteToCql
    <2> QED  BY <2>1, <2>2
  <1> QED  BY <1>1, <1>2, <1>3 DEF WellWritten, InOrder, Ordered, Writings

(* A duration is short of its minutes, seconds and milliseconds by less     *)
(* than a millisecond, and if it has one they are not all zero.             *)
LEMMA DurationParts ==
    ASSUME NEW d \in Nat, NEW l, l = formatDuration(d), NEW rest,
           rest = d - (l[1] * Minute + l[2] * Second + l[3] * Millisecond)
    PROVE  /\ -Millisecond < rest /\ rest < Millisecond
           /\ d >= Millisecond => l # <<0, 0, 0>>
  <1>1. Minute = 60000000 /\ Second = 1000000 /\ Millisecond = 1000
    BY DEF Minute, Second, Millisecond
  <1>2. PICK m \in Nat : m = d \div 60000000
    BY SMT
  <1>3. PICK r \in Nat : r = d % 60000000
    BY SMT
  <1>4. d = 60000000 * m + r
    BY <1>2, <1>3, SMT
  <1>5. PICK s \in Nat : s = r \div 1000000
    BY SMT
  <1>6. PICK q \in Nat : q = d % 1000000
    BY SMT
  <1>7. q = r % 1000000
    BY <1>3, <1>6, SMT
  <1>8. r = 1000000 * s + q
    BY <1>5, <1>7, SMT
  <1>9. PICK t \in Nat : t = q \div 1000
    BY SMT
  <1>10. PICK e \in 0 .. 999 : e = q % 1000
    BY SMT
  <1>11. q = 1000 * t + e
    BY <1>9, <1>10, SMT
  <1>12. l = <<m, s, t>>
    BY <1>1, <1>2, <1>3, <1>5, <1>6, <1>9, SMT DEF formatDuration
  <1>13. rest = d - (m * 60000000 + s * 1000000 + t * 1000)
    BY <1>1, <1>12, SMT
  <1>14. rest = e
    BY <1>4, <1>8, <1>11, <1>13, SMT
  <1>15. d >= 1000 => ~ (m = 0 /\ s = 0 /\ t = 0)
    BY <1>4, <1>8, <1>11, SMT
  <1>16. d >= Millisecond => l # <<0, 0, 0>>
    BY <1>1, <1>12, <1>15, SMT
  <1> QED  BY <1>1, <1>14, <1>16, SMT

-----------------------------------------------------------------------------
(* The instance's histories are those above.                                *)
LEMMA HistoriesAre ==
    /\ \A key, by, arg, name :
         U!AfterSet(key, by, arg, name) = SettersAfter(last, key, by, arg, name)
    /\ U!AfterToCql = SettersWritten(last)
  <1>1. ASSUME NEW key, NEW by, NEW arg, NEW name
        PROVE  U!AfterSet(key, by, arg, name) = SettersAfter(last, key, by, arg, name)
    BY SameInU, Zenon DEF U!AfterSet, U!Setter, SettersAfter, SetterOf, TTLAfter
  <1>2. U!AfterToCql = SettersWritten(last)
    BY SameInU, Zenon DEF U!AfterToCql, SettersWritten
  <1> QED  BY <1>1, <1>2

(* The invariant holds at the start.                                       *)
LEMMA Starts == Init => Building
  <1> SUFFICES ASSUME Init PROVE Building
    OBVIOUS
  <1>1. program \in Programs /\ program.kinds \subseteq AllKinds
    BY ProgramsAssumption DEF Init
  <1>2. PICK kind \in AllKinds : b = NewBuilder(kind)
    BY <1>1 DEF Init
  <1>3. b = FreshBuilder(kind, <<>>, <<>>)
    <2> DEFINE r == [kind |-> kind, columns |-> <<>>, where |-> <<>>, if |-> <<>>,
                     groupBy |-> <<>>, distinct |-> <<>>, limit |-> <<>>,
                     limitPerPartition |-> <<>>, json |-> FALSE, using |-> NoUsing]
    <2>1. NewBuilder(kind) = r
      BY DEF NewBuilder
    <2>2. FreshBuilder(kind, <<>>, <<>>) = r
      BY FreshIs
    <2> HIDE DEF r
    <2> QED  BY <1>2, <2>1, <2>2
  <1>4. <<>> \in Seq(Vals) /\ <<>> \in Seq(Words)
    OBVIOUS
  <1>5. Made(b, Given(kind, <<>>) \o Parts("where", <<>>))
    BY <1>3, <1>4, FreshIsMade
  <1>6. Given(kind, <<>>) \o Parts("where", <<>>) = <<>>
    BY EmptyParts DEF Given
  <1>7. b \in Makings /\ OfItsKind(b) /\ AsAsked(b, calls) /\ UsingKept(b.using, last)
    BY <1>5, <1>6, NothingSetKept DEF Init, Made
  <1>8. BatchHolds(batch, added)
    <2>1. AllText(<<>>) = <<>> /\ AllNames(<<>>) = <<>> /\ ~ SomeJson(<<>>)
      BY FlattenOfEmpty, EmptySeq DEF AllText, AllNames, SomeJson
    <2>2. ~ HasJson(<<>>)
      BY DEF HasJson
    <2>3. batch = [stmts |-> <<>>, names |-> <<>>, using |-> NoUsing] /\ added = <<>>
      BY DEF Init, NewBatch
    <2>4. batch \in Batches
      BY <2>3, NothingSetKept DEF Batches
    <2> QED  BY <2>1, <2>2, <2>3, <2>4, HolesEmpty DEF BatchHolds
  <1>9. OutputIsText(out) /\ Showing(out, b, last, added)
    <2>1. out.from = "none" /\ out.stmt.text = <<>> /\ out.stmt.names = <<>>
      BY DEF Init, NoStatement, Statement
    <2> QED  BY <2>1, HolesEmpty DEF OutputIsText, Showing
  <1> QED  BY <1>1, <1>7, <1>8, <1>9 DEF Building

(* Nothing is shown while nothing is written.                               *)
LEMMA NothingShown ==
    ASSUME NEW f, NEW g, NEW adds
    PROVE  OutputIsText(NoStatement) /\ Showing(NoStatement, f, g, adds)
  <1>1. /\ NoStatement.from = "none" /\ NoStatement.stmt.text = <<>>
        /\ NoStatement.stmt.names = <<>>
    BY DEF NoStatement, Statement
  <1> QED  BY <1>1, HolesEmpty DEF OutputIsText, Showing

LEMMA FreshKeeps ==
    ASSUME Building, NEW kind \in AllKinds, NEW where \in Seq(Vals),
           NEW columns \in IF kind \in Valued THEN Seq(Vals) ELSE Seq(Words),
           kind = "insert" => where = <<>>,
           Fresh(kind, columns, where)
    PROVE  Building'
  <1>1. /\ b' = FreshBuilder(kind, columns, where)
        /\ calls' = Given(kind, columns) \o Parts("where", where)
        /\ last' = NoSetters /\ out' = NoStatement
        /\ program' = program /\ batch' = batch /\ added' = added
    BY DEF Fresh, FreshBuilder
  <1>2. Made(b', calls')
    BY <1>1, FreshIsMade
  <1>3. UsingKept(b'.using, last')
    BY <1>1, <1>2, NothingSetKept DEF Made
  <1> QED  BY <1>1, <1>2, <1>3, NothingShown DEF Building, Made

(* A statement of a table, and one of package qb, begin a builder.         *)
LEMMA TableKeeps == ASSUME Building, FromTable PROVE Building'
  <1>1. /\ Named(PartKey) \in Seq(Vals) /\ Named(PrimaryKey) \in Seq(Vals)
        /\ Named(PrimaryKey \o <<"c">>) \in Seq(Vals) /\ <<>> \in Seq(Vals)
    <2>1. <<>> \in Seq(Vals)
      OBVIOUS
    <2>2. /\ PartKey \in Seq(Words) /\ PrimaryKey \in Seq(Words)
          /\ PrimaryKey \o <<"c">> \in Seq(Words)
      BY KeysAreWords
    <2>3. Named(PartKey) \in Seq(Vals) /\ Named(PrimaryKey) \in Seq(Vals)
      BY <2>2, NamedType
    <2>4. Named(PrimaryKey \o <<"c">>) \in Seq(Vals)
      BY <2>2, NamedType
    <2> QED  BY <2>1, <2>3, <2>4
  <1>2. PICK columns \in {<<>>, <<"c">>} :
          \/ Fresh("select", columns, Named(PrimaryKey))
          \/ Fresh("select", columns, Named(PartKey))
          \/ Fresh("insert", Named(PrimaryKey \o <<"c">>), <<>>)
          \/ Fresh("update", Named(columns), Named(PrimaryKey))
          \/ Fresh("delete", columns, Named(PrimaryKey))
    BY DEF FromTable
  <1>3. columns \in Seq(Words)
    BY KeysAreWords
  <1>4. Named(columns) \in Seq(Vals)
    BY <1>3, NamedType
  <1>5. /\ {"select", "insert", "update", "delete"} \subseteq AllKinds
        /\ {"insert", "update"} \subseteq Valued
        /\ "select" \notin Valued /\ "delete" \notin Valued
    BY DEF AllKinds, Valued
  <1>6. CASE \/ Fresh("select", columns, Named(PrimaryKey))
             \/ Fresh("select", columns, Named(PartKey))
    BY <1>1, <1>3, <1>5, <1>6, FreshKeeps
  <1>7. CASE Fresh("insert", Named(PrimaryKey \o <<"c">>), <<>>)
    <2>1. PICK vs \in Seq(Vals) : vs = Named(PrimaryKey \o <<"c">>)
      BY <1>1
    <2>2. Fresh("insert", vs, <<>>)
      BY <1>7, <2>1
    <2> QED  BY <1>1, <1>5, <2>2, FreshKeeps
  <1>8. CASE Fresh("update", Named(columns), Named(PrimaryKey))
    BY <1>1, <1>4, <1>5, <1>8, FreshKeeps
  <1>9. CASE Fresh("delete", columns, Named(PrimaryKey))
    BY <1>1, <1>3, <1>5, <1>9, FreshKeeps
  <1> QED  BY <1>2, <1>6, <1>7, <1>8, <1>9

LEMMA NewKeeps == ASSUME Building, NewStatement PROVE Building'
  <1>1. program.kinds \subseteq AllKinds
    BY ProgramsAssumption DEF Building
  <1>2. PICK kind \in AllKinds : Fresh(kind, <<>>, <<>>)
    BY <1>1 DEF NewStatement
  <1>3. <<>> \in Seq(Vals) /\ <<>> \in Seq(Words)
    OBVIOUS
  <1> QED  BY <1>2, <1>3, FreshKeeps

(* Adding a value, a column or JSON to the builder.                        *)
LEMMA AskKeeps ==
    ASSUME Building, NEW g, NEW p, Ask(g, p), Asks(b, g, calls, p)
    PROVE  Building'
  <1>1. /\ b' = g /\ calls' = Append(calls, p) /\ out' = NoStatement
        /\ program' = program /\ batch' = batch /\ last' = last /\ added' = added
    BY DEF Ask
  <1> QED  BY <1>1, NothingShown DEF Building, Asks

LEMMA ClauseKeeps == ASSUME Building, AddClause PROVE Building'
  <1>1. PICK c, v : /\ c \in ValueClauses(b.kind) /\ v \in Values(c)
                    /\ Ask(Add(b, c, v), Clause(c, v, <<>>))
    BY DEF AddClause
  <1>2. v \in {Lit} \cup {Param(n) : n \in program.params}
                \cup {TupleParam(n, 2) : n \in program.params}
                \cup {Token(columns, <<>>) : columns \in program.params \X program.params}
    BY <1>1 DEF Values
  <1>3. v \in Vals
    BY <1>2, ValuesAreVals DEF Building
  <1>4. b \in Makings /\ OfItsKind(b) /\ AsAsked(b, calls)
    BY DEF Building
  <1>5. Asks(b, Add(b, c, v), calls, Clause(c, v, <<>>))
    BY <1>1, <1>3, <1>4, AddKeeps
  <1> QED  BY <1>1, <1>5, AskKeeps

LEMMA ColumnsAreWords ==
    ASSUME program \in Programs, NEW columns \in Columns PROVE columns \in Seq(Words)
  <1>1. \A n \in program.params : n \in Words
    BY DEF Words
  <1>2. CASE columns = <<>>
    BY <1>2
  <1>3. CASE columns \in {<<c>> : c \in program.params}
    BY <1>1, <1>3, OneOf
  <1>4. CASE columns \in program.params \X program.params
    <2>1. PICK m \in Words, n \in Words : columns = <<m, n>>
      BY <1>1, <1>4
    <2> QED  BY <2>1
  <1> QED  BY <1>2, <1>3, <1>4 DEF Columns

LEMMA ColumnKeeps == ASSUME Building, AddColumn PROVE Building'
  <1>1. PICK c, columns : /\ c \in ColumnClauses(b.kind) /\ columns \in Columns
                          /\ Ask(AddColumns(b, c, columns), Clause(c, Lit, columns))
    BY DEF AddColumn
  <1>2. columns \in Seq(Words)
    BY <1>1, ColumnsAreWords DEF Building
  <1>3. b \in Makings /\ OfItsKind(b) /\ AsAsked(b, calls)
    BY DEF Building
  <1>4. Asks(b, AddColumns(b, c, columns), calls, Clause(c, Lit, columns))
    BY <1>1, <1>2, <1>3, AddColumnsKeeps
  <1> QED  BY <1>1, <1>4, AskKeeps

LEMMA JsonKeeps == ASSUME Building, Json PROVE Building'
  <1>1. /\ b.kind = "insert" /\ b' = [b EXCEPT !.json = TRUE] /\ out' = NoStatement
        /\ program' = program /\ batch' = batch /\ calls' = calls /\ last' = last
        /\ added' = added
    BY DEF Json
  <1>2. b \in Makings /\ OfItsKind(b) /\ AsAsked(b, calls)
    BY DEF Building
  <1>3. PICK g : g = [b EXCEPT !.json = TRUE]
    OBVIOUS
  <1>4. /\ g \in Makings /\ g.using = b.using /\ g.kind = b.kind
        /\ g.columns = b.columns /\ g.where = b.where /\ g.if = b.if /\ g.groupBy = b.groupBy
        /\ g.distinct = b.distinct /\ g.limit = b.limit
        /\ g.limitPerPartition = b.limitPerPartition
    BY <1>2, <1>3 DEF Makings
  <1>5. OfItsKind(g)
    BY <1>1, <1>2, <1>4 DEF OfItsKind
  <1>6. AsAsked(g, calls)
    BY <1>2, <1>4 DEF AsAsked
  <1> QED  BY <1>1, <1>3, <1>4, <1>5, <1>6, NothingShown DEF Building

(* A builder with another USING value is of its kind and as asked.          *)
LEMMA UsingAlone ==
    ASSUME NEW f \in Makings, OfItsKind(f), NEW asked, AsAsked(f, asked), NEW w \in Usings,
           NEW g, g = [f EXCEPT !.using = w]
    PROVE  /\ g \in Makings /\ OfItsKind(g) /\ AsAsked(g, asked) /\ g.using = w
           /\ \A s : Ordered(f, s) => Ordered(g, s)
  <1>1. /\ g \in Makings /\ g.using = w /\ g.kind = f.kind /\ g.json = f.json
        /\ g.columns = f.columns /\ g.where = f.where /\ g.if = f.if /\ g.groupBy = f.groupBy
        /\ g.distinct = f.distinct /\ g.limit = f.limit
        /\ g.limitPerPartition = f.limitPerPartition
    BY DEF Makings
  <1>2. OfItsKind(g)
    BY <1>1 DEF OfItsKind
  <1>3. AsAsked(g, asked)
    BY <1>1 DEF AsAsked
  <1>4. \A s : Ordered(f, s) => Ordered(g, s)
    BY <1>1 DEF Ordered
  <1> QED  BY <1>1, <1>2, <1>3, <1>4

LEMMA ArgumentsAreInts ==
    ASSUME program \in Programs, NEW kind, NEW key \in KeysOf(kind)
    PROVE  key \in Keys /\ \A arg \in Arguments(key) : arg \in Int
  <1>1. /\ program.keys \subseteq Keys /\ program.durations \subseteq Int
        /\ program.times \subseteq Int
    BY ProgramsAssumption
  <1>2. key \in program.keys
    BY DEF KeysOf
  <1> QED  BY <1>1, <1>2 DEF Arguments

(* The setters of USING, of the builder and of the batch.                  *)
LEMMA UsingKeeps == ASSUME Building, BuilderUsing PROVE Building'
  <1>1. PICK key \in KeysOf(b.kind) :
          \/ /\ b' = [b EXCEPT !.using = Set(@, key, "name", 0, key)]
             /\ last' = U!AfterSet(key, "name", 0, key)
          \/ \E arg \in Arguments(key) :
               /\ b' = [b EXCEPT !.using = Set(@, key, "value", arg, NoName)]
               /\ last' = U!AfterSet(key, "value", arg, NoName)
    BY DEF BuilderUsing
  <1>2. key \in Keys /\ \A arg \in Arguments(key) : arg \in Int
    BY ArgumentsAreInts DEF Building
  <1>3. PICK by, arg, name : /\ Setting(key, by, arg, name)
                             /\ b' = [b EXCEPT !.using = Set(@, key, by, arg, name)]
                             /\ last' = U!AfterSet(key, by, arg, name)
    BY <1>1, <1>2 DEF Setting
  <1>4. /\ out' = NoStatement /\ program' = program /\ batch' = batch /\ calls' = calls
        /\ added' = added
    BY DEF BuilderUsing
  <1>5. /\ b \in Makings /\ OfItsKind(b) /\ AsAsked(b, calls) /\ b.using \in Usings
        /\ UsingKept(b.using, last)
    BY DEF Building, Makings
  <1>6. PICK w : w = Set(b.using, key, by, arg, name)
    OBVIOUS
  <1>7. PICK h : h = SettersAfter(last, key, by, arg, name)
    OBVIOUS
  <1>8. w \in Usings /\ UsingKept(w, h)
    BY <1>3, <1>5, <1>6, <1>7, SetterKeeps
  <1>9. PICK g : g = [b EXCEPT !.using = w]
    OBVIOUS
  <1>10. g \in Makings /\ OfItsKind(g) /\ AsAsked(g, calls) /\ g.using = w
    BY <1>5, <1>8, <1>9, UsingAlone
  <1>11. b' = g /\ last' = h
    BY <1>3, <1>6, <1>7, <1>9, HistoriesAre
  <1> QED  BY <1>4, <1>8, <1>10, <1>11, NothingShown DEF Building

LEMMA BatchUsingKeeps == ASSUME Building, BatchUsing PROVE Building'
  <1>1. PICK key \in KeysOf("batch") :
          \/ batch' = [batch EXCEPT !.using = Set(@, key, "name", 0, key)]
          \/ \E arg \in Arguments(key) :
               batch' = [batch EXCEPT !.using = Set(@, key, "value", arg, NoName)]
    BY DEF BatchUsing
  <1>2. key \in Keys /\ \A arg \in Arguments(key) : arg \in Int
    BY ArgumentsAreInts DEF Building
  <1>3. PICK by, arg, name : /\ Setting(key, by, arg, name)
                             /\ batch' = [batch EXCEPT !.using = Set(@, key, by, arg, name)]
    BY <1>1, <1>2 DEF Setting
  <1>4. /\ out' = NoStatement /\ program' = program /\ b' = b /\ calls' = calls
        /\ last' = last /\ added' = added
    BY DEF BatchUsing
  <1>5. BatchHolds(batch, added) /\ batch.using \in Usings
    BY DEF Building, BatchHolds, Batches
  <1>6. PICK w \in Usings : w = Set(batch.using, key, by, arg, name)
    BY <1>3, <1>5, SetType
  <1>7. batch' = [batch EXCEPT !.using = w]
    BY <1>3, <1>6
  <1>8. BatchHolds(batch', added)
    BY <1>5, <1>7, UsingKeepsBatch
  <1> QED  BY <1>4, <1>8, NothingShown DEF Building

(* What both ways of writing the builder leave.                             *)
LEMMA WrittenKeeps ==
    ASSUME Building, BuilderWritten
    PROVE  /\ b' \in Makings /\ OfItsKind(b') /\ AsAsked(b', calls)
           /\ UsingKept(b'.using, last')
           /\ Shows(BuilderToCql(b), b', last')
  <1>1. /\ b \in Makings /\ OfItsKind(b) /\ AsAsked(b, calls) /\ b.using \in Usings
        /\ UsingKept(b.using, last)
    BY DEF Building, Makings
  <1>2. PICK s : s = BuilderToCql(b)
    OBVIOUS
  <1>3. WellWritten(b, s)
    BY <1>1, <1>2, BuilderWrites
  <1>4. HasJson(s.text) <=> b.json
    BY <1>3 DEF WellWritten
  <1>5. b.json => b.kind = "insert"
    BY <1>1 DEF OfItsKind
  <1>6. CASE b.json
    <2>1. b' = b /\ last' = last
      BY <1>2, <1>4, <1>5, <1>6 DEF BuilderWritten, AfterToCql
    <2> QED  BY <1>1, <1>2, <1>4, <1>6, <2>1 DEF Shows
  <1>7. CASE ~ b.json
    <2>1. PICK w : w = AfterWrite(b.using)
      OBVIOUS
    <2>2. PICK h : h = SettersWritten(last)
      OBVIOUS
    <2>3. w \in Usings /\ UsingKept(w, h)
      BY <1>1, <2>1, <2>2, WriteKeeps
    <2>4. PICK g : g = [b EXCEPT !.using = w]
      OBVIOUS
    <2>5. /\ g \in Makings /\ OfItsKind(g) /\ AsAsked(g, calls) /\ g.using = w
          /\ \A t : Ordered(b, t) => Ordered(g, t)
      BY <1>1, <2>3, <2>4, UsingAlone
    <2>6. b' = g
      BY <1>7, <2>1, <2>4 DEF BuilderWritten, AfterToCql
    <2>7. last' = h
      BY <1>2, <1>4, <1>7, <2>2, HistoriesAre DEF BuilderWritten
    <2>8. Ordered(b, s) /\ \A key \in Keys : OfClause(key, s.text) = PartOf(b.using, key)
      BY <1>3, <1>7 DEF WellWritten, InOrder
    <2>9. AsSet(s, h)
      BY <1>1, <2>2, <2>8, WritesAsSet DEF AsSet
    <2> QED  BY <1>2, <2>3, <2>5, <2>6, <2>7, <2>8, <2>9 DEF Shows
  <1> QED  BY <1>6, <1>7

(* Writing the builder, adding it to the batch, writing the batch.         *)
LEMMA WriteBuilderKeeps == ASSUME Building, WriteBuilder PROVE Building'
  <1>1. PICK s : s = BuilderToCql(b)
    OBVIOUS
  <1>2. /\ out' = [from |-> "builder", stmt |-> s] /\ BuilderWritten
        /\ program' = program /\ batch' = batch /\ calls' = calls /\ added' = added
    BY <1>1 DEF WriteBuilder
  <1>3. s \in Writings
    BY <1>1, BuilderWritings DEF Building
  <1>4. out'.from = "builder" /\ out'.stmt = s
    BY <1>2
  <1>5. /\ b' \in Makings /\ OfItsKind(b') /\ AsAsked(b', calls)
        /\ UsingKept(b'.using, last') /\ Shows(s, b', last')
    BY <1>1, <1>2, WrittenKeeps
  <1>6. OutputIsText(out')
    BY <1>3, <1>4 DEF Writings, OutputIsText
  <1>7. Showing(out', b', last', added')
    BY <1>4, <1>5 DEF Showing
  <1> QED  BY <1>2, <1>5, <1>6, <1>7 DEF Building

LEMMA AddToBatchKeeps == ASSUME Building, AddToBatch PROVE Building'
  <1>1. PICK s : s = BuilderToCql(b)
    OBVIOUS
  <1>2. PICK prefix \in program.prefixes :
          /\ batch' = AddStmtWithPrefix(batch, prefix, s)
          /\ added' = Append(added, [prefix |-> prefix, stmt |-> s])
    BY <1>1 DEF AddToBatch
  <1>3. /\ BuilderWritten /\ out' = NoStatement
        /\ program' = program /\ calls' = calls
    BY DEF AddToBatch
  <1>4. s \in Writings
    BY <1>1, BuilderWritings DEF Building
  <1>5. prefix \in PrefixWords /\ program \in Programs
    <2>1. program \in Programs
      BY DEF Building
    <2> QED  BY <2>1 DEF PrefixWords, Words
  <1>6. BatchHolds(batch, added)
    BY DEF Building
  <1>7. BatchHolds(batch', added')
    BY <1>2, <1>4, <1>5, <1>6, AddKeepsBatch
  <1>8. /\ b' \in Makings /\ OfItsKind(b') /\ AsAsked(b', calls)
        /\ UsingKept(b'.using, last')
    BY <1>3, WrittenKeeps
  <1> QED  BY <1>3, <1>5, <1>7, <1>8, NothingShown DEF Building

LEMMA WriteBatchKeeps == ASSUME Building, WriteBatch PROVE Building'
  <1>1. PICK s : s = BatchToCql(batch)
    OBVIOUS
  <1>2. /\ out' = [from |-> "batch", stmt |-> s]
        /\ batch' = [batch EXCEPT !.using = AfterWrite(@)]
        /\ program' = program /\ b' = b /\ calls' = calls /\ last' = last /\ added' = added
    BY <1>1 DEF WriteBatch
  <1>3. BatchHolds(batch, added) /\ batch.using \in Usings
    BY DEF Building, BatchHolds, Batches
  <1>4. /\ s.text \in Seq(Pieces)
        /\ HasJson(s.text) <=> SomeJson(added)
        /\ ~ SomeJson(added) => InLine(s, added) /\ Len(s.names) = Len(Holes(s.text))
    BY <1>1, <1>3, BatchWrites
  <1>5. out'.from = "batch" /\ out'.stmt = s
    BY <1>2
  <1>6. OutputIsText(out') /\ Showing(out', b', last', added')
    <2>1. Showing(out', b', last', added')
      BY <1>2, <1>4, <1>5 DEF Showing
    <2>2. OutputIsText(out')
      BY <1>4, <1>5 DEF OutputIsText
    <2> QED  BY <2>1, <2>2
  <1>7. PICK w \in Usings : w = AfterWrite(batch.using)
    BY <1>3, WriteType
  <1>8. BatchHolds(batch', added)
    BY <1>2, <1>3, <1>7, UsingKeepsBatch
  <1> QED  BY <1>2, <1>6, <1>8 DEF Building

(* Every step keeps the invariant.                                         *)
LEMMA StepsKeep == Building /\ [Next]_vars => Building'
  <1> SUFFICES ASSUME Building, [Next]_vars PROVE Building'
    OBVIOUS
  <1>1. CASE NewStatement
    BY <1>1, NewKeeps
  <1>2. CASE FromTable
    BY <1>2, TableKeeps
  <1>3. CASE AddClause
    BY <1>3, ClauseKeeps
  <1>4. CASE AddColumn
    BY <1>4, ColumnKeeps
  <1>5. CASE Json
    BY <1>5, JsonKeeps
  <1>6. CASE BuilderUsing
    BY <1>6, UsingKeeps
  <1>7. CASE BatchUsing
    BY <1>7, BatchUsingKeeps
  <1>8. CASE WriteBuilder
    BY <1>8, WriteBuilderKeeps
  <1>9. CASE AddToBatch
    BY <1>9, AddToBatchKeeps
  <1>10. CASE WriteBatch
    BY <1>10, WriteBatchKeeps
  <1>11. CASE UNCHANGED vars
    BY <1>11 DEF vars, Building
  <1> QED  BY <1>1, <1>2, <1>3, <1>4, <1>5, <1>6, <1>7, <1>8, <1>9, <1>10, <1>11 DEF Next

(* Building holds in every state that a program reaches: what its builder  *)
(* holds is what it was asked for since it was made, its batch holds every *)
(* statement added with its prefix, and what ToCql returned last shows it. *)
THEOREM Builds == Spec => []Building
  <1> QED  BY Starts, StepsKeep, PTL DEF Spec

-----------------------------------------------------------------------------
(* The invariant implies each property of the run.                         *)
LEMMA BuildingIsTyped == Building => TypeOK
  <1> SUFFICES ASSUME Building PROVE TypeOK
    OBVIOUS
  <1>1. b \in Makings /\ OfItsKind(b) /\ OutputIsText(out)
    BY DEF Building
  <1>2. b.kind \in AllKinds /\ b.using \in Usings
    BY <1>1 DEF Makings
  <1>3. b.kind # "select" => b.groupBy \o b.distinct \o b.limit \o b.limitPerPartition = <<>>
    <2>1. (((<<>> \o <<>>) \o <<>>) \o <<>>) = <<>>
      OBVIOUS
    <2> QED  BY <1>1, <2>1 DEF OfItsKind
  <1>4. /\ b.kind \in {"select", "insert"} => b.if = <<>>
        /\ Len(b.limit) <= 1 /\ Len(b.limitPerPartition) <= 1
    BY <1>1 DEF OfItsKind
  <1>5. U!TypeOK
    <2>1. /\ b.using.ttl \in Int /\ b.using.timestamp \in Int /\ b.using.timeout \in Int
          /\ {b.using.ttlName, b.using.timestampName, b.using.timeoutName}
               \subseteq Keys \cup {NoName}
      BY <1>2 DEF Usings, SomeNames
    <2>2. ASSUME NEW i \in DOMAIN out.stmt.text, out.stmt.text[i].clause \in Keys
          PROVE  (out.stmt.text[i].literal = <<>>) <=> (out.stmt.text[i].holes # Lit)
      <3>1. PICK s \in Seq(Pieces) : s = out.stmt.text
        BY <1>1 DEF OutputIsText
      <3>2. s[i] \in Pieces
        BY <3>1, LenProperties, ElementOfSeq
      <3> QED  BY <2>2, <3>1, <3>2 DEF Pieces
    <2> QED  BY <2>1, <2>2, SameInU DEF U!TypeOK, UsingWritten
  <1>6. ~ HasJson(out.stmt.text) => Len(out.stmt.names) = Len(Holes(out.stmt.text))
    BY <1>1 DEF OutputIsText
  <1> QED  BY <1>2, <1>3, <1>4, <1>5, <1>6 DEF TypeOK

LEMMA BuildingLinesUp == Building => NamesLineUp
  BY DEF Building, Showing, Shows, Ordered, NamesLineUp

LEMMA BuildingAsAsked == Building => ClausesAsAsked
  <1> SUFFICES ASSUME Building, out.from = "builder", ~ HasJson(out.stmt.text)
               PROVE  ClausesAsAsked
    BY DEF ClausesAsAsked
  <1>1. b \in Makings /\ OfItsKind(b) /\ AsAsked(b, calls) /\ Ordered(b, out.stmt)
    BY DEF Building, Showing, Shows
  <1>2. \A clause \in {"where", "if"} : Written(clause) = Asked(clause)
    BY <1>1 DEF AsAsked, Ordered, Written, Asked
  <1>3. \A clause \in {"limit", "limitPerPartition"} : Written(clause) = LastAsked(clause)
    <2>1. \A clause : LastAsked(clause) = LastOf(OfClause(clause, calls))
      BY DEF LastAsked, LastOf, Asked
    <2> QED  BY <1>1, <2>1 DEF AsAsked, Ordered, Written
  <1>4. CASE b.kind \in {"insert", "update"}
    <2>1. Written("columns") = Asked("columns")
      BY <1>1, <1>4 DEF AsAsked, Ordered, Written, Asked, Valued
    <2> QED  BY <1>2, <1>3, <1>4, <2>1 DEF ClausesAsAsked
  <1>5. CASE b.kind = "delete"
    <2>1. b.columns \in Seq(Words)
      BY <1>1, <1>5 DEF OfItsKind, Valued
    <2>2. ColumnsIn(ColumnParts("columns", b.columns)) = b.columns
      BY <2>1, ColumnsOfParts, NoKeyIsAClause
    <2>3. ColumnsIn(Written("columns")) = ColumnsIn(Asked("columns"))
      BY <1>1, <1>5, <2>2 DEF AsAsked, Ordered, Written, Asked, Valued
    <2> QED  BY <1>2, <1>3, <1>5, <2>3 DEF ClausesAsAsked
  <1>6. CASE b.kind = "select"
    <2>1. b.columns \in Seq(Words) /\ b.groupBy \in Seq(Words) /\ b.distinct \in Seq(Words)
      BY <1>1, <1>6 DEF OfItsKind, Makings, Valued
    <2>2. PICK cs \in Seq(Words) : cs = b.groupBy \o b.columns
      BY <2>1, ConcatProperties
    <2>3. /\ ColumnsIn(ColumnParts("groupBy", b.groupBy)) = b.groupBy
          /\ ColumnsIn(ColumnParts("distinct", b.distinct)) = b.distinct
          /\ ColumnsIn(ColumnParts("columns", cs)) = cs
      BY <2>1, ColumnsOfParts, NoKeyIsAClause
    <2>4. b.groupBy = ColumnsIn(Asked("groupBy")) /\ b.columns = ColumnsIn(Asked("columns"))
      BY <1>1, <1>6 DEF AsAsked, Asked, Valued
    <2>5. /\ ColumnsIn(Written("groupBy")) = b.groupBy
          /\ ColumnsIn(Written("distinct")) = b.distinct
          /\ Written("columns") = IF b.distinct # <<>> THEN <<>> ELSE ColumnParts("columns", cs)
      BY <1>1, <1>6, <2>2, <2>3 DEF Ordered, Written
    <2>6. ColumnsIn(Written("columns")) = IF b.distinct # <<>> THEN <<>> ELSE cs
      BY <2>3, <2>5, ColumnsEmpty
    <2>7. \A i \in {1} \cup DOMAIN calls :
             Standing(calls, i) => b.distinct = DistinctSince(calls, i)
      BY <1>1 DEF AsAsked, DistinctAsked
    <2>8. SelectorsAsAsked
      BY <2>2, <2>4, <2>5, <2>6, <2>7 DEF SelectorsAsAsked
    <2> QED  BY <1>2, <1>3, <1>6, <2>8 DEF ClausesAsAsked
  <1>7. b.kind \in AllKinds
    BY <1>1 DEF Makings
  <1> QED  BY <1>4, <1>5, <1>6, <1>7 DEF AllKinds

LEMMA BuildingBatchLinesUp == Building => BatchLinesUp
  <1>1. /\ BatchNames = AllNames(added) /\ BatchText = AllText(added)
        /\ JsonInBatch <=> SomeJson(added)
    BY DEF BatchNames, AllNames, NamesOf, BatchText, AllText, JsonInBatch, SomeJson
  <1> QED  BY <1>1 DEF Building, Showing, InLine, BatchLinesUp, BatchInLine

LEMMA BuildingKeepsSetters == Building => LastSetterWins
  <1> SUFFICES ASSUME Building, out.from = "builder", ~ HasJson(out.stmt.text),
                      NEW key \in Keys
               PROVE  U!Dropped(key) \/ U!Shown(key) = U!Asked(key)
    BY SameInU DEF LastSetterWins, U!LastSetterWins, UsingWritten
  <1>1. DroppedBy(last, key) \/ OfClause(key, out.stmt.text) = AskedBy(last, key)
    BY DEF Building, Showing, Shows, AsSet
  <1>2. U!Dropped(key) <=> DroppedBy(last, key)
    BY SameInU DEF U!Dropped, DroppedBy
  <1>3. U!Shown(key) = OfClause(key, out.stmt.text)
    BY SameInU DEF U!Shown, UsingWritten
  <1>4. U!Asked(key) = AskedBy(last, key)
    <2>1. \A arg : U!Literal(key, arg) = LiteralOf(key, arg)
      BY SameInU, Zenon DEF U!Literal, LiteralOf
    <2> QED  BY <2>1, SameInU, Zenon DEF U!Asked, AskedBy
  <1> QED  BY <1>1, <1>2, <1>3, <1>4

LEMMA BuildingKeepsTimeout == Building => TimeoutKept
  <1> SUFFICES ASSUME Building, out.from = "builder", ~ HasJson(out.stmt.text),
                      last["TIMEOUT"].by = "value", last["TIMEOUT"].arg >= Millisecond
               PROVE  TimeoutKept
    BY SameInU DEF TimeoutKept, U!TimeoutKept, UsingWritten
  <1>1. PICK d \in Nat : d = last["TIMEOUT"].arg /\ d >= Millisecond
    <2>1. last["TIMEOUT"] \in Setters
      BY DEF Building, UsingKept, Keys
    <2> QED  BY <2>1 DEF Setters, Millisecond
  <1>2. "TIMEOUT" \in Keys /\ "TIMEOUT" # "TTL" /\ "TIMEOUT" # "TIMESTAMP"
    BY DEF Keys
  <1>3. OfClause("TIMEOUT", out.stmt.text) = AskedBy(last, "TIMEOUT")
    <2>1. ~ DroppedBy(last, "TIMEOUT")
      BY <1>1, <1>2 DEF DroppedBy, Millisecond
    <2> QED  BY <1>2, <2>1 DEF Building, Showing, Shows, AsSet
  <1>4. AskedBy(last, "TIMEOUT") = <<Clause("TIMEOUT", Lit, formatDuration(d))>>
    BY <1>1 DEF AskedBy, LiteralOf
  <1>5. PICK w : w = U!Shown("TIMEOUT")
    OBVIOUS
  <1>6. w = <<Clause("TIMEOUT", Lit, formatDuration(d))>>
    BY <1>3, <1>4, <1>5, SameInU DEF U!Shown, UsingWritten
  <1>7. Len(w) = 1 /\ w[1].literal = formatDuration(d)
    BY <1>6 DEF Clause
  <1>8. PICK l : l = formatDuration(d)
    OBVIOUS
  <1>9. PICK rest : rest = d - (l[1] * Minute + l[2] * Second + l[3] * Millisecond)
    OBVIOUS
  <1>10. l # <<0, 0, 0>> /\ -Millisecond < rest /\ rest < Millisecond
    BY <1>1, <1>8, <1>9, DurationParts
  <1> QED  BY <1>1, <1>5, <1>7, <1>8, <1>9, <1>10, SameInU
           DEF TimeoutKept, U!TimeoutKept

(* A builder only has clauses that its kind has, a limit at most once, and *)
(* what any of them writes has as many names as placeholders, unless there *)
(* is JSON (qb, the fields of the five builders).                          *)
THEOREM TypeCorrect == Spec => []TypeOK
  BY Builds, BuildingIsTyped, PTL

(* ToCql of each builder returns the names of its placeholders, in their   *)
(* order in the text, however its clauses and setters were called          *)
(* (Select-, Insert-, Update- and DeleteBuilder.ToCql).                    *)
THEOREM NamesInLine == Spec => []NamesLineUp
  BY Builds, BuildingLinesUp, PTL

(* Every clause that ToCql writes has all that was added to it, in the     *)
(* order of the calls, a limit the last value set, and DISTINCT the columns *)
(* of the calls that no later call before the first Where has discarded    *)
(* (Where, If, Columns, Set, GroupBy, Distinct, Limit and PerPartitionLimit *)
(* of the builders).                                                       *)
THEOREM ClausesAreAsAsked == Spec => []ClausesAsAsked
  BY Builds, BuildingAsAsked, PTL

(* A batch writes its own USING clause and the statements added to it in   *)
(* their order, and returns the names of all placeholders in that order,   *)
(* each with the prefix its statement was added with (BatchBuilder.ToCql,  *)
(* Add, AddWithPrefix), whatever became of the builders since.             *)
THEOREM BatchesLineUp == Spec => []BatchLinesUp
  BY Builds, BuildingBatchLinesUp, PTL

(* Whatever setters of USING were called and however often the builder was *)
(* written between, each clause is the one its last setter asked for, but  *)
(* for the calls that Dropped lists (using.writeCql).                      *)
THEOREM LastSetterIsKept == Spec => []LastSetterWins
  BY Builds, BuildingKeepsSetters, PTL

(* A timeout of a millisecond or more is written with an amount that is    *)
(* off by less than a millisecond (formatDuration).                        *)
THEOREM TimeoutIsWritten == Spec => []TimeoutKept
  BY Builds, BuildingKeepsTimeout, PTL
=============================================================================
