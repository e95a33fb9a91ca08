---------------------------- MODULE EntryProofs ----------------------------
(***************************************************************************)
(* Theorems about Entry, for any argument vector, any messages and results *)
(* and any length of the line buffer.                                      *)
(*                                                                         *)
(* What the logger leaves in its buffer depends on all the pieces written  *)
(* so far, so the proof needs what FlattenSeq computes for every sequence  *)
(* of sequences: the first part is that theory, by induction over length.  *)
(***************************************************************************)
EXTENDS Entry, SequenceTheorems, FiniteSetTheorems, WellFoundedInduction, TLAPS

-----------------------------------------------------------------------------
(* Induction, and what FlattenSeq computes *)

\* A set of naturals has a least element.
LEMMA Least ==
    ASSUME NEW T, T \subseteq Nat, T # {}
    PROVE  \E x \in T : \A y \in T : x <= y
<1> DEFINE R == OpToRel(<, Nat)
<1>1. IsWellFoundedOn(R, Nat)
  BY NatLessThanWellFounded
<1>2. \E x \in T : \A y \in T : ~ (<<y, x>> \in R)
  <2> HIDE DEF R
  <2> QED BY <1>1, WFMin
<1>3. PICK x \in T : \A y \in T : ~ (<<y, x>> \in R)
  BY <1>2
<1>4. ASSUME NEW y \in T PROVE x <= y
  <2>1. ~(<<y, x>> \in R)
    BY <1>3
  <2>2. ~(y < x)
    BY <2>1 DEF OpToRel
  <2> QED BY <2>2
<1> QED BY <1>4

\* Induction over the naturals, with a set for the predicate.
LEMMA SetInduction ==
    ASSUME NEW S, 0 \in S, \A n \in Nat : n \in S => n + 1 \in S
    PROVE  \A n \in Nat : n \in S
<1> SUFFICES ASSUME NEW T, T = Nat \ S, T # {} PROVE FALSE
  OBVIOUS
<1>1. PICK x \in T : \A y \in T : x <= y
  BY Least
<1>2. x \in Nat /\ x # 0
  OBVIOUS
<1>3. x - 1 \in Nat /\ x - 1 \notin T
  BY <1>1, <1>2
<1> QED BY <1>2, <1>3

\* g flattens the first k sequences of s, at every i up to k.
Flattens(g, s, k) ==
    /\ DOMAIN g = 1..k
    /\ \A i \in 1..k : g[i] = IF i = 1 THEN s[i] ELSE g[i - 1] \o s[i]

\* The recursion of FlattenSeq has a solution.
LEMMA FlattenExists ==
    ASSUME NEW s, NEW n \in Nat
    PROVE  \E g : g = [i \in 1..n |-> IF i = 1 THEN s[i] ELSE g[i - 1] \o s[i]]
<1> DEFINE Fun(g, k) == [i \in 1..k |-> IF i = 1 THEN s[i] ELSE g[i - 1] \o s[i]]
           S == {k \in Nat : \E g : g = Fun(g, k)}
<1>1. 0 \in S
  <2>1. \A g : Fun(g, 0) = [i \in {} |-> 0]
    BY 1..0 = {}
  <2>2. [i \in {} |-> 0] = Fun([i \in {} |-> 0], 0)
    BY <2>1
  <2> HIDE DEF Fun
  <2> QED BY <2>2
<1>2. ASSUME NEW k \in Nat, k \in S PROVE k + 1 \in S
  <2>1. PICK g : g = Fun(g, k)
    BY <1>2
  <2> DEFINE h == Fun(g, k + 1)
  <2>2. \A i \in 1..k : g[i] = IF i = 1 THEN s[i] ELSE g[i - 1] \o s[i]
    BY <2>1
  <2>3. \A i \in 1..(k + 1) : h[i] = IF i = 1 THEN s[i] ELSE g[i - 1] \o s[i]
    OBVIOUS
  <2>4. \A i \in 1..k : i \in 1..(k + 1)
    OBVIOUS
  <2>5. \A i \in 1..k : h[i] = g[i]
    BY <2>2, <2>3, <2>4
  <2>6. \A i \in 1..(k + 1) : i # 1 => i - 1 \in 1..k
    OBVIOUS
  <2>7. \A i \in 1..(k + 1) : i # 1 => g[i - 1] = h[i - 1]
    BY <2>5, <2>6
  <2>8. h = Fun(h, k + 1)
    <3> HIDE DEF h
    <3>1. \A i \in 1..(k + 1) : (IF i = 1 THEN s[i] ELSE g[i - 1] \o s[i])
                                = (IF i = 1 THEN s[i] ELSE h[i - 1] \o s[i])
      BY <2>7
    <3>2. Fun(g, k + 1) = Fun(h, k + 1)
      BY <3>1
    <3> QED BY <3>2 DEF h
  <2>9. k + 1 \in Nat
    OBVIOUS
  <2> HIDE DEF h, Fun
  <2> QED BY <2>8, <2>9
<1> HIDE DEF Fun
<1>3. \A k \in Nat : k \in S
  <2> HIDE DEF S
  <2> QED BY <1>1, <1>2, SetInduction
<1>4. \E g : g = Fun(g, n)
  BY <1>3
<1> QED BY <1>4 DEF Fun

\* FlattenSeq is the last value of its recursion.
LEMMA FlattenDef ==
    ASSUME NEW s, Len(s) \in Nat \ {0}
    PROVE  \E g : Flattens(g, s, Len(s)) /\ FlattenSeq(s) = g[Len(s)]
<1> DEFINE n == Len(s)
           f == CHOOSE g : g = [i \in 1..n |-> IF i = 1 THEN s[i] ELSE g[i - 1] \o s[i]]
<1>1. f = [i \in 1..n |-> IF i = 1 THEN s[i] ELSE f[i - 1] \o s[i]]
  BY FlattenExists
<1>2. FlattenSeq(s) = f[n]
  BY DEF FlattenSeq
<1>3. Flattens(f, s, n)
  <2> HIDE DEF f, n
  <2> QED BY <1>1 DEF Flattens
<1> QED BY <1>2, <1>3

\* The recursion has one solution, whatever follows the first k sequences.
LEMMA FlattenUnique ==
    ASSUME NEW s, NEW t, NEW k \in Nat, NEW l \in Nat, k <= l, NEW g, NEW h,
           Flattens(g, s, k), Flattens(h, t, l), \A i \in 1..k : s[i] = t[i]
    PROVE  \A i \in 1..k : g[i] = h[i]
<1> DEFINE S == {i \in Nat : i \in 1..k => g[i] = h[i]}
<1>1. 0 \in S
  OBVIOUS
<1>2. ASSUME NEW i \in Nat, i \in S PROVE i + 1 \in S
  <2> SUFFICES ASSUME i + 1 \in 1..k PROVE g[i + 1] = h[i + 1]
    OBVIOUS
  <2>1. i + 1 \in 1..l /\ s[i + 1] = t[i + 1] /\ (i + 1) - 1 = i
    OBVIOUS
  <2>2. g[i + 1] = IF i + 1 = 1 THEN s[i + 1] ELSE g[i] \o s[i + 1]
    BY <2>1 DEF Flattens
  <2>3. h[i + 1] = IF i + 1 = 1 THEN t[i + 1] ELSE h[i] \o t[i + 1]
    BY <2>1 DEF Flattens
  <2>4. i + 1 # 1 => g[i] = h[i]
    BY <1>2
  <2> QED BY <2>1, <2>2, <2>3, <2>4
<1>3. \A i \in Nat : i \in S
  <2> HIDE DEF S
  <2> QED BY <1>1, <1>2, SetInduction
<1> QED BY <1>3

\* What is flattened is a sequence over the same set.
LEMMA FlattenType ==
    ASSUME NEW C, NEW s \in Seq(Seq(C))
    PROVE  FlattenSeq(s) \in Seq(C)
<1>1. CASE s = <<>>
  <2>1. FlattenSeq(s) = <<>>
    BY <1>1 DEF FlattenSeq
  <2> QED BY <2>1
<1>2. CASE s # <<>>
  <2>0. Len(s) \in Nat \ {0}
    BY <1>2
  <2>1. PICK g : Flattens(g, s, Len(s)) /\ FlattenSeq(s) = g[Len(s)]
    BY <2>0, FlattenDef
  <2> DEFINE S == {i \in Nat : i \in 1..Len(s) => g[i] \in Seq(C)}
  <2>2. 0 \in S
    OBVIOUS
  <2>3. ASSUME NEW i \in Nat, i \in S PROVE i + 1 \in S
    <3> SUFFICES ASSUME i + 1 \in 1..Len(s) PROVE g[i + 1] \in Seq(C)
      OBVIOUS
    <3>1. s[i + 1] \in Seq(C) /\ (i + 1) - 1 = i
      OBVIOUS
    <3>2. g[i + 1] = IF i + 1 = 1 THEN s[i + 1] ELSE g[i] \o s[i + 1]
      BY <2>1, <3>1 DEF Flattens
    <3>3. i + 1 # 1 => g[i] \in Seq(C)
      BY <2>3
    <3> QED BY <3>1, <3>2, <3>3
  <2>4. \A i \in Nat : i \in S
    <3> HIDE DEF S
    <3> QED BY <2>2, <2>3, SetInduction
  <2> QED BY <2>0, <2>1, <2>4
<1> QED BY <1>1, <1>2

\* FlattenSeq from the left.
LEMMA FlattenAppend ==
    ASSUME NEW C, NEW s \in Seq(Seq(C)), NEW x \in Seq(C)
    PROVE  FlattenSeq(Append(s, x)) = FlattenSeq(s) \o x
<1> DEFINE t == Append(s, x)
           n == Len(s)
<1>1. n \in Nat /\ Len(t) = n + 1 /\ t[n + 1] = x /\ \A i \in 1..n : s[i] = t[i]
  OBVIOUS
<1>2. PICK h : Flattens(h, t, n + 1) /\ FlattenSeq(t) = h[n + 1]
  <2>1. Len(t) \in Nat \ {0}
    BY <1>1
  <2> HIDE DEF t, n
  <2> QED BY <1>1, <2>1, FlattenDef
<1>3. h[n + 1] = IF n + 1 = 1 THEN x ELSE h[n] \o x
  <2>1. n + 1 \in 1..(n + 1) /\ (n + 1) - 1 = n
    BY <1>1
  <2> HIDE DEF t, n
  <2> QED BY <1>1, <1>2, <2>1 DEF Flattens
<1>4. CASE s = <<>>
  <2>1. FlattenSeq(s) = <<>> /\ n = 0
    BY <1>4 DEF FlattenSeq
  <2>2. <<>> \o x = x
    OBVIOUS
  <2> QED BY <1>2, <1>3, <2>1, <2>2
<1>5. CASE s # <<>>
  <2>1. n \in Nat \ {0}
    BY <1>5
  <2>2. PICK g : Flattens(g, s, n) /\ FlattenSeq(s) = g[n]
    BY <2>1, FlattenDef
  <2>3. g[n] = h[n]
    <3>1. n <= n + 1 /\ n + 1 \in Nat /\ n \in 1..n
      BY <2>1
    <3> HIDE DEF t, n
    <3> QED BY <1>1, <1>2, <2>2, <3>1, FlattenUnique
  <2> QED BY <1>2, <1>3, <2>1, <2>2, <2>3
<1> QED BY <1>4, <1>5

\* When a sequence is s followed by t.
LEMMA IsJoin ==
    ASSUME NEW C, NEW s \in Seq(C), NEW t \in Seq(C), NEW u \in Seq(C),
           Len(u) = Len(s) + Len(t), \A i \in 1..Len(s) : u[i] = s[i],
           \A i \in 1..Len(t) : u[Len(s) + i] = t[i]
    PROVE  u = s \o t
<1>1. s \o t \in Seq(C) /\ Len(s \o t) = Len(u)
  OBVIOUS
<1>2. ASSUME NEW i \in 1..Len(u) PROVE u[i] = (s \o t)[i]
  <2>1. CASE i <= Len(s)
    BY <2>1
  <2>2. CASE i > Len(s)
    <3>1. i - Len(s) \in 1..Len(t) /\ Len(s) + (i - Len(s)) = i
      BY <2>2
    <3>2. (s \o t)[i] = t[i - Len(s)]
      BY <2>2, <3>1
    <3>3. u[Len(s) + (i - Len(s))] = t[i - Len(s)]
      BY <3>1
    <3> QED BY <3>1, <3>2, <3>3
  <2> QED BY <2>1, <2>2
<1> QED BY <1>1, <1>2, SeqEqual

\* Joining is associative.
LEMMA JoinAssociative ==
    ASSUME NEW C, NEW a \in Seq(C), NEW b \in Seq(C), NEW c \in Seq(C)
    PROVE  (a \o b) \o c = a \o (b \o c)
<1>1. PICK ab \in Seq(C) :
        /\ ab = a \o b /\ Len(ab) = Len(a) + Len(b)
        /\ \A i \in 1..Len(ab) : ab[i] = IF i <= Len(a) THEN a[i] ELSE b[i - Len(a)]
  <2>1. /\ a \o b \in Seq(C) /\ Len(a \o b) = Len(a) + Len(b)
        /\ \A i \in 1..Len(a \o b) : (a \o b)[i] = IF i <= Len(a) THEN a[i] ELSE b[i - Len(a)]
    OBVIOUS
  <2> QED BY <2>1, Zenon
<1>2. PICK bc \in Seq(C) :
        /\ bc = b \o c /\ Len(bc) = Len(b) + Len(c)
        /\ \A i \in 1..Len(bc) : bc[i] = IF i <= Len(b) THEN b[i] ELSE c[i - Len(b)]
  <2>1. /\ b \o c \in Seq(C) /\ Len(b \o c) = Len(b) + Len(c)
        /\ \A i \in 1..Len(b \o c) : (b \o c)[i] = IF i <= Len(b) THEN b[i] ELSE c[i - Len(b)]
    OBVIOUS
  <2> QED BY <2>1, Zenon
<1>3. PICK u \in Seq(C) :
        /\ u = ab \o c /\ Len(u) = Len(ab) + Len(c)
        /\ \A i \in 1..Len(u) : u[i] = IF i <= Len(ab) THEN ab[i] ELSE c[i - Len(ab)]
  <2>1. /\ ab \o c \in Seq(C) /\ Len(ab \o c) = Len(ab) + Len(c)
        /\ \A i \in 1..Len(ab \o c) : (ab \o c)[i] = IF i <= Len(ab) THEN ab[i] ELSE c[i - Len(ab)]
    OBVIOUS
  <2> QED BY <2>1, Zenon
<1>4. Len(a) \in Nat /\ Len(b) \in Nat /\ Len(c) \in Nat
  OBVIOUS
<1>5. Len(u) = Len(a) + Len(bc)
  BY <1>1, <1>2, <1>3, <1>4
<1>6. \A i \in 1..Len(a) : u[i] = a[i]
  <2> SUFFICES ASSUME NEW i \in 1..Len(a) PROVE u[i] = a[i]
    OBVIOUS
  <2>1. i \in 1..Len(ab) /\ i \in 1..Len(u) /\ i <= Len(a) /\ i <= Len(ab)
    BY <1>1, <1>3, <1>4
  <2> QED BY <1>1, <1>3, <2>1
<1>7. \A i \in 1..Len(bc) : u[Len(a) + i] = bc[i]
  <2> SUFFICES ASSUME NEW i \in 1..Len(bc) PROVE u[Len(a) + i] = bc[i]
    OBVIOUS
  <2>1. Len(a) + i \in 1..Len(u) /\ (Len(a) + i) - Len(a) = i /\ ~(Len(a) + i <= Len(a))
    BY <1>2, <1>4, <1>5
  <2>2. CASE i <= Len(b)
    <3>1. Len(a) + i \in 1..Len(ab) /\ Len(a) + i <= Len(ab)
      BY <1>1, <1>2, <1>4, <2>2
    <3>2. u[Len(a) + i] = ab[Len(a) + i]
      BY <1>3, <2>1, <3>1
    <3>3. ab[Len(a) + i] = b[i]
      BY <1>1, <2>1, <3>1
    <3> QED BY <1>2, <2>2, <3>2, <3>3
  <2>3. CASE i > Len(b)
    <3>1. ~(Len(a) + i <= Len(ab)) /\ (Len(a) + i) - Len(ab) = i - Len(b) /\ ~(i <= Len(b))
      BY <1>1, <1>2, <1>4, <2>3
    <3>2. u[Len(a) + i] = c[(Len(a) + i) - Len(ab)]
      BY <1>3, <2>1, <3>1
    <3> QED BY <1>2, <3>1, <3>2
  <2> QED BY <1>2, <1>4, <2>2, <2>3
<1>8. u = a \o bc
  BY <1>5, <1>6, <1>7, IsJoin
<1> QED BY <1>1, <1>2, <1>3, <1>8

\* Appending to the second part.
LEMMA JoinAppend ==
    ASSUME NEW C, NEW s \in Seq(C), NEW v \in Seq(C), NEW x \in C
    PROVE  s \o v \in Seq(C) /\ s \o Append(v, x) = Append(s \o v, x)
<1>1. PICK y \in Seq(C) : y = <<x>>
  <2>1. <<x>> \in Seq(C)
    OBVIOUS
  <2> QED BY <2>1, Zenon
<1>2. PICK u \in Seq(C) : u = s \o v
  <2>1. s \o v \in Seq(C)
    OBVIOUS
  <2> QED BY <2>1, Zenon
<1>3. Append(u, x) = u \o y /\ Append(v, x) = v \o y
  BY <1>1, AppendIsConcat
<1>4. (s \o v) \o y = s \o (v \o y)
  BY JoinAssociative, SMTT(100)
<1>5. s \o v \in Seq(C)
  BY <1>2
<1> QED BY <1>2, <1>3, <1>4, <1>5

\* FlattenSeq of two parts.
LEMMA FlattenConcat ==
    ASSUME NEW C, NEW s \in Seq(Seq(C)), NEW t \in Seq(Seq(C))
    PROVE  FlattenSeq(s \o t) = FlattenSeq(s) \o FlattenSeq(t)
<1> DEFINE S == {n \in Nat : \A u \in Seq(Seq(C)) : Len(u) = n =>
                    FlattenSeq(s \o u) = FlattenSeq(s) \o FlattenSeq(u)}
<1>1. 0 \in S
  <2> SUFFICES ASSUME NEW u \in Seq(Seq(C)), Len(u) = 0
               PROVE  FlattenSeq(s \o u) = FlattenSeq(s) \o FlattenSeq(u)
    OBVIOUS
  <2>1. u = <<>> /\ s \o u = s
    OBVIOUS
  <2>2. FlattenSeq(u) = <<>>
    BY <2>1 DEF FlattenSeq
  <2>3. FlattenSeq(s) \o <<>> = FlattenSeq(s)
    BY FlattenType
  <2> QED BY <2>1, <2>2, <2>3
<1>2. ASSUME NEW n \in Nat, n \in S PROVE n + 1 \in S
  <2> SUFFICES ASSUME NEW u \in Seq(Seq(C)), Len(u) = n + 1
               PROVE  FlattenSeq(s \o u) = FlattenSeq(s) \o FlattenSeq(u)
    OBVIOUS
  <2>0. u # <<>>
    OBVIOUS
  <2>1. PICK v \in Seq(Seq(C)), x \in Seq(C) : u = Append(v, x)
    BY <2>0, SequenceEmptyOrAppend
  <2>2. Len(v) = n
    BY <2>1
  <2>3. FlattenSeq(s \o v) = FlattenSeq(s) \o FlattenSeq(v)
    BY <1>2, <2>2
  <2>4. s \o u = Append(s \o v, x) /\ s \o v \in Seq(Seq(C))
    BY <2>1, JoinAppend, SMTT(60)
  <2>5. FlattenSeq(s \o u) = FlattenSeq(s \o v) \o x
    BY <2>4, FlattenAppend
  <2>6. FlattenSeq(u) = FlattenSeq(v) \o x
    BY <2>1, FlattenAppend
  <2>7. (FlattenSeq(s) \o FlattenSeq(v)) \o x = FlattenSeq(s) \o (FlattenSeq(v) \o x)
    <3>1. PICK a \in Seq(C), b \in Seq(C) : a = FlattenSeq(s) /\ b = FlattenSeq(v)
      BY FlattenType
    <3>2. (a \o b) \o x = a \o (b \o x)
      BY JoinAssociative, SMTT(100)
    <3> QED BY <3>1, <3>2
  <2> QED BY <2>3, <2>5, <2>6, <2>7
<1>3. \A n \in Nat : n \in S
  <2> HIDE DEF S
  <2> QED BY <1>1, <1>2, SetInduction
<1>4. Len(t) \in Nat
  OBVIOUS
<1> QED BY <1>3, <1>4

\* Behind the first i parts, joined, comes the next one.
LEMMA FlattenNext ==
    ASSUME NEW C, NEW s \in Seq(Seq(C)), NEW i \in Nat, i < Len(s), Len(s[i + 1]) > 0
    PROVE  /\ Len(FlattenSeq(SubSeq(s, 1, i))) \in Nat
           /\ Len(FlattenSeq(s)) > Len(FlattenSeq(SubSeq(s, 1, i)))
           /\ FlattenSeq(s)[Len(FlattenSeq(SubSeq(s, 1, i))) + 1] = s[i + 1][1]
<1>1. PICK a \in Seq(Seq(C)) : a = SubSeq(s, 1, i)
  <2>1. SubSeq(s, 1, i) \in Seq(Seq(C))
    OBVIOUS
  <2> QED BY <2>1, Zenon
<1>2. PICK b \in Seq(Seq(C)) : b = SubSeq(s, i + 2, Len(s))
  <2>1. SubSeq(s, i + 2, Len(s)) \in Seq(Seq(C))
    OBVIOUS
  <2> QED BY <2>1, Zenon
<1>3. PICK x \in Seq(C) : x = s[i + 1]
  <2>1. s[i + 1] \in Seq(C)
    OBVIOUS
  <2> QED BY <2>1, Zenon
<1>4. s = Append(a, x) \o b
  <2>1. /\ Len(a) = i /\ \A j \in 1..i : a[j] = s[j]
    BY <1>1
  <2>2. PICK m \in Nat : m = Len(s) /\ i + 1 <= m
    OBVIOUS
  <2>3. /\ Len(b) = m - (i + 1) /\ \A j \in 1..(m - (i + 1)) : b[j] = s[j + (i + 1)]
    BY <1>2, <2>2
  <2>4. PICK w \in Seq(Seq(C)) : w = Append(a, x)
    <3>1. Append(a, x) \in Seq(Seq(C))
      OBVIOUS
    <3> QED BY <3>1, Zenon
  <2>5. /\ Len(w) = i + 1 /\ w[i + 1] = x /\ \A j \in 1..i : w[j] = a[j]
    BY <2>1, <2>4
  <2>6. \A j \in 1..(i + 1) : w[j] = s[j]
    BY <1>3, <2>1, <2>5
  <2>7. PICK u \in Seq(Seq(C)) : u = w \o b
    <3>1. w \o b \in Seq(Seq(C))
      OBVIOUS
    <3> QED BY <3>1, Zenon
  <2>8. /\ Len(u) = m /\ \A j \in 1..(i + 1) : u[j] = w[j]
        /\ \A j \in (i + 2)..m : u[j] = b[j - (i + 1)]
    <3>1. /\ Len(u) = Len(w) + Len(b)
          /\ \A j \in 1..Len(w) : u[j] = w[j]
          /\ \A j \in (Len(w) + 1)..(Len(w) + Len(b)) : u[j] = b[j - Len(w)]
      BY <2>7
    <3>2. Len(w) + 1 = i + 2 /\ Len(w) + Len(b) = m
      BY <2>2, <2>3, <2>5
    <3>3. Len(w) = i + 1
      BY <2>5
    <3> QED BY <3>1, <3>2, <3>3
  <2>9. \A j \in (i + 2)..m : j - (i + 1) \in 1..(m - (i + 1)) /\ (j - (i + 1)) + (i + 1) = j
    BY <2>2
  <2>10. \A j \in 1..m : u[j] = s[j]
    <3>1. ASSUME NEW j \in 1..m PROVE u[j] = s[j]
      <4>1. CASE j \in 1..(i + 1)
        BY <2>6, <2>8, <4>1
      <4>2. CASE j \in (i + 2)..m
        BY <2>3, <2>8, <2>9, <4>2
      <4> QED BY <2>2, <4>1, <4>2
    <3> QED BY <3>1
  <2>11. u = s
    BY <2>2, <2>8, <2>10, SeqEqual
  <2> QED BY <2>4, <2>7, <2>11
<1>5. PICK p \in Seq(C) : p = FlattenSeq(a)
  <2>1. FlattenSeq(a) \in Seq(C)
    BY FlattenType
  <2> QED BY <2>1, Zenon
<1>6. PICK q \in Seq(C) : q = FlattenSeq(b)
  <2>1. FlattenSeq(b) \in Seq(C)
    BY FlattenType
  <2> QED BY <2>1, Zenon
<1>7. FlattenSeq(Append(a, x)) = p \o x
  BY <1>5, FlattenAppend
<1>8. Append(a, x) \in Seq(Seq(C))
  OBVIOUS
<1>9. FlattenSeq(s) = (p \o x) \o q
  <2>1. FlattenSeq(Append(a, x) \o b) = FlattenSeq(Append(a, x)) \o FlattenSeq(b)
    BY <1>8, FlattenConcat
  <2> QED BY <1>4, <1>6, <1>7, <2>1
<1>10. Len(x) > 0
  BY <1>3
<1>11. /\ Len(p) \in Nat /\ Len((p \o x) \o q) > Len(p)
       /\ ((p \o x) \o q)[Len(p) + 1] = x[1]
  BY <1>10
<1> QED BY <1>1, <1>3, <1>5, <1>9, <1>11

\* If a part can be told from its first element, the parts can be told from their
\* join.
LEMMA FlattenDecodes ==
    ASSUME NEW C, NEW s \in Seq(Seq(C)), NEW t \in Seq(Seq(C)), FlattenSeq(s) = FlattenSeq(t),
           \A i \in DOMAIN s : Len(s[i]) > 0, \A j \in DOMAIN t : Len(t[j]) > 0,
           \A i \in DOMAIN s, j \in DOMAIN t : s[i][1] = t[j][1] => s[i] = t[j]
    PROVE  s = t
<1> DEFINE m == Len(s)
           n == Len(t)
           S == {k \in Nat : k <= m /\ k <= n => \A i \in 1..k : s[i] = t[i]}
<1>0. m \in Nat /\ n \in Nat /\ DOMAIN s = 1..m /\ DOMAIN t = 1..n
  OBVIOUS
<1> HIDE DEF m, n
<1>1. \A k \in Nat : k <= m /\ k <= n /\ (\A i \in 1..k : s[i] = t[i]) => SubSeq(s, 1, k) = SubSeq(t, 1, k)
  <2> SUFFICES ASSUME NEW k \in Nat, k <= m, k <= n, \A i \in 1..k : s[i] = t[i]
               PROVE  SubSeq(s, 1, k) = SubSeq(t, 1, k)
    OBVIOUS
  <2>1. SubSeq(s, 1, k) = [i \in 1..k |-> s[i]] /\ SubSeq(t, 1, k) = [i \in 1..k |-> t[i]]
    BY <1>0 DEF m, n
  <2> QED BY <2>1
<1>2. 0 \in S
  OBVIOUS
<1>3. ASSUME NEW k \in Nat, k \in S PROVE k + 1 \in S
  <2> SUFFICES ASSUME k + 1 <= m, k + 1 <= n PROVE \A i \in 1..(k + 1) : s[i] = t[i]
    OBVIOUS
  <2>1. \A i \in 1..k : s[i] = t[i]
    BY <1>0, <1>3
  <2>2. SubSeq(s, 1, k) = SubSeq(t, 1, k)
    BY <1>0, <1>1, <2>1
  <2>3. k + 1 \in DOMAIN s /\ k + 1 \in DOMAIN t /\ k < Len(s) /\ k < Len(t)
    BY <1>0 DEF m, n
  <2>4. s[k + 1][1] = FlattenSeq(s)[Len(FlattenSeq(SubSeq(s, 1, k))) + 1]
    BY <2>3, FlattenNext
  <2>5. t[k + 1][1] = FlattenSeq(t)[Len(FlattenSeq(SubSeq(t, 1, k))) + 1]
    BY <2>3, FlattenNext
  <2>6. s[k + 1] = t[k + 1]
    BY <2>2, <2>3, <2>4, <2>5
  <2>7. \A i \in 1..(k + 1) : i \in 1..k \/ i = k + 1
    OBVIOUS
  <2> QED BY <2>1, <2>6, <2>7
<1>4. \A k \in Nat : k \in S
  <2> HIDE DEF S
  <2> QED BY <1>2, <1>3, SetInduction
<1>9. \A k \in Nat : k <= m /\ k <= n => \A i \in 1..k : s[i] = t[i]
  BY <1>4
<1>10. \A k \in Nat : k <= m /\ k <= n => SubSeq(s, 1, k) = SubSeq(t, 1, k)
  BY <1>1, <1>9
<1> HIDE DEF S
<1>5. ASSUME m < n PROVE FALSE
  <2>1. SubSeq(s, 1, m) = SubSeq(t, 1, m)
    <3>1. m \in Nat /\ m <= m /\ m <= n
      BY <1>0, <1>5
    <3> QED BY <1>10, <3>1, Zenon
  <2>2. SubSeq(s, 1, m) = s
    BY <1>0, SubSeqFull DEF m
  <2>3. m + 1 \in DOMAIN t /\ m < Len(t)
    BY <1>0, <1>5 DEF n
  <2>4. Len(t[m + 1]) > 0
    BY <2>3
  <2>5. Len(FlattenSeq(SubSeq(t, 1, m))) \in Nat /\ Len(FlattenSeq(t)) > Len(FlattenSeq(SubSeq(t, 1, m)))
    BY <1>0, <2>3, <2>4, FlattenNext
  <2>6. SubSeq(t, 1, m) = s
    BY <2>1, <2>2, Zenon
  <2>7. FlattenSeq(SubSeq(t, 1, m)) = FlattenSeq(t)
    BY <2>6, Zenon
  <2> QED BY <2>5, <2>7
<1>6. ASSUME n < m PROVE FALSE
  <2>1. SubSeq(s, 1, n) = SubSeq(t, 1, n)
    <3>1. n \in Nat /\ n <= m /\ n <= n
      BY <1>0, <1>6
    <3> QED BY <1>10, <3>1, Zenon
  <2>2. SubSeq(t, 1, n) = t
    BY <1>0, SubSeqFull DEF n
  <2>3. n + 1 \in DOMAIN s /\ n < Len(s)
    BY <1>0, <1>6 DEF m
  <2>4. Len(s[n + 1]) > 0
    BY <2>3
  <2>5. Len(FlattenSeq(SubSeq(s, 1, n))) \in Nat /\ Len(FlattenSeq(s)) > Len(FlattenSeq(SubSeq(s, 1, n)))
    BY <1>0, <2>3, <2>4, FlattenNext
  <2>6. SubSeq(s, 1, n) = t
    BY <2>1, <2>2, Zenon
  <2>7. FlattenSeq(SubSeq(s, 1, n)) = FlattenSeq(s)
    BY <2>6, Zenon
  <2> QED BY <2>5, <2>7
<1>7. m = n
  BY <1>0, <1>5, <1>6
<1>8. \A i \in 1..m : s[i] = t[i]
  <2>1. m \in Nat /\ m <= m /\ m <= n
    BY <1>0, <1>7
  <2> QED BY <1>9, <2>1, Zenon
<1> QED BY <1>0, <1>7, <1>8 DEF m, n

-----------------------------------------------------------------------------
(* Text *)

\* One byte of a character, which takes up to four.
Bytes == [ch : Chars, j : 1..4]

\* The bytes of one character.
Encoded(c) == [j \in 1..c.w |-> [ch |-> c, j |-> j]]

\* The bytes of a text are bytes of its characters.
LEMMA BytesType ==
    ASSUME NEW t \in Seq(Chars)
    PROVE  /\ [k \in DOMAIN t |-> Encoded(t[k])] \in Seq(Seq(Bytes))
           /\ BytesOf(t) \in Seq(Bytes)
           /\ BytesOf(t) = FlattenSeq([k \in DOMAIN t |-> Encoded(t[k])])
<1> DEFINE m == [k \in DOMAIN t |-> Encoded(t[k])]
<1>1. ASSUME NEW c \in Chars PROVE Encoded(c) \in Seq(Bytes)
  <2>1. c.w \in 1..4 
    BY EntryAssumption
  <2>2. \A j \in 1..c.w : [ch |-> c, j |-> j] \in Bytes
    BY <2>1 DEF Bytes
  <2>3. c.w \in Nat /\ Encoded(c) \in [1..c.w -> Bytes]
    BY <2>1, <2>2 DEF Encoded
  <2> QED BY <2>3, SeqDef
<1>2. m \in [1..Len(t) -> Seq(Bytes)] /\ Len(t) \in Nat
  BY <1>1
<1>3. m \in Seq(Seq(Bytes))
  BY <1>2, SeqDef
<1>4. BytesOf(t) = FlattenSeq(m)
  BY DEF BytesOf, Encoded
<1> HIDE DEF m
<1>5. FlattenSeq(m) \in Seq(Bytes)
  BY <1>3, FlattenType
<1> QED BY <1>3, <1>4, <1>5 DEF m

\* The bytes of a text in two parts.
LEMMA BytesConcat ==
    ASSUME NEW s \in Seq(Chars), NEW t \in Seq(Chars)
    PROVE  BytesOf(s \o t) = BytesOf(s) \o BytesOf(t)
<1> DEFINE M(u) == [k \in DOMAIN u |-> Encoded(u[k])]
<1>1. s \o t \in Seq(Chars)
  OBVIOUS
<1>2. M(s) \in Seq(Seq(Bytes)) /\ M(t) \in Seq(Seq(Bytes)) /\ M(s \o t) \in Seq(Seq(Bytes))
  BY <1>1, BytesType
<1>3. M(s \o t) = M(s) \o M(t)
  <2>1. Len(s \o t) = Len(s) + Len(t) /\ Len(s) \in Nat /\ Len(t) \in Nat
    OBVIOUS
  <2>2. DOMAIN M(s \o t) = 1..(Len(s) + Len(t)) /\ DOMAIN M(s) = 1..Len(s) /\ DOMAIN M(t) = 1..Len(t)
    BY <1>1, <2>1
  <2>3. Len(M(s \o t)) = Len(s) + Len(t) /\ Len(M(s)) = Len(s) /\ Len(M(t)) = Len(t)
    <3>1. \A u \in Seq(Seq(Bytes)) : \A n \in Nat : DOMAIN u = 1..n => Len(u) = n
      OBVIOUS
    <3>2. Len(s) + Len(t) \in Nat
      BY <2>1
    <3> HIDE DEF M
    <3> QED BY <1>2, <2>1, <2>2, <3>1, <3>2
  <2>4. \A i \in 1..Len(s) : M(s \o t)[i] = M(s)[i]
    <3>1. \A i \in 1..Len(s) : i \in DOMAIN s /\ i \in DOMAIN (s \o t) /\ (s \o t)[i] = s[i]
      BY <1>1, <2>1
    <3> QED BY <3>1
  <2>5. \A i \in 1..Len(t) : M(s \o t)[Len(s) + i] = M(t)[i]
    <3>1. \A i \in 1..Len(t) : i \in DOMAIN t /\ Len(s) + i \in DOMAIN (s \o t) /\ (s \o t)[Len(s) + i] = t[i]
      BY <1>1, <2>1
    <3> QED BY <3>1
  <2> DEFINE a == M(s)
             b == M(t)
             c == M(s \o t)
  <2>6. /\ a \in Seq(Seq(Bytes)) /\ b \in Seq(Seq(Bytes)) /\ c \in Seq(Seq(Bytes))
        /\ Len(c) = Len(a) + Len(b)
        /\ \A i \in 1..Len(a) : c[i] = a[i]
        /\ \A i \in 1..Len(b) : c[Len(a) + i] = b[i]
    <3> HIDE DEF M
    <3> QED BY <1>2, <2>3, <2>4, <2>5
  <2>7. c = a \o b
    <3> HIDE DEF M, a, b, c
    <3> QED BY <2>6, IsJoin
  <2> QED BY <2>7
<1>4. FlattenSeq(M(s) \o M(t)) = FlattenSeq(M(s)) \o FlattenSeq(M(t))
  <2> HIDE DEF M
  <2> QED BY <1>2, FlattenConcat
<1> QED BY <1>1, <1>3, <1>4, BytesType

\* What a cut to n bytes leaves.
LEMMA ClipType ==
    ASSUME NEW B, NEW c \in Seq(B), NEW n \in Nat
    PROVE  /\ Clip(c, n) \in Seq(B)
           /\ Len(Clip(c, n)) = IF Len(c) < n THEN Len(c) ELSE n
           /\ \A i \in 1..Len(Clip(c, n)) : Clip(c, n)[i] = c[i]
<1> DEFINE l == IF Len(c) < n THEN Len(c) ELSE n
<1>1. l \in Nat /\ l <= Len(c)
  OBVIOUS
<1>2. \A i \in 1..l : c[i] \in B
  BY <1>1
<1> HIDE DEF l
<1>3. /\ SubSeq(c, 1, l) \in Seq(B) /\ Len(SubSeq(c, 1, l)) = l
      /\ \A i \in 1..l : SubSeq(c, 1, l)[i] = c[i]
  BY <1>1, <1>2
<1> QED BY <1>1, <1>3 DEF Clip, l

\* u is s followed by t.
Joins(s, t, u) == u = s \o t

\* Cutting to n bytes, piece by piece, is cutting the whole.
LEMMA ClipConcat ==
    ASSUME NEW a \in Seq(Bytes), NEW b \in Seq(Bytes), NEW n \in Nat,
           NEW w \in Seq(Bytes), Joins(a, b, w), NEW x \in Seq(Bytes), x = Clip(a, n),
           NEW m \in Nat, m = n - Len(x), NEW y \in Seq(Bytes), y = Clip(b, m)
    PROVE  Joins(x, y, Clip(w, n))
<1>2. /\ Len(x) = (IF Len(a) < n THEN Len(a) ELSE n)
      /\ \A i \in 1..Len(x) : x[i] = a[i]
  BY ClipType
<1>3. m = n - Len(x)
  OBVIOUS
<1>4. /\ Len(y) = (IF Len(b) < m THEN Len(b) ELSE m)
      /\ \A i \in 1..Len(y) : y[i] = b[i]
  BY ClipType
<1>5. /\ Len(w) = Len(a) + Len(b)
      /\ \A i \in 1..Len(w) : w[i] = IF i <= Len(a) THEN a[i] ELSE b[i - Len(a)]
  BY DEF Joins
<1>6. PICK v \in Seq(Bytes) :
        /\ v = Clip(w, n) /\ Len(v) = (IF Len(w) < n THEN Len(w) ELSE n)
        /\ \A i \in 1..Len(v) : v[i] = w[i]
  <2>1. /\ Clip(w, n) \in Seq(Bytes) /\ Len(Clip(w, n)) = (IF Len(w) < n THEN Len(w) ELSE n)
        /\ \A i \in 1..Len(Clip(w, n)) : Clip(w, n)[i] = w[i]
    BY ClipType
  <2> QED BY <2>1, Zenon
<1> DEFINE la == Len(a)
           lb == Len(b)
           lx == Len(x)
           ly == Len(y)
           lv == Len(v)
<1>12. la \in Nat /\ lb \in Nat /\ lx \in Nat /\ ly \in Nat /\ lv \in Nat
  OBVIOUS
<1>13. /\ lx = (IF la < n THEN la ELSE n) /\ m = n - lx
       /\ ly = (IF lb < m THEN lb ELSE m)
       /\ lv = (IF la + lb < n THEN la + lb ELSE n)
  BY <1>2, <1>3, <1>4, <1>5, <1>6
<1>7. lv = lx + ly
  <2> HIDE DEF la, lb, lx, ly, lv
  <2> QED BY <1>12, <1>13
<1>8. \A i \in 1..Len(x) : v[i] = x[i]
  <2> SUFFICES ASSUME NEW i \in 1..Len(x) PROVE v[i] = x[i]
    OBVIOUS
  <2>0. i \in 1..lx
    OBVIOUS
  <2>2. i \in 1..lv /\ i \in 1..(la + lb) /\ i <= la
    <3> HIDE DEF la, lb, lx, ly, lv
    <3> QED BY <1>7, <1>12, <1>13, <2>0
  <2>1. i \in 1..Len(v) /\ i \in 1..Len(w) /\ i <= Len(a)
    BY <1>5, <2>2
  <2> QED BY <1>2, <1>5, <1>6, <2>1
<1>9. \A i \in 1..Len(y) : v[Len(x) + i] = y[i]
  <2> SUFFICES ASSUME NEW i \in 1..Len(y) PROVE v[Len(x) + i] = y[i]
    OBVIOUS
  <2>0. i \in 1..ly
    OBVIOUS
  <2>4. lx = la /\ i <= lb /\ la + i \in 1..lv /\ la + i \in 1..(la + lb) /\ ~(la + i <= la) /\ (la + i) - la = i
    <3> HIDE DEF la, lb, lx, ly, lv
    <3> QED BY <1>7, <1>12, <1>13, <2>0
  <2>1. /\ Len(x) = Len(a) /\ i <= Len(b) /\ Len(a) + i \in 1..Len(v) /\ Len(a) + i \in 1..Len(w)
        /\ ~(Len(a) + i <= Len(a)) /\ (Len(a) + i) - Len(a) = i
    BY <1>5, <2>4
  <2>2. v[Len(a) + i] = w[Len(a) + i]
    BY <1>6, <2>1
  <2>3. w[Len(a) + i] = b[i]
    BY <1>5, <2>1
  <2> QED BY <1>4, <2>1, <2>2, <2>3
<1>10. v = x \o y
  BY <1>7, <1>8, <1>9, IsJoin, ZenonT(60)
<1> QED BY <1>6, <1>10 DEF Joins

-----------------------------------------------------------------------------
(* The message buffer *)

\* What the buffer holds of a message that was written in pieces.
Cut(pieces) == Clip(BytesOf(FlattenSeq(pieces)), BufLen - 1)

\* Nothing is left of no pieces.
LEMMA CutEmpty == Cut(<<>>) = <<>>
<1>1. FlattenSeq(<<>>) = <<>>
  BY DEF FlattenSeq
<1> DEFINE m == [k \in DOMAIN <<>> |-> Encoded(<<>>[k])]
<1>2. <<>> \in Seq(Chars)
  OBVIOUS
<1>3. m \in Seq(Seq(Bytes)) /\ BytesOf(<<>>) = FlattenSeq(m)
  BY <1>2, BytesType
<1>4. DOMAIN m = {}
  OBVIOUS
<1>5. m = <<>>
  <2> HIDE DEF m
  <2>1. Len(m) \in Nat /\ DOMAIN m = 1..Len(m)
    BY <1>3
  <2>2. Len(m) = 0
    BY <1>4, <2>1
  <2> QED BY <1>3, <2>2
<1>6. BytesOf(<<>>) = <<>>
  BY <1>1, <1>3, <1>5
<1>7. BufLen - 1 \in Nat
  BY EntryAssumption
<1>8. Clip(<<>>, BufLen - 1) = <<>>
  <2>1. \A n \in Nat : Clip(<<>>, n) = <<>>
    BY DEF Clip
  <2> QED BY <1>7, <2>1
<1> QED BY <1>1, <1>6, <1>8 DEF Cut

\* Writing the next piece to the buffer is cutting one piece more.
LEMMA CutStep ==
    ASSUME NEW p \in Seq(Seq(Chars)), NEW k \in 1..Len(p)
    PROVE  /\ Len(Cut(SubSeq(p, 1, k - 1))) <= BufLen - 1
           /\ Cut(SubSeq(p, 1, k - 1))
                \o Clip(BytesOf(p[k]), (BufLen - 1) - Len(Cut(SubSeq(p, 1, k - 1))))
              = Cut(SubSeq(p, 1, k))
<1>1. PICK q \in Seq(Seq(Chars)) : q = SubSeq(p, 1, k - 1)
  <2>1. SubSeq(p, 1, k - 1) \in Seq(Seq(Chars))
    OBVIOUS
  <2> QED BY <2>1, Zenon
<1>2. PICK x \in Seq(Chars) : x = p[k]
  <2>1. p[k] \in Seq(Chars)
    OBVIOUS
  <2> QED BY <2>1, Zenon
<1>3. SubSeq(p, 1, k) = Append(q, x)
  <2>1. k \in 1..Len(p) /\ 1 \in 1..Len(p) /\ k \in 1..Len(p)
    OBVIOUS
  <2>2. SubSeq(p, 1, k) \in Seq(Seq(Chars)) /\ Len(SubSeq(p, 1, k)) = k
        /\ \A i \in 1..k : SubSeq(p, 1, k)[i] = p[i]
    OBVIOUS
  <2>3. Len(q) = k - 1 /\ \A i \in 1..(k - 1) : q[i] = p[i]
    BY <1>1
  <2>4. Append(q, x) \in Seq(Seq(Chars)) /\ Len(Append(q, x)) = k
        /\ \A i \in 1..k : Append(q, x)[i] = p[i]
    BY <1>2, <2>3
  <2> QED BY <2>2, <2>4, SeqEqual
<1>4. FlattenSeq(Append(q, x)) = FlattenSeq(q) \o x
  BY FlattenAppend
<1>5. PICK f \in Seq(Chars) : f = FlattenSeq(q)
  <2>1. FlattenSeq(q) \in Seq(Chars)
    BY FlattenType
  <2> QED BY <2>1, Zenon
<1>6. BytesOf(f \o x) = BytesOf(f) \o BytesOf(x)
  BY BytesConcat
<1>7. PICK a \in Seq(Bytes), b \in Seq(Bytes) : a = BytesOf(f) /\ b = BytesOf(x)
  <2>1. BytesOf(f) \in Seq(Bytes) /\ BytesOf(x) \in Seq(Bytes)
    BY BytesType
  <2> QED BY <2>1, Zenon
<1>8. PICK n \in Nat : n = BufLen - 1
  <2>1. BufLen - 1 \in Nat
    BY EntryAssumption
  <2> QED BY <2>1, Zenon
<1>9. PICK u \in Seq(Bytes) : u = Clip(a, n) /\ Len(u) <= n
  <2>1. Clip(a, n) \in Seq(Bytes) /\ Len(Clip(a, n)) <= n
    BY ClipType
  <2> QED BY <2>1, Zenon
<1>12. PICK m \in Nat : m = n - Len(u)
  <2>1. n - Len(u) \in Nat
    BY <1>9
  <2> QED BY <2>1, Zenon
<1>13. PICK v \in Seq(Bytes) : v = Clip(b, m)
  <2>1. Clip(b, m) \in Seq(Bytes)
    BY ClipType
  <2> QED BY <2>1, Zenon
<1>14. PICK w \in Seq(Bytes) : w = a \o b
  <2>1. a \o b \in Seq(Bytes)
    OBVIOUS
  <2> QED BY <2>1, Zenon
<1>15. u \o v = Clip(w, n)
  <2>1. Joins(a, b, w)
    BY <1>14 DEF Joins
  <2>2. Joins(u, v, Clip(w, n))
    BY <1>9, <1>12, <1>13, <2>1, ClipConcat
  <2> QED BY <2>2 DEF Joins
<1>10. Cut(q) = u
  BY <1>5, <1>7, <1>8, <1>9 DEF Cut
<1>11. Cut(SubSeq(p, 1, k)) = Clip(w, n)
  BY <1>3, <1>4, <1>5, <1>6, <1>7, <1>8, <1>14 DEF Cut
<1> QED BY <1>1, <1>2, <1>7, <1>8, <1>9, <1>10, <1>11, <1>12, <1>13, <1>15

\* The terminator has its byte, and all the pieces are the message.
LEMMA CutAll ==
    ASSUME NEW p \in Seq(Seq(Chars))
    PROVE  Len(Cut(p)) <= BufLen - 1 /\ Cut(SubSeq(p, 1, Len(p))) = Cut(p)
<1>1. PICK f \in Seq(Chars) : f = FlattenSeq(p)
  <2>1. FlattenSeq(p) \in Seq(Chars)
    BY FlattenType
  <2> QED BY <2>1, Zenon
<1>2. PICK a \in Seq(Bytes) : a = BytesOf(f)
  <2>1. BytesOf(f) \in Seq(Bytes)
    BY BytesType
  <2> QED BY <2>1, Zenon
<1>3. PICK n \in Nat : n = BufLen - 1
  <2>1. BufLen - 1 \in Nat
    BY EntryAssumption
  <2> QED BY <2>1, Zenon
<1>4. Len(Clip(a, n)) <= n
  BY ClipType
<1>5. SubSeq(p, 1, Len(p)) = p
  BY SubSeqFull
<1> QED BY <1>1, <1>2, <1>3, <1>4, <1>5 DEF Cut

-----------------------------------------------------------------------------
(* Logging: the inductive invariant *)

\* The message being logged: the buffer holds what fits of the pieces so far,
\* and a message that ends the module says why.
MsgInv ==
    /\ msg \in [level : Levels \union {"Panic"}, name : {msg.name}, pieces : Seq(Seq(Chars)),
                k : Nat \ {0}, back : {"main", "done", "aborted"}]
    /\ msg.k <= Len(msg.pieces) + 1
    /\ buf = Cut(SubSeq(msg.pieces, 1, msg.k - 1))
    /\ msg.back = "done" => /\ result \in Results /\ result.leaf = "err"
                            /\ msg.level = "Error" /\ msg.pieces = result.pieces
    /\ msg.back = "aborted" => msg.level = "Panic"

\* The line buffer is empty between messages, and every line on the sink is what
\* was cut from the message it was given.
LogInv ==
    /\ epc \in {"main", "write", "convert", "done", "aborted"}
    /\ logger \in {"none", "px4", "other"}
    /\ ret \in Int
    /\ epc = "convert" => result \in Results
    /\ epc = "write" => MsgInv
    /\ epc # "write" => buf = <<>>
    /\ \E S : sink \in Seq(S)
    /\ \A k \in DOMAIN sink : sink[k].text = Shown(Cut(sink[k].pieces))
    /\ ErrorsAreLogged

\* Every message begins with an empty buffer.
LEMMA BeginInv ==
    ASSUME LogInv, NEW level \in Levels \union {"Panic"}, NEW name, NEW pieces \in Seq(Seq(Chars)),
           NEW back \in {"main", "done", "aborted"}, LogBegin(level, name, pieces, back),
           back = "done" => result \in Results /\ result.leaf = "err" /\ level = "Error" /\ pieces = result.pieces,
           back = "aborted" => level = "Panic",
           UNCHANGED <<host, logger, sink, result, ret>>
    PROVE  LogInv'
<1> DEFINE m == [level |-> level, name |-> name, pieces |-> pieces, k |-> 1, back |-> back]
<1>1. msg' = m /\ buf' = <<>> /\ epc' = "write"
  BY DEF LogBegin
<1>2. m \in [level : Levels \union {"Panic"}, name : {m.name}, pieces : Seq(Seq(Chars)),
             k : Nat \ {0}, back : {"main", "done", "aborted"}]
  OBVIOUS
<1>3. SubSeq(pieces, 1, 0) = <<>>
  OBVIOUS
<1>4. MsgInv'
  <2>1. m.level = level /\ m.pieces = pieces /\ m.k = 1 /\ m.back = back /\ m.k - 1 = 0
    OBVIOUS
  <2>2. 1 <= Len(pieces) + 1
    OBVIOUS
  <2> HIDE DEF m
  <2> QED BY <1>1, <1>2, <1>3, <2>1, <2>2, CutEmpty DEF MsgInv
<1>5. (\A k \in DOMAIN sink : sink[k].text = Shown(Cut(sink[k].pieces)))'
  BY DEF LogInv, Shown
<1>6. ErrorsAreLogged'
  BY <1>1 DEF ErrorsAreLogged
<1>7. /\ epc' \in {"main", "write", "convert", "done", "aborted"} /\ epc' # "convert"
      /\ logger' \in {"none", "px4", "other"} /\ ret' \in Int /\ (\E S : sink \in Seq(S))'
  BY <1>1 DEF LogInv
<1> QED BY <1>1, <1>4, <1>5, <1>6, <1>7 DEF LogInv

\* A piece is written, or cut.
LEMMA WriteInv ==
    ASSUME LogInv, WriteStr
    PROVE  LogInv'
<1>1. MsgInv /\ epc = "write"
  BY DEF LogInv, WriteStr
<1>2. PICK p \in Seq(Seq(Chars)), k \in Nat \ {0} : p = msg.pieces /\ k = msg.k
  BY <1>1 DEF MsgInv
<1>3. k \in 1..Len(p) /\ (k + 1) - 1 = k /\ k + 1 \in Nat \ {0} /\ k + 1 <= Len(p) + 1
  BY <1>2 DEF WriteStr
<1>4. buf' = Cut(SubSeq(p, 1, k))
  <2>1. buf = Cut(SubSeq(p, 1, k - 1))
    BY <1>1, <1>2 DEF MsgInv
  <2>2. buf' = buf \o Clip(BytesOf(p[k]), (BufLen - 1) - Len(buf))
    BY <1>2 DEF WriteStr
  <2> QED BY <1>3, <2>1, <2>2, CutStep
<1>5. msg' = [msg EXCEPT !.k = k + 1]
  BY <1>2 DEF WriteStr
<1>6. /\ msg' \in [level : Levels \union {"Panic"}, name : {msg'.name}, pieces : Seq(Seq(Chars)),
                   k : Nat \ {0}, back : {"main", "done", "aborted"}]
      /\ msg'.level = msg.level /\ msg'.pieces = p /\ msg'.back = msg.back /\ msg'.k = k + 1
  BY <1>1, <1>2, <1>3, <1>5 DEF MsgInv
<1>7. UNCHANGED <<host, epc, logger, sink, result, ret>>
  BY DEF WriteStr
<1>8. MsgInv'
  BY <1>1, <1>2, <1>3, <1>4, <1>6, <1>7 DEF MsgInv
<1>9. (\A i \in DOMAIN sink : sink[i].text = Shown(Cut(sink[i].pieces)))'
  BY <1>7 DEF LogInv, Shown
<1> QED BY <1>1, <1>7, <1>8, <1>9 DEF LogInv, ErrorsAreLogged

\* The message goes out, last in the log.
LEMMA FlushInv ==
    ASSUME LogInv, Flush
    PROVE  LogInv'
<1>1. MsgInv /\ epc = "write"
  BY DEF LogInv, Flush
<1> DEFINE e == [level |-> msg.level, name |-> Shown(msg.name), text |-> Shown(buf), pieces |-> msg.pieces]
<1>2. PICK S : sink \in Seq(S)
  BY DEF LogInv
<1>3. /\ sink' = Append(sink, e) /\ epc' = msg.back /\ ret' = (IF msg.back = "done" THEN 1 ELSE ret)
      /\ buf' = <<>> /\ UNCHANGED <<host, logger, result>>
  BY DEF Flush
<1>4. e.text = Shown(Cut(e.pieces)) /\ e.level = msg.level /\ e.pieces = msg.pieces
  <2>1. PICK p \in Seq(Seq(Chars)), k \in Nat \ {0} : p = msg.pieces /\ k = msg.k
    BY <1>1 DEF MsgInv
  <2>2. k - 1 = Len(p)
    BY <1>1, <2>1 DEF MsgInv, Flush
  <2>3. buf = Cut(p)
    BY <1>1, <2>1, <2>2, CutAll DEF MsgInv
  <2> QED BY <2>1, <2>3
<1> HIDE DEF e
<1>5. PICK T : sink \in Seq(T) /\ e \in T
  <2>1. S \subseteq S \union {e} /\ e \in S \union {e}
    OBVIOUS
  <2>2. sink \in Seq(S \union {e})
    BY <1>2, <2>1, SeqMonotonic
  <2> QED BY <2>1, <2>2
<1>6. /\ sink' \in Seq(T) /\ Len(sink') = Len(sink) + 1 /\ sink'[Len(sink')] = e
      /\ \A i \in DOMAIN sink' : sink'[i] = e \/ (i \in DOMAIN sink /\ sink'[i] = sink[i])
  BY <1>3, <1>5
<1>7. sink' # <<>> /\ Last(sink') = e
  BY <1>5, <1>6 DEF Last
<1>8. \A i \in DOMAIN sink' : sink'[i].text = Shown(Cut(sink'[i].pieces))
  BY <1>4, <1>6 DEF LogInv
<1>9. (\A i \in DOMAIN sink : sink[i].text = Shown(Cut(sink[i].pieces)))'
  BY <1>3, <1>8 DEF Shown
<1>10. msg.back \in {"main", "done", "aborted"}
  BY <1>1 DEF MsgInv
<1>11. ErrorsAreLogged'
  <2>1. CASE msg.back = "done"
    BY <1>1, <1>3, <1>4, <1>7, <2>1 DEF ErrorsAreLogged, MsgInv
  <2>2. CASE msg.back = "aborted"
    BY <1>1, <1>3, <1>4, <1>7, <2>2 DEF ErrorsAreLogged, MsgInv
  <2>3. CASE msg.back = "main"
    BY <1>3, <2>3 DEF ErrorsAreLogged
  <2> QED BY <1>10, <2>1, <2>2, <2>3
<1>12. ret' \in Int /\ logger' \in {"none", "px4", "other"} /\ (\E R : sink \in Seq(R))'
  BY <1>3, <1>6 DEF LogInv
<1> QED BY <1>3, <1>9, <1>10, <1>11, <1>12 DEF LogInv

\* A step of main() that logs nothing.
LEMMA QuietInv ==
    ASSUME LogInv, epc' \in {"main", "convert", "done"}, buf' = <<>>, UNCHANGED <<host, sink>>,
           logger' \in {"none", "px4", "other"}, ret' \in Int, epc' = "convert" => result' \in Results,
           epc' = "done" => result'.leaf # "err"
    PROVE  LogInv'
<1>1. (\A k \in DOMAIN sink : sink[k].text = Shown(Cut(sink[k].pieces)))'
  BY DEF LogInv, Shown
<1>2. ErrorsAreLogged'
  BY DEF ErrorsAreLogged
<1>3. (\E S : sink \in Seq(S))'
  BY DEF LogInv
<1> QED BY <1>1, <1>2, <1>3 DEF LogInv

\* main() and into_c_int.
LEMMA EntryStepInv ==
    ASSUME LogInv, EntryNext
    PROVE  LogInv'
<1>1. CASE Subcommand \/ IterNext
  <2>1. epc = "main" /\ UNCHANGED <<host, epc, logger, buf, sink, ret>>
    BY <1>1 DEF Subcommand, IterNext
  <2>2. buf = <<>> /\ logger \in {"none", "px4", "other"} /\ ret \in Int
    BY <2>1 DEF LogInv
  <2> QED BY <2>1, <2>2, QuietInv
<1>2. ASSUME NEW l \in Levels, NEW m \in Messages, LogMacro(l, m) PROVE LogInv'
  <2>1. l \in Levels \union {"Panic"} /\ m \in Seq(Seq(Chars))
    BY EntryAssumption DEF Levels
  <2> QED BY <1>2, <2>1, BeginInv DEF LogMacro
<1>3. ASSUME NEW l \in Levels, NEW m \in Messages, NEW t \in Targets, LogRecord(l, t, m) PROVE LogInv'
  <2>1. l \in Levels \union {"Panic"} /\ m \in Seq(Seq(Chars))
    BY EntryAssumption DEF Levels
  <2> DEFINE name == CString(Clip(BytesOf(t), NameLen - 1))
  <2>2. LogBegin(l, name, m, "main") /\ UNCHANGED <<host, logger, sink, result, ret>>
    BY <1>3 DEF LogRecord
  <2> HIDE DEF name
  <2> QED BY <2>1, <2>2, BeginInv
<1>4. ASSUME NEW m \in Messages, Panic(m) PROVE LogInv'
  <2>1. m \in Seq(Seq(Chars))
    BY EntryAssumption
  <2> QED BY <1>4, <2>1, BeginInv DEF Panic
<1>5. CASE LoggerInit
  <2>1. epc = "main" /\ UNCHANGED <<host, epc, buf, sink, ret>> /\ logger' \in {"px4", logger}
    BY <1>5 DEF LoggerInit
  <2>2. buf = <<>> /\ logger \in {"none", "px4", "other"} /\ ret \in Int
    BY <2>1 DEF LogInv
  <2> QED BY <2>1, <2>2, QuietInv
<1>6. ASSUME NEW r \in Results, Return(r) PROVE LogInv'
  <2>1. epc = "main" /\ epc' = "convert" /\ result' = r /\ UNCHANGED <<host, logger, buf, sink, ret>>
    BY <1>6 DEF Return
  <2>2. buf = <<>> /\ logger \in {"none", "px4", "other"} /\ ret \in Int
    BY <2>1 DEF LogInv
  <2> QED BY <2>1, <2>2, QuietInv
<1>7. CASE IntoCInt
  <2>1. epc = "convert" /\ result \in Results /\ UNCHANGED <<host, logger, sink, result>>
    BY <1>7 DEF IntoCInt, LogInv
  <2>2. CASE result.leaf = "err"
    <3>1. LogBegin("Error", <<>>, result.pieces, "done") /\ UNCHANGED ret
      BY <1>7, <2>2 DEF IntoCInt
    <3>2. result.pieces \in Seq(Seq(Chars))
      BY <2>1, <2>2, EntryAssumption
    <3> DEFINE level == "Error"
               name == <<>>
    <3>3. level \in Levels \union {"Panic"} /\ LogBegin(level, name, result.pieces, "done")
      BY <3>1 DEF Levels
    <3> HIDE DEF name
    <3> QED BY <2>1, <2>2, <3>1, <3>2, <3>3, BeginInv
  <2>3. CASE result.leaf # "err"
    <3>1. ret' \in Int /\ epc' = "done" /\ UNCHANGED buf
      BY <1>7, <2>1, <2>3, EntryAssumption DEF IntoCInt
    <3>2. buf = <<>> /\ logger \in {"none", "px4", "other"}
      BY <2>1 DEF LogInv
    <3> QED BY <2>1, <2>3, <3>1, <3>2, QuietInv
  <2> QED BY <2>2, <2>3
<1> QED BY <1>1, <1>2, <1>3, <1>4, <1>5, <1>6, <1>7, WriteInv, FlushInv DEF EntryNext

\* The invariant of the log holds.
LEMMA LogInvHolds == EntrySpec => []LogInv
<1>1. EntryInit => LogInv
  <2> SUFFICES ASSUME EntryInit PROVE LogInv
    OBVIOUS
  <2>1. epc = "main" /\ buf = <<>> /\ sink = <<>> /\ logger \in {"none", "px4", "other"} /\ ret = 0
    BY DEF EntryInit
  <2>2. sink \in Seq({}) /\ DOMAIN sink = {}
    BY <2>1
  <2> QED BY <2>1, <2>2 DEF LogInv, ErrorsAreLogged
<1>2. LogInv /\ [EntryNext]_entryVars => LogInv'
  <2>1. LogInv /\ EntryNext => LogInv'
    BY EntryStepInv
  <2>2. LogInv /\ UNCHANGED entryVars => LogInv'
    BY DEF entryVars, LogInv, MsgInv, Shown, ErrorsAreLogged
  <2> QED BY <2>1, <2>2
<1> QED BY <1>1, <1>2, PTL DEF EntrySpec

\* A module that fails has said so, last of all.
THEOREM FailsAloud == EntrySpec => []ErrorsAreLogged
<1>1. LogInv => ErrorsAreLogged
  BY DEF LogInv
<1> QED BY <1>1, LogInvHolds, PTL

\* A logged message is the beginning of its text.
THEOREM LogsPrefix == EntrySpec => []LogIsPrefix
<1>1. LogInv => LogIsPrefix
  <2> SUFFICES ASSUME LogInv, NEW k \in DOMAIN sink
               PROVE  /\ sink[k].text.replaced <=> (host = "std" /\ ~IsUtf8(Cut(sink[k].pieces)))
                      /\ ~sink[k].text.replaced =>
                            sink[k].text.bytes = IF host = "px4" THEN CString(Cut(sink[k].pieces))
                                                 ELSE Cut(sink[k].pieces)
    BY DEF LogIsPrefix, Cut
  <2> DEFINE c == Cut(sink[k].pieces)
             bad == host = "std" /\ ~IsUtf8(c)
  <2>1. sink[k].text = Shown(c)
    BY DEF LogInv
  <2> HIDE DEF c
  <2>2. Shown(c).replaced = bad /\ Shown(c).bytes =
            (IF bad THEN <<>> ELSE IF host = "px4" THEN CString(c) ELSE c)
    BY DEF Shown
  <2> QED BY <2>1, <2>2 DEF c
<1> QED BY <1>1, LogInvHolds, PTL

-----------------------------------------------------------------------------
(* The arguments *)

\* The slots of argv that hold an argument, and those among the first n.
Slots == {i \in 1..ArgsLen : args.argv[i] # Null}
SlotsTo(n) == {j \in Slots : j <= n}

\* The iterator has yielded the arguments of the slots before its index.
ArgsInv ==
    /\ args \in ArgVectors
    /\ idx \in 0..ArgsLen
    /\ exhausted \in BOOLEAN
    /\ exhausted => idx = ArgsLen
    /\ \E S : yielded \in Seq(S)
    /\ Len(yielded) = Cardinality(SlotsTo(idx))
    /\ \A i \in SlotsTo(idx) : yielded[Cardinality(SlotsTo(i))] = args.argv[i]

\* argc bounds the slots.
LEMMA ArgsLenType ==
    ASSUME args \in ArgVectors
    PROVE  ArgsLen \in Nat
  BY EntryAssumption DEF ArgsLen

\* The slots can be counted.
LEMMA SlotsFinite ==
    ASSUME args \in ArgVectors, NEW n
    PROVE  /\ IsFiniteSet(Slots) /\ Cardinality(Slots) \in Nat
           /\ IsFiniteSet(SlotsTo(n)) /\ Cardinality(SlotsTo(n)) \in Nat
<1>1. IsFiniteSet(1..ArgsLen)
  BY ArgsLenType, FS_Interval
<1>2. Slots \subseteq 1..ArgsLen /\ SlotsTo(n) \subseteq 1..ArgsLen
  BY DEF Slots, SlotsTo
<1>3. IsFiniteSet(Slots) /\ IsFiniteSet(SlotsTo(n))
  BY <1>1, <1>2, FS_Subset
<1> QED BY <1>3, FS_CardinalityType

\* The iterator moves to the next slot with an argument, and counts it.
LEMMA IterInv ==
    ASSUME ArgsInv, IterNext
    PROVE  ArgsInv'
<1>0. args \in ArgVectors /\ ArgsLen \in Nat /\ idx \in Nat /\ idx <= ArgsLen /\ args' = args
      /\ ArgsLen' = ArgsLen /\ Slots' = Slots
  BY ArgsLenType DEF ArgsInv, IterNext, ArgsLen, Slots
<1> DEFINE left == {i \in idx..ArgsLen - 1 : Get(i) # Null}
<1>1. \A i \in idx..(ArgsLen - 1) : Get(i) = args.argv[i + 1]
  BY <1>0 DEF Get
<1>2. CASE left = {} /\ exhausted' = TRUE /\ idx' = ArgsLen /\ UNCHANGED yielded
  <2>1. \A j \in Slots : j <= idx
    <3> SUFFICES ASSUME NEW j \in Slots, ~(j <= idx) PROVE FALSE
      OBVIOUS
    <3>1. j \in 1..ArgsLen /\ args.argv[j] # Null
      BY DEF Slots
    <3>2. j - 1 \in idx..(ArgsLen - 1) /\ (j - 1) + 1 = j
      BY <1>0, <3>1
    <3>3. j - 1 \in left
      BY <1>1, <3>1, <3>2
    <3> QED BY <1>2, <3>3
  <2>2. SlotsTo(idx') = SlotsTo(idx)
    <3>1. \A j \in Slots : j <= ArgsLen
      BY <1>0 DEF Slots
    <3> QED BY <1>2, <2>1, <3>1 DEF SlotsTo
  <2>3. ArgsLen \in 0..ArgsLen
    BY <1>0
  <2> QED BY <1>0, <1>2, <2>2, <2>3 DEF ArgsInv, SlotsTo
<1>3. ASSUME NEW i \in left, \A j \in left : i <= j, yielded' = Append(yielded, Get(i)),
             idx' = i + 1, UNCHANGED exhausted, ~exhausted
      PROVE  ArgsInv'
  <2>1. i \in idx..(ArgsLen - 1) /\ i \in Nat /\ i + 1 \in 1..ArgsLen /\ i + 1 \in 0..ArgsLen
    BY <1>0
  <2>2. Get(i) = args.argv[i + 1] /\ Get(i) # Null /\ i + 1 \in Slots
    BY <1>1, <2>1 DEF Slots
  <2>3. ASSUME NEW j \in Slots PROVE (j <= i + 1) <=> (j <= idx \/ j = i + 1)
    <3>1. j \in 1..ArgsLen /\ args.argv[j] # Null
      BY DEF Slots
    <3>2. ASSUME j <= i + 1, ~(j <= idx) PROVE j = i + 1
      <4>1. j - 1 \in idx..(ArgsLen - 1) /\ (j - 1) + 1 = j
        BY <1>0, <3>1, <3>2
      <4>2. j - 1 \in left
        BY <1>1, <3>1, <4>1
      <4>3. i <= j - 1
        BY <1>3, <4>2
      <4> QED BY <2>1, <3>1, <3>2, <4>3
    <3> QED BY <1>0, <2>1, <3>1, <3>2
  <2>4. SlotsTo(i + 1) = SlotsTo(idx) \union {i + 1} /\ i + 1 \notin SlotsTo(idx)
    <3>1. ~(i + 1 <= idx)
      BY <1>0, <2>1
    <3> QED BY <2>2, <2>3, <3>1 DEF SlotsTo
  <2>5. Cardinality(SlotsTo(i + 1)) = Cardinality(SlotsTo(idx)) + 1
    BY <1>0, <2>4, SlotsFinite, FS_AddElement
  <2>6. PICK S : yielded \in Seq(S)
    BY DEF ArgsInv
  <2>7. PICK T : yielded \in Seq(T) /\ Get(i) \in T
    <3>1. S \subseteq S \union {Get(i)} /\ Get(i) \in S \union {Get(i)}
      OBVIOUS
    <3>2. yielded \in Seq(S \union {Get(i)})
      BY <2>6, <3>1, SeqMonotonic
    <3> QED BY <3>1, <3>2
  <2>8. /\ yielded' \in Seq(T) /\ Len(yielded') = Len(yielded) + 1
        /\ yielded'[Len(yielded) + 1] = Get(i)
        /\ \A k \in 1..Len(yielded) : yielded'[k] = yielded[k]
    BY <1>3, <2>7
  <2>9. Len(yielded') = Cardinality(SlotsTo(i + 1))
    BY <2>5, <2>8 DEF ArgsInv
  <2>10. ASSUME NEW j \in SlotsTo(i + 1)
         PROVE  yielded'[Cardinality(SlotsTo(j))] = args.argv[j]
    <3>1. CASE j = i + 1
      BY <2>2, <2>5, <2>8, <3>1 DEF ArgsInv
    <3>2. CASE j \in SlotsTo(idx)
      <4>1. yielded[Cardinality(SlotsTo(j))] = args.argv[j]
        BY <3>2 DEF ArgsInv
      <4>2. SlotsTo(j) \subseteq SlotsTo(idx) /\ j \in SlotsTo(j)
        BY <1>0, <3>2 DEF SlotsTo, Slots
      <4>3. Cardinality(SlotsTo(j)) <= Cardinality(SlotsTo(idx))
        BY <1>0, <4>2, SlotsFinite, FS_Subset
      <4>4. Cardinality(SlotsTo(j)) # 0
        BY <1>0, <4>2, SlotsFinite, FS_EmptySet
      <4>5. Cardinality(SlotsTo(j)) \in 1..Len(yielded)
        <5>1. Len(yielded) = Cardinality(SlotsTo(idx))
          BY DEF ArgsInv
        <5>2. Cardinality(SlotsTo(j)) \in Nat /\ Cardinality(SlotsTo(idx)) \in Nat
          BY <1>0, SlotsFinite
        <5> QED BY <4>3, <4>4, <5>1, <5>2
      <4> QED BY <2>8, <4>1, <4>5
    <3> QED BY <2>4, <3>1, <3>2
  <2>11. \A n : SlotsTo(n)' = SlotsTo(n)
    BY <1>0 DEF SlotsTo
  <2>12. (SlotsTo(idx))' = SlotsTo(i + 1)
    BY <1>0, <1>3 DEF SlotsTo
  <2>13. (\A j \in SlotsTo(idx) : yielded[Cardinality(SlotsTo(j))] = args.argv[j])'
    BY <1>0, <2>10, <2>12 DEF SlotsTo
  <2>14. Len(yielded') = Cardinality(SlotsTo(idx)')
    BY <2>9, <2>12
  <2>15. exhausted' \in BOOLEAN /\ ~exhausted' /\ (\E R : yielded \in Seq(R))'
    BY <1>3, <2>8 DEF ArgsInv
  <2> QED BY <1>0, <1>3, <2>1, <2>13, <2>14, <2>15 DEF ArgsInv
<1> QED BY <1>2, <1>3 DEF IterNext

\* The invariant of the iterator holds.
LEMMA ArgsInvHolds == EntrySpec => []ArgsInv
<1>1. EntryInit => ArgsInv
  <2> SUFFICES ASSUME EntryInit PROVE ArgsInv
    OBVIOUS
  <2>1. args \in ArgVectors /\ idx = 0 /\ yielded = <<>> /\ exhausted = FALSE
    BY DEF EntryInit
  <2>2. ArgsLen \in Nat
    BY <2>1, ArgsLenType
  <2>3. SlotsTo(idx) = {}
    BY <2>1, <2>2 DEF SlotsTo, Slots
  <2>4. yielded \in Seq({}) /\ Len(yielded) = 0
    BY <2>1
  <2>5. Cardinality(SlotsTo(idx)) = 0
    BY <2>3, FS_EmptySet
  <2>6. /\ idx \in 0..ArgsLen /\ Len(yielded) = Cardinality(SlotsTo(idx))
        /\ \E S : yielded \in Seq(S)
    BY <2>1, <2>2, <2>4, <2>5
  <2>7. exhausted \in BOOLEAN /\ ~exhausted
    BY <2>1
  <2> QED BY <2>1, <2>3, <2>6, <2>7 DEF ArgsInv
<1>2. ArgsInv /\ [EntryNext]_entryVars => ArgsInv'
  <2> SUFFICES ASSUME ArgsInv, [EntryNext]_entryVars PROVE ArgsInv'
    OBVIOUS
  <2>1. CASE IterNext
    BY <2>1, IterInv
  <2>2. CASE UNCHANGED <<args, idx, yielded, exhausted>>
    BY <2>2 DEF ArgsInv, SlotsTo, Slots, ArgsLen
  <2> QED BY <2>1, <2>2 DEF EntryNext, entryVars, Subcommand, LogMacro, LogRecord, Panic, LoggerInit,
                           WriteStr, Flush, Return, IntoCInt
<1> QED BY <1>1, <1>2, PTL DEF EntrySpec

\* The iterator yields the arguments in order, each once, for any argc and argv.
THEOREM YieldsArgs == EntrySpec => []ArgsInOrder
<1>1. ArgsInv => ArgsInOrder
  <2> SUFFICES ASSUME ArgsInv PROVE ArgsInOrder
    OBVIOUS
  <2>0. args \in ArgVectors /\ ArgsLen \in Nat /\ idx \in 0..ArgsLen
    BY ArgsLenType DEF ArgsInv
  <2>1. Len(yielded) <= Cardinality(Slots)
    <3>1. SlotsTo(idx) \subseteq Slots
      BY DEF SlotsTo
    <3> QED BY <2>0, <3>1, SlotsFinite, FS_Subset DEF ArgsInv
  <2>2. ASSUME NEW i \in Slots, Cardinality(SlotsTo(i)) <= Len(yielded)
        PROVE  yielded[Cardinality(SlotsTo(i))] = args.argv[i]
    <3>1. i \in SlotsTo(idx)
      <4> SUFFICES ASSUME i \notin SlotsTo(idx) PROVE FALSE
        OBVIOUS
      <4>1. SlotsTo(idx) \subseteq SlotsTo(i) /\ i \in SlotsTo(i) /\ SlotsTo(idx) # SlotsTo(i)
        BY <2>0 DEF SlotsTo, Slots
      <4>2. Cardinality(SlotsTo(idx)) < Cardinality(SlotsTo(i))
        BY <2>0, <4>1, SlotsFinite, FS_Subset
      <4> QED BY <2>0, <2>2, <4>2, SlotsFinite DEF ArgsInv
    <3> QED BY <3>1 DEF ArgsInv
  <2>3. exhausted => Len(yielded) = Cardinality(Slots)
    <3>1. SlotsTo(ArgsLen) = Slots
      BY <2>0 DEF SlotsTo, Slots
    <3> QED BY <3>1 DEF ArgsInv
  <2> QED BY <2>1, <2>2, <2>3 DEF ArgsInOrder, SlotsTo, Slots
<1> QED BY <1>1, ArgsInvHolds, PTL

\* The maximum level is one of the crate's.
LEMMA MaxLevelInv == EntrySpec => [](maxLevel \in DOMAIN Admitted)
<1>1. EntryInit => maxLevel \in DOMAIN Admitted
  BY DEF EntryInit, Admitted
<1>2. maxLevel \in DOMAIN Admitted /\ [EntryNext]_entryVars => (maxLevel \in DOMAIN Admitted)'
  <2>1. EntryNext => maxLevel' \in {maxLevel, "Info"}
    BY DEF EntryNext, Subcommand, IterNext, LogMacro, LogRecord, Panic, LoggerInit, WriteStr, Flush,
           Return, IntoCInt
  <2>2. UNCHANGED entryVars => maxLevel' = maxLevel
    BY DEF entryVars
  <2>3. "Info" \in DOMAIN Admitted
    BY DEF Admitted
  <2> QED BY <2>1, <2>2, <2>3
<1> QED BY <1>1, <1>2, PTL DEF EntrySpec

\* The entry point keeps its types: the index stays within argc, and the buffer
\* keeps a byte for the terminator.
THEOREM EntryTypeCorrect == EntrySpec => []EntryTypeOK
<1>1. LogInv /\ ArgsInv /\ maxLevel \in DOMAIN Admitted => EntryTypeOK
  <2> SUFFICES ASSUME LogInv, ArgsInv, maxLevel \in DOMAIN Admitted PROVE EntryTypeOK
    OBVIOUS
  <2>1. ArgsLen \in Nat
    BY ArgsLenType DEF ArgsInv
  <2>2. Len(buf) <= BufLen - 1
    <3>1. CASE epc = "write"
      <4>1. MsgInv
        BY <3>1 DEF LogInv
      <4>2. PICK p \in Seq(Seq(Chars)), k \in Nat \ {0} : p = msg.pieces /\ k = msg.k
        BY <4>1 DEF MsgInv
      <4>3. PICK q \in Seq(Seq(Chars)) : q = SubSeq(p, 1, k - 1)
        <5>1. k <= Len(p) + 1
          BY <4>1, <4>2 DEF MsgInv
        <5>2. SubSeq(p, 1, k - 1) \in Seq(Seq(Chars))
          BY <5>1
        <5> QED BY <5>2, Zenon
      <4>4. buf = Cut(q)
        BY <4>1, <4>2, <4>3 DEF MsgInv
      <4> QED BY <4>4, CutAll
    <3>2. CASE epc # "write"
      BY <3>2, EntryAssumption DEF LogInv
    <3> QED BY <3>1, <3>2
  <2> QED BY <2>1, <2>2 DEF EntryTypeOK, LogInv, ArgsInv
<1> QED BY <1>1, LogInvHolds, ArgsInvHolds, MaxLevelInv, PTL
=============================================================================
