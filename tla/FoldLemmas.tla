----------------------------- MODULE FoldLemmas -----------------------------
(***************************************************************************)
(* Lemmas about the operators of the community modules that several models *)
(* are built from: sums (MapThenSumSet, SumFunction), concatenations       *)
(* (FlattenSeq) and folds of sequences (FoldLeft), all of them folds of    *)
(* sets, and sequences as sets of elements.                                *)
(*                                                                         *)
(* Folds are recursive functions.  That the equation of such a function    *)
(* has a solution, and what it then gives, is proved by counting up        *)
(* (CountingUp, SubsetsGrow), which rests on least numbers (LeastNumber).  *)
(***************************************************************************)
EXTENDS Integers, Sequences, SequencesExt, FiniteSets, FiniteSetsExt,
        FiniteSetTheorems, WellFoundedInduction, SequenceTheorems, TLAPS

(* Induction over natural numbers: a set of them has a least one.          *)

\* A set of natural numbers that is not empty has a least element.
LEMMA LeastNumber ==
  ASSUME NEW S \in SUBSET Nat, S # {}
  PROVE  \E m \in S : \A k \in S : m <= k
<1> DEFINE R == OpToRel(<, Nat)
<1>1. IsWellFoundedOn(R, Nat)
  BY NatLessThanWellFounded, Zenon
<1>2. \A x, y \in Nat : x < y => <<x, y>> \in R
  BY DEF OpToRel
<1> HIDE DEF R
<1>3. PICK m \in S : \A y \in S : ~ (<<y, m>> \in R)
  BY <1>1, WFMin
<1>4. \A k \in S : ~ (k < m)
  BY <1>2, <1>3
<1>5. QED
  BY <1>4

\* One with an upper bound has a greatest element.
LEMMA GreatestNumber ==
  ASSUME NEW S \in SUBSET Nat, S # {}, NEW n \in Nat, \A x \in S : x <= n
  PROVE  \E m \in S : \A k \in S : k <= m
<1> DEFINE T == {n - x : x \in S}
<1>1. T \in SUBSET Nat /\ T # {}
  <2>1. \A x \in S : n - x \in Nat
    OBVIOUS
  <2>2. QED
    BY <2>1
<1> HIDE DEF T
<1>2. PICK t \in T : \A u \in T : t <= u
  BY <1>1, LeastNumber
<1>3. PICK m \in S : t = n - m
  BY DEF T
<1>4. ASSUME NEW k \in S PROVE k <= m
  <2>1. n - k \in T
    BY DEF T
  <2>2. QED
    BY <1>2, <1>3, <2>1
<1>5. QED
  BY <1>4

\* What holds of zero and of the successor of each number that it holds of, up to n, holds
\* of all numbers up to n.
LEMMA CountingUp ==
  ASSUME NEW n \in Nat, NEW P, 0 \in P, \A k \in 0 .. n - 1 : k \in P => k + 1 \in P
  PROVE  0 .. n \subseteq P
<1> DEFINE S == {k \in 0 .. n : k \notin P}
<1>1. SUFFICES ASSUME S # {} PROVE FALSE
  OBVIOUS
<1>2. PICK m \in S : \A k \in S : m <= k
  <2>1. S \in SUBSET Nat
    OBVIOUS
  <2> HIDE DEF S
  <2> QED BY <1>1, <2>1, LeastNumber
<1>3. m # 0 /\ m - 1 \in 0 .. n - 1 /\ m - 1 \notin S
  BY <1>2
<1>4. QED
  BY <1>3

Repeats(f, b, h, k) == f[0] = b /\ \A j \in 1 .. k : f[j] = h[f[j - 1]]

\* A function can be applied again and again.
LEMMA Iterates ==
  ASSUME NEW V, NEW h \in [V -> V], NEW b \in V, NEW n \in Nat
  PROVE  \E f \in [0 .. n -> V] : Repeats(f, b, h, n)
<1> DEFINE P == {m \in Nat : \E f \in [0 .. m -> V] : Repeats(f, b, h, m)}
<1>1. 0 \in P
  <2> DEFINE f == [k \in 0 .. 0 |-> b]
  <2>1. f \in [0 .. 0 -> V] /\ Repeats(f, b, h, 0)
    BY DEF Repeats
  <2> HIDE DEF f
  <2>2. QED
    BY <2>1
<1>2. ASSUME NEW m \in Nat, m \in P PROVE m + 1 \in P
  <2>1. PICK f \in [0 .. m -> V] : Repeats(f, b, h, m)
    BY <1>2
  <2> DEFINE g == [k \in 0 .. m + 1 |-> IF k = m + 1 THEN h[f[m]] ELSE f[k]]
  <2>2. g \in [0 .. m + 1 -> V] /\ g[0] = b
    BY <2>1 DEF Repeats
  <2>3. \A k \in 1 .. m + 1 : g[k] = h[g[k - 1]]
    BY <2>1 DEF Repeats
  <2> HIDE DEF g
  <2>4. Repeats(g, b, h, m + 1)
    BY <2>2, <2>3 DEF Repeats
  <2>5. QED
    BY <2>2, <2>4
<1>3. n \in P
  <2> HIDE DEF P
  <2> QED BY <1>1, <1>2, CountingUp
<1>4. QED
  BY <1>3

RepeatsOn(f, b, h) == f[0] = b /\ \A k \in Nat \ {0} : f[k] = h[f[k - 1]]

\* And without an end.
LEMMA IteratesOn ==
  ASSUME NEW V, NEW h \in [V -> V], NEW b \in V
  PROVE  \E f \in [Nat -> V] : RepeatsOn(f, b, h)
<1> DEFINE Is(g, n) == g \in [0 .. n -> V] /\ Repeats(g, b, h, n)
           G(n) == CHOOSE g : Is(g, n)
           f == [n \in Nat |-> G(n)[n]]
<1>1. \A n \in Nat : \E g : Is(g, n)
  BY Iterates
<1>2. \A n \in Nat : Is(G(n), n)
  <2> HIDE DEF Is
  <2> QED BY <1>1
<1> HIDE DEF G
<1>3. f \in [Nat -> V]
  <2>1. \A n \in Nat : n \in 0 .. n
    OBVIOUS
  <2>2. \A n \in Nat : G(n)[n] \in V
    BY <1>2, <2>1
  <2>3. QED
    BY <2>2
<1>4. f[0] = b
  BY <1>2 DEF Repeats
<1>5. ASSUME NEW n \in Nat \ {0} PROVE f[n] = h[f[n - 1]]
  <2>1. PICK m \in Nat : n = m + 1
    <3>1. n - 1 \in Nat /\ n = (n - 1) + 1
      OBVIOUS
    <3>2. QED
      BY <3>1
  <2>2. n - 1 = m /\ m \in 0 .. m /\ n \in 1 .. n
    BY <2>1
  <2>3. PICK a : a = G(m) /\ Is(a, m)
    BY <1>2
  <2>4. PICK c : c = G(n) /\ Is(c, n)
    BY <1>2
  <2> DEFINE P == {k \in Nat : a[k] = c[k]}
  <2>5. 0 \in P
    BY <2>3, <2>4 DEF Repeats
  <2>6. ASSUME NEW k \in 0 .. m - 1, k \in P PROVE k + 1 \in P
    <3>1. k + 1 \in 1 .. m /\ k + 1 \in 1 .. n /\ (k + 1) - 1 = k /\ k + 1 \in Nat
      BY <2>1
    <3>2. a[k + 1] = h[a[k]]
      BY <2>3, <3>1 DEF Repeats
    <3>3. c[k + 1] = h[c[k]]
      BY <2>4, <3>1 DEF Repeats
    <3>4. QED
      BY <2>6, <3>1, <3>2, <3>3
  <2>7. m \in P
    <3> HIDE DEF P
    <3> QED BY <2>2, <2>5, <2>6, CountingUp
  <2>8. c[n] = h[c[m]]
    BY <2>2, <2>4 DEF Repeats
  <2>9. f[n] = c[n] /\ f[m] = a[m]
    BY <2>3, <2>4
  <2>10. QED
    BY <2>2, <2>7, <2>8, <2>9
<1> HIDE DEF f
<1>6. RepeatsOn(f, b, h)
  BY <1>4, <1>5 DEF RepeatsOn
<1>7. QED
  BY <1>3, <1>6

-----------------------------------------------------------------------------
(* Sequences and their elements.                                           *)

\* The first element of a sequence and the others.
LEMMA ElementsOfTail ==
  ASSUME NEW V, NEW q \in Seq(V), q # <<>>
  PROVE  /\ Head(q) \in V /\ Tail(q) \in Seq(V) /\ Len(Tail(q)) = Len(q) - 1
         /\ ToSet(q) = {Head(q)} \cup ToSet(Tail(q))
         /\ \A i \in 1 .. Len(Tail(q)) : Tail(q)[i] = q[i + 1] /\ i + 1 \in 1 .. Len(q)
<1>1. /\ Head(q) \in V /\ Tail(q) \in Seq(V) /\ Len(Tail(q)) = Len(q) - 1
      /\ Len(q) \in Nat /\ Len(q) > 0 /\ Head(q) = q[1] /\ DOMAIN q = 1 .. Len(q)
      /\ DOMAIN Tail(q) = 1 .. Len(q) - 1
      /\ \A i \in 1 .. Len(q) - 1 : Tail(q)[i] = q[i + 1]
  BY HeadTailProperties, LenProperties
<1>2. \A i \in 1 .. Len(q) : i = 1 \/ (i - 1 \in 1 .. Len(q) - 1 /\ Tail(q)[i - 1] = q[i])
  BY <1>1
<1>3. ASSUME NEW x \in ToSet(q) PROVE x \in {Head(q)} \cup ToSet(Tail(q))
  <2>1. PICK i \in 1 .. Len(q) : x = q[i]
    BY <1>1 DEF ToSet
  <2>2. CASE i = 1
    BY <2>1, <2>2, <1>1
  <2>3. CASE i # 1
    BY <2>1, <2>3, <1>1, <1>2 DEF ToSet
  <2>4. QED
    BY <2>2, <2>3
<1>4. {Head(q)} \cup ToSet(Tail(q)) \subseteq ToSet(q)
  BY <1>1 DEF ToSet
<1>5. QED
  BY <1>1, <1>3, <1>4

\* The elements of a longer sequence.
LEMMA ElementsOfAppend ==
  ASSUME NEW V, NEW q \in Seq(V), NEW x \in V
  PROVE  /\ Append(q, x) \in Seq(V) /\ Append(q, x) # <<>> /\ Len(Append(q, x)) = Len(q) + 1
         /\ ToSet(Append(q, x)) = ToSet(q) \cup {x}
         /\ \A i \in 1 .. Len(q) : Append(q, x)[i] = q[i]
         /\ Append(q, x)[Len(q) + 1] = x
<1>1. /\ Append(q, x) \in Seq(V) /\ Append(q, x) # <<>> /\ Len(Append(q, x)) = Len(q) + 1
      /\ \A i \in 1 .. Len(q) : Append(q, x)[i] = q[i]
      /\ Append(q, x)[Len(q) + 1] = x /\ Len(q) \in Nat
      /\ DOMAIN q = 1 .. Len(q) /\ DOMAIN Append(q, x) = 1 .. Len(q) + 1
  BY AppendProperties, LenProperties
<1>2. ToSet(Append(q, x)) \subseteq ToSet(q) \cup {x}
  BY <1>1 DEF ToSet
<1>3. ToSet(q) \cup {x} \subseteq ToSet(Append(q, x))
  BY <1>1 DEF ToSet
<1>4. QED
  BY <1>1, <1>2, <1>3

\* A sequence has its elements from the set it is over.
LEMMA ElementsAreMembers ==
  ASSUME NEW V, NEW q \in Seq(V)
  PROVE  ToSet(q) \subseteq V /\ DOMAIN q = 1 .. Len(q) /\ Len(q) \in Nat
         /\ (q # <<>> <=> Len(q) > 0) /\ \A i \in 1 .. Len(q) : q[i] \in V /\ q[i] \in ToSet(q)
BY ElementOfSeq, LenProperties, EmptySeq DEF ToSet

\* A sequence without elements is one without indices.
LEMMA NoElements ==
  ASSUME NEW q
  PROVE  ToSet(q) = {} <=> DOMAIN q = {}
<1>1. ASSUME NEW p \in DOMAIN q PROVE q[p] \in ToSet(q)
  BY DEF ToSet
<1>2. ASSUME NEW e \in ToSet(q) PROVE DOMAIN q # {}
  BY DEF ToSet
<1>3. QED
  BY <1>1, <1>2

\* A finite set as a sequence: of its elements, all of them, and each once.
LEMMA SetAsSeq ==
  ASSUME NEW S, IsFiniteSet(S)
  PROVE  /\ SetToSeq(S) \in Seq(S)
         /\ \A x \in S : \E i \in DOMAIN SetToSeq(S) : SetToSeq(S)[i] = x
         /\ IsInjective(SetToSeq(S))
<1> DEFINE n == Cardinality(S)
           s == SetToSeq(S)
<1>1. n \in Nat /\ ExistsBijection(1 .. n, S)
  BY FS_CardinalityType
<1>2. \E f \in [1 .. n -> S] : IsInjective(f)
  BY <1>1 DEF ExistsBijection, Bijection, Injection
<1>3. s \in [1 .. n -> S] /\ IsInjective(s)
  BY <1>2 DEF SetToSeq
<1>4. s \in Injection(1 .. n, S)
  BY <1>3 DEF Injection
<1>5. Cardinality(1 .. n) = n
  BY <1>1, FS_Interval
<1>6. s \in Surjection(1 .. n, S)
  BY <1>4, <1>5, FS_Injection
<1>7. s \in Seq(S)
  BY <1>1, <1>3, SeqDef
<1> QED  BY <1>3, <1>6, <1>7 DEF Surjection

\* Two sequences one after the other.
LEMMA Concatenated ==
  ASSUME NEW V, NEW a \in Seq(V), NEW b \in Seq(V)
  PROVE  /\ a \o b \in Seq(V) /\ Len(a \o b) = Len(a) + Len(b) /\ DOMAIN (a \o b) = 1 .. Len(a) + Len(b)
         /\ Len(a) \in Nat /\ Len(b) \in Nat
         /\ \A i \in 1 .. Len(a) : (a \o b)[i] = a[i]
         /\ \A i \in 1 .. Len(b) : (a \o b)[Len(a) + i] = b[i] /\ Len(a) + i \in 1 .. Len(a) + Len(b)
         /\ \A i \in 1 .. Len(a) + Len(b) : i \in 1 .. Len(a) \/ \E j \in 1 .. Len(b) : i = Len(a) + j
         /\ ToSet(a \o b) = ToSet(a) \cup ToSet(b)
<1> DEFINE c == a \o b
<1>1. Len(a) \in Nat /\ Len(b) \in Nat /\ DOMAIN a = 1 .. Len(a) /\ DOMAIN b = 1 .. Len(b)
  BY LenProperties
<1>2. /\ c \in Seq(V) /\ Len(c) = Len(a) + Len(b)
      /\ \A i \in 1 .. Len(a) + Len(b) : c[i] = IF i <= Len(a) THEN a[i] ELSE b[i - Len(a)]
  BY ConcatProperties
<1>3. DOMAIN c = 1 .. Len(a) + Len(b)
  BY <1>2, LenProperties
<1> HIDE DEF c
<1>4. \A i \in 1 .. Len(a) : i \in 1 .. Len(a) + Len(b) /\ c[i] = a[i]
  BY <1>1, <1>2
<1>5. ASSUME NEW i \in 1 .. Len(b) PROVE c[Len(a) + i] = b[i] /\ Len(a) + i \in 1 .. Len(a) + Len(b)
  <2>1. Len(a) + i \in 1 .. Len(a) + Len(b) /\ ~ (Len(a) + i <= Len(a)) /\ (Len(a) + i) - Len(a) = i
    BY <1>1
  <2>2. QED
    BY <1>2, <2>1
<1>6. ASSUME NEW i \in 1 .. Len(a) + Len(b), i \notin 1 .. Len(a) PROVE \E j \in 1 .. Len(b) : i = Len(a) + j
  <2>1. i - Len(a) \in 1 .. Len(b) /\ i = Len(a) + (i - Len(a))
    BY <1>1, <1>6
  <2>2. QED
    BY <2>1
<1>7. ToSet(c) = ToSet(a) \cup ToSet(b)
  <2>1. ToSet(a) \subseteq ToSet(c) /\ ToSet(b) \subseteq ToSet(c)
    BY <1>1, <1>3, <1>4, <1>5 DEF ToSet
  <2>2. ASSUME NEW i \in 1 .. Len(a) + Len(b) PROVE c[i] \in ToSet(a) \cup ToSet(b)
    <3>1. CASE i \in 1 .. Len(a)
      BY <1>1, <1>4, <3>1 DEF ToSet
    <3>2. CASE i \notin 1 .. Len(a)
      BY <1>1, <1>5, <1>6, <3>2 DEF ToSet
    <3>3. QED
      BY <3>1, <3>2
  <2>3. QED
    BY <1>3, <2>1, <2>2 DEF ToSet
<1>8. QED
  BY <1>1, <1>2, <1>3, <1>4, <1>5, <1>6, <1>7 DEF c

\* FlattenSeq is what its equations say.
LEMMA FlattenUnfolds ==
  ASSUME NEW V, NEW ss \in Seq(Seq(V)), ss # <<>>
  PROVE  \E f : /\ FlattenSeq(ss) = f[Len(ss)] /\ f[1] = ss[1]
                /\ \A i \in 2 .. Len(ss) : f[i] = f[i - 1] \o ss[i]
<1> DEFINE n == Len(ss)
           E(f) == f = [i \in 1 .. n |-> IF i = 1 THEN ss[i] ELSE f[i - 1] \o ss[i]]
           Upto(f, m) == f[1] = ss[1] /\ \A i \in 2 .. m : f[i] = f[i - 1] \o ss[i]
           P == {m \in Nat : \E f \in [1 .. m + 1 -> Seq(V)] : Upto(f, m + 1)}
<1>1. n \in Nat /\ n >= 1 /\ n # 0 /\ \A i \in 1 .. n : ss[i] \in Seq(V)
  BY ElementsAreMembers
<1>2. 0 \in P
  <2> DEFINE f == [i \in 1 .. 0 + 1 |-> ss[1]]
  <2>1. f \in [1 .. 0 + 1 -> Seq(V)] /\ Upto(f, 0 + 1)
    BY <1>1
  <2> HIDE DEF f, Upto
  <2>2. QED
    BY <2>1
<1>3. ASSUME NEW m \in 0 .. (n - 1) - 1, m \in P PROVE m + 1 \in P
  <2>1. PICK f \in [1 .. m + 1 -> Seq(V)] : Upto(f, m + 1)
    BY <1>3
  <2> DEFINE g == [i \in 1 .. (m + 1) + 1 |-> IF i = m + 2 THEN f[m + 1] \o ss[m + 2] ELSE f[i]]
  <2>2. m + 1 \in Nat /\ m + 2 \in 1 .. n /\ (m + 1) + 1 = m + 2
    BY <1>1
  <2>3. g \in [1 .. (m + 1) + 1 -> Seq(V)]
    <3>1. f[m + 1] \in Seq(V) /\ ss[m + 2] \in Seq(V)
      BY <1>1, <2>2
    <3>2. f[m + 1] \o ss[m + 2] \in Seq(V)
      BY <3>1, ConcatProperties
    <3>3. \A i \in 1 .. (m + 1) + 1 : i # m + 2 => i \in 1 .. m + 1
      BY <2>2
    <3>4. QED
      BY <3>2, <3>3
  <2>4. g[1] = ss[1]
    BY <2>1, <2>2
  <2>5. ASSUME NEW i \in 2 .. (m + 1) + 1 PROVE g[i] = g[i - 1] \o ss[i]
    <3>1. i \in 1 .. (m + 1) + 1 /\ i - 1 \in 1 .. (m + 1) + 1 /\ i - 1 # m + 2
      BY <2>2
    <3>2. g[i - 1] = f[i - 1]
      BY <3>1
    <3>3. CASE i = m + 2
      <4>1. i - 1 = m + 1
        BY <2>2, <3>3
      <4>2. QED
        BY <3>1, <3>2, <3>3, <4>1
    <3>4. CASE i # m + 2
      <4>1. i \in 2 .. m + 1
        BY <2>2, <3>4
      <4>2. QED
        BY <2>1, <3>1, <3>2, <3>4, <4>1
    <3>5. QED
      BY <3>3, <3>4
  <2> HIDE DEF g
  <2>6. QED
    BY <2>2, <2>3, <2>4, <2>5
<1>4. n - 1 \in P
  <2>1. n - 1 \in Nat /\ n - 1 \in 0 .. n - 1
    BY <1>1
  <2> HIDE DEF P, n
  <2>2. QED
    BY <1>2, <1>3, <2>1, CountingUp
<1>5. PICK g \in [1 .. n -> Seq(V)] : Upto(g, n)
  <2>1. (n - 1) + 1 = n
    BY <1>1
  <2>2. QED
    BY <1>4, <2>1
<1>6. E(g)
  <2>1. \A i \in 1 .. n : i # 1 => i \in 2 .. n
    BY <1>1
  <2>2. \A i \in 1 .. n : g[i] = IF i = 1 THEN ss[i] ELSE g[i - 1] \o ss[i]
    BY <1>5, <2>1
  <2>3. QED
    BY <2>2
<1>7. FlattenSeq(ss) = (CHOOSE f : E(f))[n]
  BY <1>1 DEF FlattenSeq
<1>8. E(CHOOSE f : E(f))
  <2> HIDE DEF E
  <2> QED BY <1>6
<1>9. PICK f : E(f) /\ FlattenSeq(ss) = f[n]
  <2> HIDE DEF E
  <2> QED BY <1>7, <1>8
<1>10. \A i \in 1 .. n : f[i] = IF i = 1 THEN ss[i] ELSE f[i - 1] \o ss[i]
  BY <1>9
<1>11. f[1] = ss[1] /\ \A i \in 2 .. n : f[i] = f[i - 1] \o ss[i]
  <2>1. 1 \in 1 .. n /\ \A i \in 2 .. n : i \in 1 .. n /\ i # 1
    BY <1>1
  <2>2. QED
    BY <1>10, <2>1
<1>12. QED
  BY <1>9, <1>11

-----------------------------------------------------------------------------
(* Sums over finite sets.                                                  *)

\* What holds of the empty set, and of a set with one element more, holds of every subset.
LEMMA SubsetsGrow ==
  ASSUME NEW T, IsFiniteSet(T), NEW P, {} \in P,
         \A A \in SUBSET T, x \in T : A \in P /\ x \notin A => A \cup {x} \in P
  PROVE  SUBSET T \subseteq P
<1> DEFINE N == {m \in Nat : \A A \in SUBSET T : Cardinality(A) = m => A \in P}
<1>1. \A A \in SUBSET T : IsFiniteSet(A) /\ Cardinality(A) \in 0 .. Cardinality(T)
  <2> TAKE A \in SUBSET T
  <2>1. IsFiniteSet(A) /\ Cardinality(A) <= Cardinality(T)
    BY FS_Subset
  <2>2. Cardinality(A) \in Nat /\ Cardinality(T) \in Nat
    BY <2>1, FS_CardinalityType
  <2>3. QED
    BY <2>1, <2>2
<1>2. 0 \in N
  <2>1. \A A \in SUBSET T : Cardinality(A) = 0 => A = {}
    BY <1>1, FS_EmptySet
  <2>2. QED
    BY <2>1
<1>3. ASSUME NEW m \in 0 .. Cardinality(T) - 1, m \in N PROVE m + 1 \in N
  <2>1. ASSUME NEW A \in SUBSET T, Cardinality(A) = m + 1 PROVE A \in P
    <3>1. m \in Nat /\ m + 1 # 0
      OBVIOUS
    <3>2. A # {}
      BY <2>1, <3>1, FS_EmptySet
    <3>3. PICK x \in A : TRUE
      BY <3>2
    <3>4. Cardinality(A \ {x}) = m
      <4>1. IsFiniteSet(A) /\ x \in A
        BY <1>1, <3>3
      <4>2. Cardinality(A \ {x}) = Cardinality(A) - 1
        BY <4>1, FS_RemoveElement
      <4>3. QED
        BY <2>1, <3>1, <4>2
    <3>5. A \ {x} \in P /\ A \ {x} \in SUBSET T
      BY <1>3, <3>4
    <3>6. (A \ {x}) \cup {x} = A /\ x \in T
      BY <3>3
    <3>7. QED
      BY <3>5, <3>6
  <2>2. m + 1 \in Nat
    OBVIOUS
  <2>3. QED
    BY <2>1, <2>2
<1>4. Cardinality(T) \in Nat
  BY FS_CardinalityType
<1>5. 0 .. Cardinality(T) \subseteq N
  <2> HIDE DEF N
  <2> QED BY <1>2, <1>3, <1>4, CountingUp
<1>6. ASSUME NEW A \in SUBSET T PROVE A \in P
  <2>1. Cardinality(A) \in N
    BY <1>1, <1>5
  <2>2. QED
    BY <2>1
<1>7. QED
  BY <1>6

\* A function gives for every set what its elements add up to.
SumsUp(g, F, T) ==
  /\ g \in [SUBSET T -> Nat] /\ g[{}] = 0
  /\ \A A \in SUBSET T : \A x \in A : g[A] = F[x] + g[A \ {x}]

\* Two such functions agree where what they add up agrees.
LEMMA SumsAgree ==
  ASSUME NEW T, NEW U, NEW F, NEW H, NEW g, NEW h, SumsUp(g, F, T), SumsUp(h, H, U),
         NEW S, IsFiniteSet(S), S \subseteq T, S \subseteq U, \A x \in S : F[x] = H[x]
  PROVE  g[S] = h[S]
<1> DEFINE P == {A \in SUBSET S : g[A] = h[A]}
<1>1. {} \in P
  BY DEF SumsUp
<1>2. ASSUME NEW A \in SUBSET S, NEW x \in S, A \in P, x \notin A PROVE A \cup {x} \in P
  <2>1. (A \cup {x}) \ {x} = A /\ A \cup {x} \in SUBSET T /\ A \cup {x} \in SUBSET U
    BY <1>2
  <2>2. x \in A \cup {x}
    OBVIOUS
  <2> DEFINE B == A \cup {x}
  <2>3. B \in SUBSET T /\ B \in SUBSET U /\ x \in B /\ B \ {x} = A /\ B \in SUBSET S
    BY <2>1, <2>2
  <2> HIDE DEF B
  <2>4. g[B] = F[x] + g[A] /\ h[B] = H[x] + h[A]
    BY <2>3 DEF SumsUp
  <2>5. g[B] = h[B]
    BY <1>2, <2>4
  <2>6. B \in P
    BY <2>3, <2>5
  <2>7. QED
    BY <2>6 DEF B
<1>3. SUBSET S \subseteq P
  <2> HIDE DEF P
  <2> QED BY <1>1, <1>2, SubsetsGrow
<1>4. QED
  BY <1>3

\* The equation that sums are defined by (Folds).
PicksOne(g, F, T) ==
  g = [A \in SUBSET T |->
         IF A = {} THEN 0 ELSE F[CHOOSE x \in A : TRUE] + g[A \ {CHOOSE x \in A : TRUE}]]

\* It has a solution.
LEMMA SumExists ==
  ASSUME NEW T, IsFiniteSet(T), NEW F \in [T -> Nat]
  PROVE  \E g : PicksOne(g, F, T)
<1> DEFINE c(A) == CHOOSE x \in A : TRUE
           Right(g, A) == g[A] = IF A = {} THEN 0 ELSE F[c(A)] + g[A \ {c(A)}]
           Upto(g, m) == \A A \in SUBSET T : Cardinality(A) <= m => Right(g, A)
           P == {m \in Nat : \E g \in [SUBSET T -> Nat] : Upto(g, m)}
<1>1. \A A \in SUBSET T : IsFiniteSet(A) /\ Cardinality(A) \in Nat /\ Cardinality(A) <= Cardinality(T)
  <2> TAKE A \in SUBSET T
  <2>1. IsFiniteSet(A) /\ Cardinality(A) <= Cardinality(T)
    BY FS_Subset
  <2>2. QED
    BY <2>1, FS_CardinalityType
<1>2. \A A \in SUBSET T : A # {} => c(A) \in A
  OBVIOUS
<1> HIDE DEF c
<1>3. 0 \in P
  <2> DEFINE g == [A \in SUBSET T |-> 0]
  <2>1. g \in [SUBSET T -> Nat]
    OBVIOUS
  <2>2. \A A \in SUBSET T : Cardinality(A) <= 0 => A = {}
    BY <1>1, FS_EmptySet
  <2>3. Upto(g, 0)
    BY <2>2
  <2> HIDE DEF g, Upto
  <2>4. QED
    BY <2>1, <2>3
<1>4. ASSUME NEW m \in 0 .. Cardinality(T) - 1, m \in P PROVE m + 1 \in P
  <2>1. PICK g \in [SUBSET T -> Nat] : Upto(g, m)
    BY <1>4
  <2>2. m \in Nat /\ m + 1 \in Nat
    OBVIOUS
  <2> DEFINE h == [A \in SUBSET T |-> IF Cardinality(A) = m + 1 THEN F[c(A)] + g[A \ {c(A)}] ELSE g[A]]
  <2>3. h \in [SUBSET T -> Nat]
    <3>1. \A A \in SUBSET T : Cardinality(A) = m + 1 => A # {} /\ c(A) \in T /\ A \ {c(A)} \in SUBSET T
      <4> TAKE A \in SUBSET T
      <4>1. Cardinality(A) = m + 1 => A # {}
        <5>1. A = {} => Cardinality(A) = 0
          BY FS_EmptySet
        <5>2. m + 1 # 0
          BY <2>2
        <5>3. QED
          BY <5>1, <5>2
      <4>2. QED
        BY <4>1, <1>2
    <3>2. QED
      BY <3>1
  <2>4. ASSUME NEW A \in SUBSET T, Cardinality(A) <= m + 1 PROVE Right(h, A)
    <3>1. CASE A = {}
      <4>1. Cardinality(A) = 0
        BY <3>1, FS_EmptySet
      <4>2. h[A] = g[A] /\ Right(g, A)
        BY <4>1, <2>1, <2>2
      <4>3. QED
        BY <3>1, <4>2
    <3>2. CASE A # {}
      <4> DEFINE B == A \ {c(A)}
      <4>1. c(A) \in A /\ B \in SUBSET T
        BY <1>2, <3>2
      <4>2. Cardinality(B) = Cardinality(A) - 1
        <5>1. IsFiniteSet(A)
          BY <1>1
        <5>2. \A x : Cardinality(A \ {x}) = IF x \in A THEN Cardinality(A) - 1 ELSE Cardinality(A)
          BY <5>1, FS_RemoveElement
        <5>3. QED
          BY <4>1, <5>2
      <4>3. Cardinality(B) # m + 1 /\ Cardinality(B) <= m
        BY <1>1, <2>2, <2>4, <4>2
      <4> HIDE DEF B
      <4>4. h[B] = g[B]
        BY <4>1, <4>3
      <4>5. CASE Cardinality(A) = m + 1
        BY <3>2, <4>4, <4>5 DEF B
      <4>6. CASE Cardinality(A) # m + 1
        <5>1. h[A] = g[A] /\ Right(g, A)
          BY <1>1, <2>1, <2>2, <2>4, <4>6
        <5>2. QED
          BY <3>2, <4>4, <5>1 DEF B
      <4>7. QED
        BY <4>5, <4>6
    <3>3. QED
      BY <3>1, <3>2
  <2>5. Upto(h, m + 1)
    BY <2>4
  <2> HIDE DEF h, Upto
  <2>6. QED
    BY <2>2, <2>3, <2>5
<1>5. Cardinality(T) \in Nat /\ Cardinality(T) \in 0 .. Cardinality(T)
  BY FS_CardinalityType
<1>6. Cardinality(T) \in P
  <2> HIDE DEF P
  <2> QED BY <1>3, <1>4, <1>5, CountingUp
<1>7. PICK g \in [SUBSET T -> Nat] : Upto(g, Cardinality(T))
  BY <1>6
<1>8. \A A \in SUBSET T : Right(g, A)
  BY <1>1, <1>7
<1>9. g = [A \in SUBSET T |-> IF A = {} THEN 0 ELSE F[c(A)] + g[A \ {c(A)}]]
  BY <1>8
<1>10. QED
  BY <1>9 DEF PicksOne, c

\* Every solution adds up, in whatever order.
LEMMA SumsInAnyOrder ==
  ASSUME NEW T, IsFiniteSet(T), NEW F \in [T -> Nat], NEW g, PicksOne(g, F, T)
  PROVE  SumsUp(g, F, T)
<1> DEFINE c(A) == CHOOSE x \in A : TRUE
           Right(A) == g[A] = IF A = {} THEN 0 ELSE F[c(A)] + g[A \ {c(A)}]
           Good(A) == g[A] \in Nat /\ \A x \in A : g[A] = F[x] + g[A \ {x}]
           P == {m \in Nat : \A A \in SUBSET T : Cardinality(A) <= m => Good(A)}
<1>1. \A A \in SUBSET T : IsFiniteSet(A) /\ Cardinality(A) \in 0 .. Cardinality(T)
  <2> TAKE A \in SUBSET T
  <2>1. IsFiniteSet(A) /\ Cardinality(A) <= Cardinality(T)
    BY FS_Subset
  <2>2. Cardinality(A) \in Nat /\ Cardinality(T) \in Nat
    BY <2>1, FS_CardinalityType
  <2>3. QED
    BY <2>1, <2>2
<1>2. /\ g = [A \in SUBSET T |-> g[A]]
      /\ \A A \in SUBSET T : Right(A)
  <2>1. g = [A \in SUBSET T |-> IF A = {} THEN 0 ELSE F[c(A)] + g[A \ {c(A)}]]
    BY DEF PicksOne
  <2> DEFINE r(A) == IF A = {} THEN 0 ELSE F[c(A)] + g[A \ {c(A)}]
  <2>2. g = [A \in SUBSET T |-> r(A)]
    BY <2>1
  <2> HIDE DEF r
  <2>3. \A A \in SUBSET T : g[A] = r(A)
    BY <2>2, Zenon
  <2>4. g = [A \in SUBSET T |-> g[A]]
    BY <2>2, Zenon
  <2>5. QED
    BY <2>3, <2>4 DEF r
<1>3. \A A \in SUBSET T : A # {} => c(A) \in A
  OBVIOUS
<1> HIDE DEF c
<1>4. \A A \in SUBSET T : A = {} => Good(A)
  <2>1. {} \in SUBSET T
    OBVIOUS
  <2>2. Right({})
    BY <1>2, <2>1
  <2>3. g[{}] = 0
    BY <2>2
  <2>4. QED
    BY <2>3
<1>5. 0 \in P
  <2>1. \A A \in SUBSET T : Cardinality(A) <= 0 => A = {}
    BY <1>1, FS_EmptySet
  <2> HIDE DEF Good
  <2>2. QED
    BY <1>4, <2>1
<1>6. ASSUME NEW m \in 0 .. Cardinality(T) - 1, m \in P PROVE m + 1 \in P
  <2>1. m \in Nat /\ m + 1 \in Nat
    OBVIOUS
  <2>2. \A B \in SUBSET T : Cardinality(B) <= m => Good(B)
    BY <1>6
  <2>3. \A A \in SUBSET T, x \in T : x \in A /\ Cardinality(A) <= m + 1 => Cardinality(A \ {x}) <= m
    <3> TAKE A \in SUBSET T, x \in T
    <3>1. IsFiniteSet(A) /\ Cardinality(A) \in Nat
      BY <1>1
    <3>2. x \in A => Cardinality(A \ {x}) = Cardinality(A) - 1
      BY <3>1, FS_RemoveElement
    <3>3. QED
      BY <2>1, <3>1, <3>2
  <2>4. ASSUME NEW A \in SUBSET T, Cardinality(A) <= m + 1, A # {} PROVE Good(A)
    <3> DEFINE y == c(A)
    <3>2. y \in A /\ g[A] = F[y] + g[A \ {y}]
      BY <1>2, <1>3, <2>4
    <3> HIDE DEF y
    <3>3. Good(A \ {y})
      BY <2>2, <2>3, <2>4, <3>2
    <3>4. g[A] \in Nat
      BY <3>2, <3>3
    <3>5. ASSUME NEW x \in A PROVE g[A] = F[x] + g[A \ {x}]
      <4>1. CASE x = y
        BY <3>2, <4>1
      <4>2. CASE x # y
        <5>1. Good(A \ {x})
          BY <2>2, <2>3, <2>4
        <5>2. x \in A \ {y} /\ y \in A \ {x} /\ (A \ {y}) \ {x} = (A \ {x}) \ {y}
          BY <3>2, <4>2
        <5>3. g[A \ {y}] = F[x] + g[(A \ {y}) \ {x}]
          BY <3>3, <5>2
        <5>4. g[A \ {x}] = F[y] + g[(A \ {x}) \ {y}]
          BY <5>1, <5>2
        <5>5. g[(A \ {y}) \ {x}] \in Nat
          <6>1. Cardinality(A \ {y}) <= m /\ A \ {y} \in SUBSET T
            BY <2>3, <2>4, <3>2
          <6>2. Cardinality((A \ {y}) \ {x}) <= Cardinality(A \ {y})
            BY <1>1, <6>1, FS_Subset
          <6>3. Cardinality((A \ {y}) \ {x}) \in Int /\ Cardinality(A \ {y}) \in Int
            BY <1>1, <6>1
          <6>4. Cardinality((A \ {y}) \ {x}) <= m
            BY <2>1, <6>1, <6>2, <6>3
          <6>5. QED
            BY <2>2, <6>1, <6>4
        <5>6. F[x] \in Nat /\ F[y] \in Nat
          BY <3>2
        <5> DEFINE d == g[(A \ {y}) \ {x}]
        <5>7. g[A] = F[y] + (F[x] + d) /\ g[A \ {x}] = F[y] + d /\ d \in Nat
          BY <3>2, <5>2, <5>3, <5>4, <5>5
        <5> HIDE DEF d
        <5>8. QED
          BY <5>6, <5>7
      <4>3. QED
        BY <4>1, <4>2
    <3>6. QED
      BY <3>4, <3>5
  <2> HIDE DEF Good
  <2>5. QED
    BY <1>4, <2>1, <2>4
<1>7. Cardinality(T) \in Nat /\ Cardinality(T) \in 0 .. Cardinality(T)
  BY FS_CardinalityType
<1>8. Cardinality(T) \in P
  <2> HIDE DEF P
  <2> QED BY <1>5, <1>6, <1>7, CountingUp
<1>9. \A A \in SUBSET T : Good(A)
  BY <1>1, <1>8
<1>10. {} \in SUBSET T /\ g[{}] = 0
  BY <1>2
<1>11. g \in [SUBSET T -> Nat]
  <2>1. \A A \in SUBSET T : g[A] \in Nat
    BY <1>9
  <2>2. [A \in SUBSET T |-> g[A]] \in [SUBSET T -> Nat]
    BY <2>1
  <2>3. QED
    BY <1>2, <2>2, Zenon
<1>12. QED
  BY <1>9, <1>10, <1>11 DEF SumsUp

\* With an element more, a sum is more by what it stands for.
LEMMA SumOfOneMore ==
  ASSUME NEW T, NEW F, NEW g, SumsUp(g, F, T), NEW A \in SUBSET T, NEW x \in T, x \notin A
  PROVE  g[A \cup {x}] = F[x] + g[A]
<1> DEFINE B == A \cup {x}
<1>1. B \in SUBSET T /\ x \in B /\ B \ {x} = A
  OBVIOUS
<1> HIDE DEF B
<1>2. g[B] = F[x] + g[A]
  BY <1>1 DEF SumsUp
<1>3. QED
  BY <1>2 DEF B

\* The sum of a function over a set.
Total(F, S) == MapThenSumSet(LAMBDA x : F[x], S)

\* It is what a function that adds up gives for the set.
LEMMA TotalIsSum ==
  ASSUME NEW T, IsFiniteSet(T), NEW F \in [T -> Nat], NEW g, SumsUp(g, F, T), NEW S \in SUBSET T
  PROVE  Total(F, S) = g[S]
<1> DEFINE E(f) == f = [A \in SUBSET S |->
             IF A = {} THEN 0 ELSE F[CHOOSE x \in A : TRUE] + f[A \ {CHOOSE x \in A : TRUE}]]
           H == [x \in S |-> F[x]]
<1>1. IsFiniteSet(S) /\ H \in [S -> Nat]
  BY FS_Subset
<1>2. PICK h : PicksOne(h, H, S)
  <2> HIDE DEF H
  <2> QED BY <1>1, SumExists
<1>3. E(h)
  <2>1. \A A \in SUBSET S : A # {} => (CHOOSE x \in A : TRUE) \in S
    OBVIOUS
  <2>2. QED
    BY <1>2, <2>1 DEF PicksOne
<1>4. Total(F, S) = (CHOOSE f : E(f))[S]
  BY DEF Total, MapThenSumSet, MapThenFoldSet
<1>5. E(CHOOSE f : E(f))
  <2> HIDE DEF E
  <2> QED BY <1>3
<1>6. PICK f : E(f) /\ Total(F, S) = f[S]
  BY <1>4, <1>5
<1>7. PicksOne(f, H, S)
  <2>1. \A A \in SUBSET S : A # {} => (CHOOSE x \in A : TRUE) \in S
    OBVIOUS
  <2>2. QED
    BY <1>6, <2>1 DEF PicksOne
<1>8. \A x \in S : H[x] = F[x]
  OBVIOUS
<1> HIDE DEF H
<1>9. SumsUp(f, H, S)
  BY <1>1, <1>7, SumsInAnyOrder
<1>10. f[S] = g[S]
  BY <1>1, <1>8, <1>9, SumsAgree
<1>11. QED
  BY <1>6, <1>10

-----------------------------------------------------------------------------
(* Sums of the values of functions.                                        *)

\* SumFunction is what a function that adds up gives for the whole domain.
LEMMA SumIsSum ==
  ASSUME NEW T, IsFiniteSet(T), NEW F \in [T -> Nat]
  PROVE  \E g : SumsUp(g, F, T) /\ SumFunction(F) = g[T]
<1> DEFINE E(f) == f = [A \in SUBSET T |->
             IF A = {} THEN 0 ELSE F[CHOOSE x \in A : TRUE] + f[A \ {CHOOSE x \in A : TRUE}]]
<1>1. \E f : E(f)
  <2>1. PICK f : PicksOne(f, F, T)
    BY SumExists
  <2>2. E(f)
    BY <2>1 DEF PicksOne
  <2> HIDE DEF E
  <2>3. QED
    BY <2>2
<1>2. DOMAIN F = T
  OBVIOUS
<1>3. SumFunction(F) = (CHOOSE f : E(f))[T]
  BY <1>2 DEF SumFunction, SumFunctionOnSet, FoldFunctionOnSet, MapThenFoldSet
<1>4. E(CHOOSE f : E(f))
  <2> HIDE DEF E
  <2> QED BY <1>1
<1>5. PICK f : E(f) /\ SumFunction(F) = f[T]
  BY <1>3, <1>4
<1>6. PicksOne(f, F, T)
  BY <1>5 DEF PicksOne
<1>7. SumsUp(f, F, T)
  BY <1>6, SumsInAnyOrder
<1>8. QED
  BY <1>5, <1>7

\* A sum of natural numbers is one.
LEMMA SumIsNumber ==
  ASSUME NEW T, IsFiniteSet(T), NEW F \in [T -> Nat]
  PROVE  SumFunction(F) \in Nat
<1>1. PICK g : SumsUp(g, F, T) /\ SumFunction(F) = g[T]
  BY SumIsSum
<1>2. T \in SUBSET T
  OBVIOUS
<1>3. QED
  BY <1>1, <1>2 DEF SumsUp

\* Values that together are at most those of two other functions.
LEMMA SumsAtMost ==
  ASSUME NEW T, IsFiniteSet(T), NEW F \in [T -> Nat], NEW G \in [T -> Nat], NEW H \in [T -> Nat],
         \A x \in T : F[x] <= G[x] + H[x]
  PROVE  SumFunction(F) <= SumFunction(G) + SumFunction(H)
<1>1. PICK f : SumsUp(f, F, T) /\ SumFunction(F) = f[T]
  BY SumIsSum
<1>2. PICK g : SumsUp(g, G, T) /\ SumFunction(G) = g[T]
  BY SumIsSum
<1>3. PICK h : SumsUp(h, H, T) /\ SumFunction(H) = h[T]
  BY SumIsSum
<1> DEFINE P == {A \in SUBSET T : f[A] <= g[A] + h[A]}
<1>4. {} \in P
  BY <1>1, <1>2, <1>3 DEF SumsUp
<1>5. ASSUME NEW A \in SUBSET T, NEW x \in T, A \in P, x \notin A PROVE A \cup {x} \in P
  <2>1. /\ f[A \cup {x}] = F[x] + f[A]
        /\ g[A \cup {x}] = G[x] + g[A]
        /\ h[A \cup {x}] = H[x] + h[A]
    <3> HIDE DEF P
    <3>1. f[A \cup {x}] = F[x] + f[A]
      BY <1>1, <1>5, SumOfOneMore
    <3>2. g[A \cup {x}] = G[x] + g[A]
      BY <1>2, <1>5, SumOfOneMore
    <3>3. h[A \cup {x}] = H[x] + h[A]
      BY <1>3, <1>5, SumOfOneMore
    <3>4. QED
      BY <3>1, <3>2, <3>3
  <2>2. f[A] \in Nat /\ g[A] \in Nat /\ h[A] \in Nat
    BY <1>1, <1>2, <1>3 DEF SumsUp
  <2>3. F[x] \in Nat /\ G[x] \in Nat /\ H[x] \in Nat /\ F[x] <= G[x] + H[x] /\ f[A] <= g[A] + h[A]
    BY <1>5
  <2> DEFINE B == A \cup {x}
  <2>4. f[B] = F[x] + f[A] /\ g[B] = G[x] + g[A] /\ h[B] = H[x] + h[A] /\ B \in SUBSET T
    BY <2>1
  <2> HIDE DEF B
  <2>5. f[B] <= g[B] + h[B]
    BY <2>2, <2>3, <2>4
  <2>6. B \in P
    BY <2>4, <2>5
  <2>7. QED
    BY <2>6 DEF B
<1>6. T \in P
  <2> HIDE DEF P
  <2> QED BY <1>4, <1>5, SubsetsGrow
<1>7. QED
  BY <1>1, <1>2, <1>3, <1>6

\* Values that are at least those of two other functions together.
LEMMA SumsAtLeast ==
  ASSUME NEW T, IsFiniteSet(T), NEW F \in [T -> Nat], NEW G \in [T -> Nat], NEW H \in [T -> Nat],
         \A x \in T : G[x] + H[x] <= F[x]
  PROVE  SumFunction(G) + SumFunction(H) <= SumFunction(F)
<1>1. PICK f : SumsUp(f, F, T) /\ SumFunction(F) = f[T]
  BY SumIsSum
<1>2. PICK g : SumsUp(g, G, T) /\ SumFunction(G) = g[T]
  BY SumIsSum
<1>3. PICK h : SumsUp(h, H, T) /\ SumFunction(H) = h[T]
  BY SumIsSum
<1> DEFINE P == {A \in SUBSET T : g[A] + h[A] <= f[A]}
<1>4. {} \in P
  BY <1>1, <1>2, <1>3 DEF SumsUp
<1>5. ASSUME NEW A \in SUBSET T, NEW x \in T, A \in P, x \notin A PROVE A \cup {x} \in P
  <2>1. /\ f[A \cup {x}] = F[x] + f[A]
        /\ g[A \cup {x}] = G[x] + g[A]
        /\ h[A \cup {x}] = H[x] + h[A]
    <3> HIDE DEF P
    <3>1. f[A \cup {x}] = F[x] + f[A]
      BY <1>1, <1>5, SumOfOneMore
    <3>2. g[A \cup {x}] = G[x] + g[A]
      BY <1>2, <1>5, SumOfOneMore
    <3>3. h[A \cup {x}] = H[x] + h[A]
      BY <1>3, <1>5, SumOfOneMore
    <3>4. QED
      BY <3>1, <3>2, <3>3
  <2>2. f[A] \in Nat /\ g[A] \in Nat /\ h[A] \in Nat
    BY <1>1, <1>2, <1>3 DEF SumsUp
  <2>3. F[x] \in Nat /\ G[x] \in Nat /\ H[x] \in Nat /\ G[x] + H[x] <= F[x] /\ g[A] + h[A] <= f[A]
    BY <1>5
  <2> DEFINE B == A \cup {x}
  <2>4. f[B] = F[x] + f[A] /\ g[B] = G[x] + g[A] /\ h[B] = H[x] + h[A] /\ B \in SUBSET T
    BY <2>1
  <2> HIDE DEF B
  <2>5. g[B] + h[B] <= f[B]
    BY <2>2, <2>3, <2>4
  <2>6. B \in P
    BY <2>4, <2>5
  <2>7. QED
    BY <2>6 DEF B
<1>6. T \in P
  <2> HIDE DEF P
  <2> QED BY <1>4, <1>5, SubsetsGrow
<1>7. QED
  BY <1>1, <1>2, <1>3, <1>6

\* A common factor.
LEMMA SumScaled ==
  ASSUME NEW T, IsFiniteSet(T), NEW F \in [T -> Nat], NEW G \in [T -> Nat], NEW c \in Nat,
         \A x \in T : F[x] = c * G[x]
  PROVE  SumFunction(F) = c * SumFunction(G)
<1>1. PICK f : SumsUp(f, F, T) /\ SumFunction(F) = f[T]
  BY SumIsSum
<1>2. PICK g : SumsUp(g, G, T) /\ SumFunction(G) = g[T]
  BY SumIsSum
<1> DEFINE P == {A \in SUBSET T : f[A] = c * g[A]}
<1>3. {} \in P
  BY <1>1, <1>2 DEF SumsUp
<1>4. ASSUME NEW A \in SUBSET T, NEW x \in T, A \in P, x \notin A PROVE A \cup {x} \in P
  <2> DEFINE B == A \cup {x}
  <2>1. f[B] = F[x] + f[A] /\ g[B] = G[x] + g[A] /\ B \in SUBSET T
    BY <1>1, <1>2, <1>4, SumOfOneMore
  <2>2. g[A] \in Nat /\ G[x] \in Nat
    BY <1>2 DEF SumsUp
  <2>3. F[x] = c * G[x] /\ f[A] = c * g[A]
    BY <1>4
  <2> HIDE DEF B
  <2>4. \A m, n \in Nat : c * m + c * n = c * (m + n)
    OBVIOUS
  <2>5. f[B] = c * g[B]
    BY <2>1, <2>2, <2>3, <2>4
  <2>6. B \in P
    BY <2>1, <2>5
  <2>7. QED
    BY <2>6 DEF B
<1>5. T \in P
  <2> HIDE DEF P
  <2> QED BY <1>3, <1>4, SubsetsGrow
<1>6. QED
  BY <1>1, <1>2, <1>5

\* Values of zero do not count.
ZeroBeyond(F, T, G, S) ==
  /\ IsFiniteSet(T) /\ S \subseteq T
  /\ F \in [T -> Nat] /\ G \in [S -> Nat]
  /\ (\A x \in S : F[x] = G[x]) /\ \A x \in T \ S : F[x] = 0

LEMMA SumWithin ==
  ASSUME NEW T, NEW F, NEW S, NEW G, ZeroBeyond(F, T, G, S)
  PROVE  SumFunction(F) = SumFunction(G)
<1> USE DEF ZeroBeyond
<1>1. IsFiniteSet(S)
  BY FS_Subset
<1>2. PICK f : SumsUp(f, F, T) /\ SumFunction(F) = f[T]
  BY SumIsSum
<1>3. PICK g : SumsUp(g, G, S) /\ SumFunction(G) = g[S]
  BY <1>1, SumIsSum
<1> DEFINE P == {A \in SUBSET T : f[A] = g[A \cap S]}
<1>4. {} \in P
  <2>1. {} \cap S = {} /\ f[{}] = 0 /\ g[{}] = 0
    BY <1>2, <1>3 DEF SumsUp
  <2>2. QED
    BY <2>1
<1>5. ASSUME NEW A \in SUBSET T, NEW x \in T, A \in P, x \notin A PROVE A \cup {x} \in P
  <2> DEFINE B == A \cup {x}
             C == A \cap S
  <2>1. f[B] = F[x] + f[A] /\ B \in SUBSET T /\ f[A] = g[C] /\ C \in SUBSET S /\ x \notin C
    <3>1. f[B] = F[x] + f[A]
      BY <1>2, <1>5, SumOfOneMore
    <3>2. QED
      BY <1>5, <3>1
  <2>2. g[C] \in Nat
    BY <1>3 DEF SumsUp
  <2>3. CASE x \in S
    <3>1. g[C \cup {x}] = G[x] + g[C] /\ B \cap S = C \cup {x}
      <4> HIDE DEF C
      <4>1. g[C \cup {x}] = G[x] + g[C]
        BY <1>3, <2>1, <2>3, SumOfOneMore
      <4>2. B \cap S = C \cup {x}
        BY <2>3 DEF C
      <4>3. QED
        BY <4>1, <4>2
    <3> HIDE DEF B, C
    <3>2. f[B] = g[B \cap S]
      BY <2>1, <2>3, <3>1
    <3>3. QED
      BY <2>1, <3>2 DEF B
  <2>4. CASE x \notin S
    <3>1. B \cap S = C /\ F[x] = 0
      BY <2>4
    <3> HIDE DEF B, C
    <3>2. f[B] = g[B \cap S]
      BY <2>1, <2>2, <3>1
    <3>3. QED
      BY <2>1, <3>2 DEF B
  <2>5. QED
    BY <2>3, <2>4
<1>6. T \in P
  <2> HIDE DEF P
  <2> QED BY <1>4, <1>5, SubsetsGrow
<1>7. T \cap S = S
  OBVIOUS
<1>8. QED
  BY <1>2, <1>3, <1>6, <1>7

\* A value is not more than the sum.
LEMMA SumHasMember ==
  ASSUME NEW T, IsFiniteSet(T), NEW F \in [T -> Nat], NEW x \in T
  PROVE  F[x] <= SumFunction(F)
<1>1. PICK f : SumsUp(f, F, T) /\ SumFunction(F) = f[T]
  BY SumIsSum
<1>2. f[T] = F[x] + f[T \ {x}] /\ f[T \ {x}] \in Nat
  BY <1>1 DEF SumsUp
<1>3. QED
  BY <1>1, <1>2

\* The same value everywhere.
LEMMA SumOfConstant ==
  ASSUME NEW T, IsFiniteSet(T), NEW c \in Nat, NEW F \in [T -> Nat], \A x \in T : F[x] = c
  PROVE  SumFunction(F) = Cardinality(T) * c
<1>1. PICK f : SumsUp(f, F, T) /\ SumFunction(F) = f[T]
  BY SumIsSum
<1> DEFINE P == {A \in SUBSET T : f[A] = Cardinality(A) * c}
<1>2. {} \in P
  <2>1. f[{}] = 0 /\ Cardinality({}) = 0
    BY <1>1, FS_EmptySet DEF SumsUp
  <2>2. QED
    BY <2>1
<1>3. ASSUME NEW A \in SUBSET T, NEW x \in T, A \in P, x \notin A PROVE A \cup {x} \in P
  <2> DEFINE B == A \cup {x}
  <2>1. f[B] = F[x] + f[A] /\ B \in SUBSET T
    <3>1. B \in SUBSET T /\ x \in B /\ B \ {x} = A
      BY <1>3
    <3> HIDE DEF P, B
    <3>2. f[B] = F[x] + f[B \ {x}]
      BY <1>1, <3>1 DEF SumsUp
    <3>3. QED
      BY <3>1, <3>2
  <2>2. IsFiniteSet(A) /\ Cardinality(A) \in Nat
    BY FS_Subset, FS_CardinalityType
  <2>3. Cardinality(B) = Cardinality(A) + 1
    BY <1>3, <2>2, FS_AddElement
  <2>4. F[x] = c /\ f[A] = Cardinality(A) * c
    BY <1>3
  <2> HIDE DEF B
  <2>5. \A n \in Nat : c + n * c = (n + 1) * c
    OBVIOUS
  <2>6. f[B] = Cardinality(B) * c
    BY <2>1, <2>2, <2>3, <2>4, <2>5
  <2>7. B \in P
    BY <2>1, <2>6
  <2>8. QED
    BY <2>7 DEF B
<1>4. T \in P
  <2> HIDE DEF P
  <2> QED BY <1>2, <1>3, SubsetsGrow
<1>5. QED
  BY <1>1, <1>4

\* The sum of sums, and that of smaller numbers.
LEMMA SumPlus ==
  ASSUME NEW T, IsFiniteSet(T), NEW F \in [T -> Nat], NEW G \in [T -> Nat], NEW H \in [T -> Nat],
         \A x \in T : F[x] = G[x] + H[x]
  PROVE  SumFunction(F) = SumFunction(G) + SumFunction(H)
<1>1. (\A x \in T : F[x] <= G[x] + H[x]) /\ \A x \in T : G[x] + H[x] <= F[x]
  OBVIOUS
<1>2. SumFunction(F) <= SumFunction(G) + SumFunction(H)
  BY <1>1, SumsAtMost
<1>3. SumFunction(G) + SumFunction(H) <= SumFunction(F)
  BY <1>1, SumsAtLeast
<1>4. SumFunction(F) \in Nat /\ SumFunction(G) \in Nat /\ SumFunction(H) \in Nat
  BY SumIsNumber
<1>5. QED
  BY <1>2, <1>3, <1>4

LEMMA SumLess ==
  ASSUME NEW T, IsFiniteSet(T), NEW F \in [T -> Nat], NEW G \in [T -> Nat],
         \A x \in T : F[x] <= G[x]
  PROVE  SumFunction(F) <= SumFunction(G)
<1> DEFINE Z == [x \in T |-> 0]
<1>1. Z \in [T -> Nat] /\ \A x \in T : Z[x] = 0
  OBVIOUS
<1> HIDE DEF Z
<1>2. \A x \in T : F[x] <= G[x] + Z[x]
  BY <1>1
<1>3. SumFunction(F) <= SumFunction(G) + SumFunction(Z)
  BY <1>1, <1>2, SumsAtMost
<1>4. SumFunction(Z) = 0
  <2>1. 0 \in Nat /\ Cardinality(T) \in Nat
    BY FS_CardinalityType
  <2>2. SumFunction(Z) = Cardinality(T) * 0
    BY <1>1, <2>1, SumOfConstant
  <2>3. QED
    BY <2>1, <2>2
<1>5. SumFunction(F) \in Nat /\ SumFunction(G) \in Nat
  BY SumIsNumber
<1>6. QED
  BY <1>3, <1>4, <1>5

\* A table adds up to the same by lines and by columns.
SumsOf(r, t, T, U) == t \in [T -> [U -> Nat]] /\ r \in [T -> Nat] /\ \A x \in T : r[x] = SumFunction(t[x])

Table(t, s, r, c, T, U) ==
  /\ IsFiniteSet(T) /\ IsFiniteSet(U)
  /\ SumsOf(r, t, T, U) /\ SumsOf(c, s, U, T)
  /\ \A x \in T, y \in U : s[y][x] = t[x][y]

LEMMA SumsSwap ==
  ASSUME NEW T, NEW U, NEW t, NEW s, NEW r, NEW c, Table(t, s, r, c, T, U)
  PROVE  SumFunction(r) = SumFunction(c)
<1>0. /\ \A x \in T, y \in U : s[y][x] = t[x][y]
      /\ \A x \in T : r[x] = SumFunction(t[x])
      /\ \A y \in U : c[y] = SumFunction(s[y])
      /\ t \in [T -> [U -> Nat]] /\ r \in [T -> Nat]
      /\ s \in [U -> [T -> Nat]] /\ c \in [U -> Nat]
      /\ IsFiniteSet(T) /\ IsFiniteSet(U)
  BY DEF Table, SumsOf
<1>1. PICK a : SumsUp(a, r, T) /\ SumFunction(r) = a[T]
  BY <1>0, SumIsSum
<1>2. \A y \in U : \E g : SumsUp(g, s[y], T) /\ c[y] = g[T]
  BY <1>0, SumIsSum
<1> DEFINE part == [y \in U |-> CHOOSE g : SumsUp(g, s[y], T) /\ c[y] = g[T]]
<1>3. \A y \in U : SumsUp(part[y], s[y], T) /\ c[y] = part[y][T]
  BY <1>2
<1> HIDE DEF part
<1> DEFINE Col(A) == [y \in U |-> part[y][A]]
           P == {A \in SUBSET T : a[A] = SumFunction(Col(A))}
<1>4. \A A \in SUBSET T : Col(A) \in [U -> Nat]
  BY <1>0, <1>3 DEF SumsUp
<1>5. {} \in P
  <2>1. \A y \in U : Col({})[y] = 0
    BY <1>3 DEF SumsUp
  <2>2. Col({}) \in [U -> Nat]
    BY <1>4
  <2> HIDE DEF Col
  <2>3. SumFunction(Col({})) = Cardinality(U) * 0
    BY <1>0, <2>1, <2>2, SumOfConstant
  <2>4. a[{}] = 0
    BY <1>1 DEF SumsUp
  <2>5. Cardinality(U) \in Nat
    BY <1>0, FS_CardinalityType
  <2>6. SumFunction(Col({})) = 0
    BY <2>3, <2>5
  <2>7. QED
    BY <2>4, <2>6
<1>6. ASSUME NEW A \in SUBSET T, NEW x \in T, A \in P, x \notin A PROVE A \cup {x} \in P
  <2> DEFINE B == A \cup {x}
  <2>1. a[A] = SumFunction(Col(A)) /\ B \in SUBSET T
    BY <1>6
  <2>2. a[B] = r[x] + a[A]
    <3>1. B \in SUBSET T /\ x \in B /\ B \ {x} = A
      BY <1>6
    <3> HIDE DEF P, Col, B
    <3>2. a[B] = r[x] + a[B \ {x}]
      BY <1>1, <3>1 DEF SumsUp
    <3>3. QED
      BY <3>1, <3>2
  <2>3. \A y \in U : part[y][B] = t[x][y] + part[y][A]
    <3> HIDE DEF P, Col
    <3> TAKE y \in U
    <3>1. PICK g : g = part[y]
      OBVIOUS
    <3>2. PICK F : F = s[y]
      OBVIOUS
    <3>3. SumsUp(g, F, T)
      BY <1>3, <3>1, <3>2
    <3>4. B \in SUBSET T /\ x \in B /\ B \ {x} = A
      BY <1>6
    <3> HIDE DEF B
    <3>5. g[B] = F[x] + g[B \ {x}]
      BY <3>3, <3>4 DEF SumsUp
    <3>6. QED
      BY <1>0, <3>1, <3>2, <3>4, <3>5
  <2>4. \A y \in U : Col(B)[y] = t[x][y] + Col(A)[y]
    BY <2>3
  <2>5. Col(A) \in [U -> Nat] /\ Col(B) \in [U -> Nat] /\ t[x] \in [U -> Nat]
    BY <1>0, <1>4, <2>1
  <2>6. PICK F \in [U -> Nat], G \in [U -> Nat], H \in [U -> Nat] : F = Col(B) /\ G = t[x] /\ H = Col(A)
    BY <2>5
  <2>7. \A y \in U : F[y] <= G[y] + H[y] /\ G[y] + H[y] <= F[y]
    <3>1. \A y \in U : F[y] = G[y] + H[y]
      BY <2>4, <2>6
    <3>2. \A y \in U : F[y] \in Nat /\ G[y] \in Nat /\ H[y] \in Nat
      OBVIOUS
    <3>3. QED
      BY <3>1, <3>2
  <2>8. SumFunction(F) <= SumFunction(G) + SumFunction(H)
    BY <1>0, <2>7, SumsAtMost
  <2>9. SumFunction(G) + SumFunction(H) <= SumFunction(F)
    BY <1>0, <2>7, SumsAtLeast
  <2>10. a[B] = SumFunction(Col(B))
    <3>1. SumFunction(F) \in Nat /\ SumFunction(G) \in Nat /\ SumFunction(H) \in Nat
      BY <1>0, SumIsNumber
    <3>2. a[B] = SumFunction(G) + SumFunction(H)
      <4> HIDE DEF Col
      <4>1. r[x] = SumFunction(G) /\ a[A] = SumFunction(H)
        BY <1>0, <2>1, <2>6
      <4>2. QED
        BY <2>2, <4>1
    <3>3. \A l, m, n, k \in Nat : l <= m + n /\ m + n <= l /\ k = m + n => k = l
      OBVIOUS
    <3>4. a[B] = SumFunction(F)
      <4> HIDE DEF B
      <4>1. a[B] \in Nat
        BY <3>1, <3>2
      <4>2. QED
        BY <2>8, <2>9, <3>1, <3>2, <3>3, <4>1
    <3>5. QED
      BY <2>6, <3>4
  <2>11. B \in P
    BY <2>1, <2>10
  <2>12. QED
    BY <2>11
<1>7. T \in P
  <2> HIDE DEF P
  <2> QED BY <1>0, <1>5, <1>6, SubsetsGrow
<1>8. Col(T) = c
  BY <1>0, <1>3
<1>9. QED
  BY <1>1, <1>7, <1>8

\* Applying the functions H[1], .., H[n], one after the other.
Applies(f, b, H, n) == f[0] = b /\ \A k \in 1 .. n : f[k] = H[k][f[k - 1]]

\* They can be applied one after the other.
LEMMA AppliesExist ==
  ASSUME NEW T, NEW b \in T, NEW n \in Nat, NEW H \in [1 .. n -> [T -> T]]
  PROVE  \E f \in [0 .. n -> T] : Applies(f, b, H, n)
<1> DEFINE P == {m \in Nat : \E f \in [0 .. m -> T] : Applies(f, b, H, m)}
<1>1. 0 \in P
  <2> DEFINE f == [k \in 0 .. 0 |-> b]
  <2>1. f \in [0 .. 0 -> T] /\ Applies(f, b, H, 0)
    BY DEF Applies
  <2> HIDE DEF f
  <2>2. QED
    BY <2>1
<1>2. ASSUME NEW m \in 0 .. n - 1, m \in P PROVE m + 1 \in P
  <2>1. PICK f \in [0 .. m -> T] : Applies(f, b, H, m)
    BY <1>2
  <2>2. m \in Nat /\ m + 1 \in Nat /\ m + 1 \in 1 .. n /\ (m + 1) - 1 = m
    OBVIOUS
  <2>3. H[m + 1][f[m]] \in T
    BY <2>1, <2>2
  <2> DEFINE g == [k \in 0 .. m + 1 |-> IF k = m + 1 THEN H[m + 1][f[m]] ELSE f[k]]
  <2>4. g \in [0 .. m + 1 -> T] /\ g[0] = b
    BY <2>1, <2>2, <2>3 DEF Applies
  <2>5. ASSUME NEW k \in 1 .. m + 1 PROVE g[k] = H[k][g[k - 1]]
    <3>1. k - 1 \in 0 .. m /\ k \in 0 .. m + 1 /\ k - 1 \in 0 .. m + 1 /\ k - 1 # m + 1
      BY <2>2
    <3>2. CASE k = m + 1
      BY <2>2, <3>1, <3>2
    <3>3. CASE k # m + 1
      <4>1. k \in 1 .. m
        BY <2>2, <3>3
      <4>2. QED
        BY <2>1, <3>1, <3>3, <4>1 DEF Applies
    <3>4. QED
      BY <3>2, <3>3
  <2> HIDE DEF g
  <2>6. Applies(g, b, H, m + 1)
    BY <2>4, <2>5 DEF Applies
  <2>7. QED
    BY <2>2, <2>4, <2>6
<1>3. n \in P
  <2>1. n \in 0 .. n
    OBVIOUS
  <2> HIDE DEF P
  <2> QED BY <1>1, <1>2, <2>1, CountingUp
<1>4. QED
  BY <1>3

\* The greatest of some of the numbers up to n.
LEMMA MaxOfSome ==
  ASSUME NEW n \in Nat, NEW S \in SUBSET (1 .. n), S # {}
  PROVE  /\ Max(S) \in S /\ Max(S) \in 1 .. n /\ \A k \in S : k <= Max(S)
         /\ S \ {Max(S)} \in SUBSET (1 .. n)
<1>1. PICK m \in S : \A k \in S : k <= m
  <2>1. S \in SUBSET Nat /\ \A x \in S : x <= n
    OBVIOUS
  <2>2. QED
    BY <2>1, GreatestNumber
<1>2. \A k \in S : m >= k
  BY <1>1
<1>3. Max(S) \in S /\ \A k \in S : Max(S) >= k
  BY <1>2, Zenon DEF Max
<1>4. QED
  BY <1>3

\* The greatest of the first numbers is the last one.
LEMMA MaxOfAll ==
  ASSUME NEW n \in Nat, NEW k \in 1 .. n
  PROVE  Max(1 .. k) = k /\ (1 .. k) \ {k} = 1 .. k - 1 /\ 1 .. k # {} /\ 1 .. k \in SUBSET (1 .. n)
<1>1. k \in 1 .. k /\ 1 .. k \in SUBSET (1 .. n) /\ 1 .. k # {}
  OBVIOUS
<1>2. Max(1 .. k) \in 1 .. k /\ k <= Max(1 .. k)
  BY <1>1, MaxOfSome
<1>3. (1 .. k) \ {k} = 1 .. k - 1
  OBVIOUS
<1>4. QED
  BY <1>1, <1>2, <1>3

\* The function that MapThenFoldSet defines, as it is over the places of a sequence, from
\* the greatest one down.
Folds(g, b, H, n) ==
  g[{}] = b /\ \A S \in SUBSET (1 .. n) : S # {} => g[S] = H[Max(S)][g[S \ {Max(S)}]]

\* There is such a function: at every set, applying the functions of its places in their order.
LEMMA FoldsExist ==
  ASSUME NEW T, NEW b \in T, NEW n \in Nat, NEW H \in [1 .. n -> [T -> T]]
  PROVE  \E g \in [SUBSET (1 .. n) -> T] : Folds(g, b, H, n)
<1> DEFINE K(S) == [k \in 1 .. n |-> IF k \in S THEN H[k] ELSE [x \in T |-> x]]
           Is(S, f) == f \in [0 .. n -> T] /\ Applies(f, b, K(S), n)
           G(S) == CHOOSE f : Is(S, f)
           g == [S \in SUBSET (1 .. n) |-> G(S)[n]]
<1>1. ASSUME NEW S \in SUBSET (1 .. n) PROVE Is(S, G(S))
  <2>1. K(S) \in [1 .. n -> [T -> T]]
    OBVIOUS
  <2> HIDE DEF K
  <2>2. \E f : Is(S, f)
    BY <2>1, AppliesExist
  <2> HIDE DEF Is
  <2>3. QED
    BY <2>2
<1>2. \A S \in SUBSET (1 .. n) : \A k \in 1 .. n : \A x \in T : K(S)[k][x] = IF k \in S THEN H[k][x] ELSE x
  OBVIOUS
<1> HIDE DEF G, K
\* Behind the greatest of a set, and where there are no elements, nothing changes.
<1>3. ASSUME NEW S \in SUBSET (1 .. n), NEW m \in 0 .. n, \A k \in S : k <= m PROVE G(S)[n] = G(S)[m]
  <2>1. PICK f : f = G(S) /\ Is(S, f)
    BY <1>1
  <2> DEFINE P == {j \in Nat : f[m + j] = f[m]}
  <2>2. 0 \in P
    BY <2>1
  <2>3. ASSUME NEW j \in 0 .. (n - m) - 1, j \in P PROVE j + 1 \in P
    <3>1. m + j + 1 \in 1 .. n /\ (m + j + 1) - 1 = m + j /\ m + (j + 1) = m + j + 1 /\ m + j \in 0 .. n /\ j + 1 \in Nat
      OBVIOUS
    <3>2. m + j + 1 \notin S
      BY <1>3
    <3>3. f[m + j + 1] = K(S)[m + j + 1][f[m + j]] /\ f[m + j] \in T
      BY <2>1, <3>1 DEF Applies
    <3>4. QED
      BY <1>2, <2>3, <3>1, <3>2, <3>3
  <2>4. n - m \in P
    <3>1. n - m \in Nat /\ n - m \in 0 .. n - m
      OBVIOUS
    <3> HIDE DEF P
    <3> QED BY <2>2, <2>3, <3>1, CountingUp
  <2>5. m + (n - m) = n
    OBVIOUS
  <2>6. QED
    BY <2>1, <2>4, <2>5
<1>4. ASSUME NEW S \in SUBSET (1 .. n), NEW m \in S
      PROVE  G(S)[m - 1] = G(S \ {m})[m - 1]
  <2>1. PICK f : f = G(S) /\ Is(S, f)
    BY <1>1
  <2>2. PICK e : e = G(S \ {m}) /\ Is(S \ {m}, e)
    BY <1>1
  <2> DEFINE P == {j \in Nat : f[j] = e[j]}
  <2>3. 0 \in P
    BY <2>1, <2>2 DEF Applies
  <2>4. ASSUME NEW j \in 0 .. (m - 1) - 1, j \in P PROVE j + 1 \in P
    <3>1. j + 1 \in 1 .. n /\ (j + 1) - 1 = j /\ j \in 0 .. n /\ j + 1 \in Nat /\ j + 1 # m
      OBVIOUS
    <3>2. f[j + 1] = K(S)[j + 1][f[j]] /\ e[j + 1] = K(S \ {m})[j + 1][e[j]] /\ f[j] \in T
      BY <2>1, <2>2, <3>1 DEF Applies
    <3>3. j + 1 \in S <=> j + 1 \in S \ {m}
      BY <3>1
    <3>4. f[j] = e[j]
      BY <2>4
    <3>5. K(S)[j + 1][f[j]] = K(S \ {m})[j + 1][f[j]]
      BY <1>2, <3>1, <3>2, <3>3
    <3>6. QED
      BY <3>1, <3>2, <3>4, <3>5
  <2>5. m - 1 \in P
    <3>1. m - 1 \in Nat /\ m - 1 \in 0 .. m - 1
      OBVIOUS
    <3> HIDE DEF P
    <3> QED BY <2>3, <2>4, <3>1, CountingUp
  <2>6. QED
    BY <2>1, <2>2, <2>5
<1>5. g \in [SUBSET (1 .. n) -> T]
  <2>1. n \in 0 .. n
    OBVIOUS
  <2>2. \A S \in SUBSET (1 .. n) : G(S)[n] \in T
    BY <1>1, <2>1
  <2>3. QED
    BY <2>2
<1>6. g[{}] = b
  <2>1. {} \in SUBSET (1 .. n) /\ 0 \in 0 .. n
    OBVIOUS
  <2>2. G({})[n] = G({})[0]
    BY <1>3, <2>1
  <2>3. G({})[0] = b
    BY <1>1, <2>1 DEF Applies
  <2>4. QED
    BY <2>1, <2>2, <2>3
<1>7. ASSUME NEW S \in SUBSET (1 .. n), S # {} PROVE g[S] = H[Max(S)][g[S \ {Max(S)}]]
  <2>1. PICK m : m = Max(S) /\ m \in S /\ m \in 1 .. n /\ (\A k \in S : k <= m) /\ S \ {m} \in SUBSET (1 .. n)
    BY <1>7, MaxOfSome
  <2>2. m \in 0 .. n /\ m - 1 \in 0 .. n
    BY <2>1
  <2>3. G(S)[n] = G(S)[m]
    BY <1>3, <2>1, <2>2
  <2>4. G(S)[m] = H[m][G(S)[m - 1]]
    <3>1. PICK f : f = G(S) /\ Is(S, f)
      BY <1>1
    <3>2. f[m] = K(S)[m][f[m - 1]] /\ f[m - 1] \in T
      BY <2>1, <2>2, <3>1 DEF Applies
    <3>3. QED
      BY <1>2, <2>1, <3>1, <3>2
  <2>5. G(S)[m - 1] = G(S \ {m})[m - 1]
    BY <1>4, <2>1
  <2>6. \A k \in S \ {m} : k <= m - 1
    BY <2>1
  <2>7. G(S \ {m})[n] = G(S \ {m})[m - 1]
    BY <1>3, <2>1, <2>2, <2>6
  <2>8. QED
    BY <2>1, <2>3, <2>4, <2>5, <2>7
<1> HIDE DEF g
<1>8. Folds(g, b, H, n)
  BY <1>6, <1>7 DEF Folds
<1>9. QED
  BY <1>5, <1>8

\* One sequence more.
LEMMA FlattenMore ==
  ASSUME NEW V, NEW n \in Nat, NEW ss \in Seq(Seq(V)), Len(ss) = n + 1,
         NEW rs \in Seq(Seq(V)), Len(rs) = n, \A i \in 1 .. n : rs[i] = ss[i]
  PROVE  FlattenSeq(ss) = FlattenSeq(rs) \o ss[n + 1]
<1>1. ss # <<>> /\ \A i \in 1 .. n + 1 : ss[i] \in Seq(V)
  BY ElementsAreMembers
<1>2. PICK f : /\ FlattenSeq(ss) = f[n + 1] /\ f[1] = ss[1]
               /\ \A i \in 2 .. n + 1 : f[i] = f[i - 1] \o ss[i]
  <2>1. \E f : /\ FlattenSeq(ss) = f[Len(ss)] /\ f[1] = ss[1]
               /\ \A i \in 2 .. Len(ss) : f[i] = f[i - 1] \o ss[i]
    BY <1>1, FlattenUnfolds, Zenon
  <2>2. QED
    BY <2>1
<1>3. CASE n = 0
  <2>1. FlattenSeq(rs) = <<>>
    <3>1. rs = <<>>
      BY <1>3, EmptySeq
    <3>2. QED
      BY <1>3, <3>1 DEF FlattenSeq
  <2>2. ss[1] \in Seq(V) /\ n + 1 = 1
    BY <1>1, <1>3
  <2>3. <<>> \o ss[1] = ss[1]
    BY <2>2, ConcatEmptySeq
  <2>4. QED
    BY <1>2, <2>1, <2>2, <2>3
<1>4. CASE n # 0
  <2>1. rs # <<>>
    BY <1>4, ElementsAreMembers
  <2>2. PICK g : /\ FlattenSeq(rs) = g[n] /\ g[1] = rs[1]
                 /\ \A i \in 2 .. n : g[i] = g[i - 1] \o rs[i]
    <3>1. \E g : /\ FlattenSeq(rs) = g[Len(rs)] /\ g[1] = rs[1]
                 /\ \A i \in 2 .. Len(rs) : g[i] = g[i - 1] \o rs[i]
      BY <2>1, FlattenUnfolds, Zenon
    <3>2. QED
      BY <3>1
  <2>3. PICK m \in Nat : n = m + 1
    <3>1. n - 1 \in Nat /\ n = (n - 1) + 1
      BY <1>4
    <3>2. QED
      BY <3>1
  <2> DEFINE P == {k \in Nat : f[k + 1] = g[k + 1]}
  <2>4. 0 \in P
    <3>1. 1 \in 1 .. n /\ 0 + 1 = 1
      BY <2>3
    <3>2. f[1] = g[1]
      BY <1>2, <2>2, <3>1
    <3>3. QED
      BY <3>1, <3>2
  <2>5. ASSUME NEW k \in 0 .. m - 1, k \in P PROVE k + 1 \in P
    <3>1. k + 2 \in 2 .. n /\ (k + 2) - 1 = k + 1 /\ (k + 1) + 1 = k + 2 /\ k + 1 \in Nat /\ k + 2 \in 1 .. n /\ k + 2 \in 2 .. n + 1
      BY <2>3
    <3>2. f[k + 2] = f[k + 1] \o ss[k + 2] /\ g[k + 2] = g[k + 1] \o rs[k + 2]
      BY <1>2, <2>2, <3>1
    <3>3. QED
      BY <2>5, <3>1, <3>2
  <2>6. m \in P
    <3>1. m \in 0 .. m
      OBVIOUS
    <3> HIDE DEF P
    <3> QED BY <2>4, <2>5, <3>1, CountingUp
  <2>7. n + 1 \in 2 .. n + 1 /\ (n + 1) - 1 = n
    BY <1>4
  <2>8. f[n + 1] = f[n] \o ss[n + 1]
    BY <1>2, <2>7
  <2>9. QED
    BY <1>2, <2>2, <2>3, <2>6, <2>8
<1>5. QED
  BY <1>3, <1>4

=============================================================================
