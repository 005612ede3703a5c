--------------------------- MODULE RandomWalkProofs ---------------------------
(***************************************************************************)
(* Proofs about PageRank and Walk: the ranks that random walks have in the *)
(* end, and walks that are printed one by one.                             *)
(*                                                                         *)
(* PageRank.  The vector that was written last is, on the vertices that    *)
(* are not isolated, a power of the denominator times numbers, and every   *)
(* iteration takes one power away (Multiple).  So all divisions of an      *)
(* iteration come out even, and it is linear in these numbers: they flow   *)
(* over the edges (Flow), by lines and columns of one table, so that what  *)
(* flows is as much as there was (FlowMass), and the difference of two     *)
(* vectors flows as they do, so that it shrinks by the damping             *)
(* (StepContracts).  The invariant has this for the last two vectors       *)
(* (Vectors, Steps), and that they are those of the power method, none of  *)
(* which but the last was near enough to the one before it (Textual).  A   *)
(* threshold alone ends the loop before the counter does because the       *)
(* residual has come down by a power of the damping (ThresholdAssumption). *)
(*                                                                         *)
(* Walk.  A dictionary that is read from its image is the one that was     *)
(* written: the image begins with a number, m_N, and the reader takes as   *)
(* many entries as it says, so the count of headwords must go with the     *)
(* cache (IInv).  The dictionary is what its files say: the cache has what *)
(* the lines read so far say of a headword, each concept with the weight   *)
(* of its first occurrence, and the sorted items keep that (DictInv).      *)
(* Walks do not change it (WalkDict).  A sampler is as StartWalks made it: *)
(* strong components because as many steps as there are vertices reach     *)
(* all that can be reached (ReachedIs), buckets because the loop closes an *)
(* interval where the next one begins, before a vertex that is too much    *)
(* (LoopInv).  So a walk is always at a concept (WalkInv), and what is     *)
(* drawn there owns its weight, because the sums before and with it differ *)
(* by that (ShareIsWeight).                                                *)
(***************************************************************************)
EXTENDS Walk, PageRank, FoldLemmas, FiniteSetTheorems, TLAPS

-----------------------------------------------------------------------------
(* Division and powers.                                                    *)

\* A multiple is divided without a rest.
LEMMA Exactly ==
  ASSUME NEW q \in Nat, NEW d \in Nat \ {0}
  PROVE  (d * q) \div d = q /\ (d * q) % d = 0
OBVIOUS

\* A quotient is a number, and the one without a rest if there is none.
LEMMA Quotient ==
  ASSUME NEW n \in Nat, NEW d \in Nat \ {0}
  PROVE  n \div d \in Nat /\ d * (n \div d) <= n /\ (n % d = 0 => n = d * (n \div d))
OBVIOUS

\* Power is what its equation says.
LEMMA PowerUnfolds ==
  ASSUME NEW b \in Nat
  PROVE  /\ Power(b) \in [Nat -> Nat] /\ Power(b)[0] = 1
         /\ \A k \in Nat : Power(b)[k + 1] = b * Power(b)[k]
<1> DEFINE h == [x \in Nat |-> b * x]
           E(f) == f = [k \in Nat |-> IF k = 0 THEN 1 ELSE b * f[k - 1]]
<1>1. h \in [Nat -> Nat] /\ 1 \in Nat
  OBVIOUS
<1>2. PICK fs \in [Nat -> Nat] : fs[0] = 1 /\ \A k \in Nat \ {0} : fs[k] = h[fs[k - 1]]
  <2> HIDE DEF h
  <2>1. PICK fs \in [Nat -> Nat] : RepeatsOn(fs, 1, h)
    BY <1>1, IteratesOn
  <2>2. QED
    BY <2>1 DEF RepeatsOn
<1>3. E(fs)
  <2>1. \A k \in Nat : fs[k] = IF k = 0 THEN 1 ELSE b * fs[k - 1]
    <3> TAKE k \in Nat
    <3>1. CASE k # 0
      <4>1. k \in Nat \ {0} /\ k - 1 \in Nat
        BY <3>1
      <4>2. fs[k] = h[fs[k - 1]] /\ fs[k - 1] \in Nat
        BY <1>2, <4>1
      <4>3. QED
        BY <3>1, <4>2
    <3>2. QED
      BY <1>2, <3>1
  <2>2. fs = [k \in Nat |-> fs[k]]
    OBVIOUS
  <2>3. QED
    BY <2>1, <2>2
<1>4. E(Power(b))
  <2>1. E(CHOOSE f : E(f))
    <3> HIDE DEF E
    <3> QED BY <1>3
  <2>2. Power(b) = CHOOSE f : E(f)
    BY DEF Power
  <2>3. QED
    BY <2>1, <2>2, Zenon
<1>5. PICK p : p = Power(b) /\ E(p)
  BY <1>4
<1>6. p[0] = 1 /\ DOMAIN p = Nat
  BY <1>5
<1>7. ASSUME NEW k \in Nat PROVE p[k + 1] = b * p[k]
  <2>1. k + 1 \in Nat /\ k + 1 # 0 /\ (k + 1) - 1 = k
    OBVIOUS
  <2>2. p[k + 1] = IF k + 1 = 0 THEN 1 ELSE b * p[(k + 1) - 1]
    BY <1>5, <2>1
  <2>3. QED
    BY <2>1, <2>2
<1> DEFINE P == {k \in Nat : p[k] \in Nat}
<1>8. \A n \in Nat : n \in P
  <2> TAKE n \in Nat
  <2>1. 0 \in P
    BY <1>6
  <2>2. \A k \in 0 .. n - 1 : k \in P => k + 1 \in P
    <3> TAKE k \in 0 .. n - 1
    <3>1. k \in Nat /\ k + 1 \in Nat
      OBVIOUS
    <3>2. p[k] \in Nat => b * p[k] \in Nat
      OBVIOUS
    <3>3. QED
      BY <1>7, <3>1, <3>2
  <2>3. n \in 0 .. n
    OBVIOUS
  <2> HIDE DEF P
  <2>4. QED
    BY <2>1, <2>2, <2>3, CountingUp
<1>9. p \in [Nat -> Nat]
  <2>1. p = [k \in Nat |-> p[k]]
    BY <1>5, <1>6
  <2>2. \A k \in Nat : p[k] \in Nat
    BY <1>8
  <2> HIDE DEF P, E
  <2>3. QED
    BY <2>1, <2>2
<1> HIDE DEF E
<1>10. QED
  BY <1>5, <1>6, <1>7, <1>9

\* A power is a multiple of each smaller one.
LEMMA PowerDivides ==
  ASSUME NEW b \in Nat, NEW j \in Nat, NEW k \in Nat
  PROVE  \E q \in Nat : Power(b)[j + k] = Power(b)[j] * q
<1> DEFINE p == Power(b)
           P == {n \in Nat : \E q \in Nat : p[j + n] = p[j] * q}
<1>1. p \in [Nat -> Nat] /\ \A n \in Nat : p[n + 1] = b * p[n]
  BY PowerUnfolds
<1> HIDE DEF p
<1>2. 0 \in P
  <2>1. p[j + 0] = p[j] * 1
    BY <1>1
  <2>2. QED
    BY <2>1
<1>3. ASSUME NEW n \in 0 .. k - 1, n \in P PROVE n + 1 \in P
  <2>1. PICK q \in Nat : p[j + n] = p[j] * q
    BY <1>3
  <2>2. n \in Nat /\ j + n \in Nat /\ j + (n + 1) = (j + n) + 1 /\ n + 1 \in Nat
    OBVIOUS
  <2>3. p[j + (n + 1)] = b * (p[j] * q)
    BY <1>1, <2>1, <2>2
  <2>4. \A x \in Nat : b * (x * q) = x * (b * q)
    OBVIOUS
  <2>5. p[j + (n + 1)] = p[j] * (b * q) /\ b * q \in Nat
    BY <1>1, <2>3, <2>4
  <2>6. QED
    BY <2>2, <2>5
<1>4. k \in P
  <2>1. k \in 0 .. k
    OBVIOUS
  <2> HIDE DEF P
  <2> QED BY <1>2, <1>3, <2>1, CountingUp
<1>5. QED
  BY <1>4 DEF p

\* What is not zero has no power of zero.
LEMMA PowerPositive ==
  ASSUME NEW b \in Nat \ {0}, NEW k \in Nat
  PROVE  Power(b)[k] \in Nat \ {0}
<1> DEFINE p == Power(b)
           P == {n \in Nat : p[n] # 0}
<1>1. p \in [Nat -> Nat] /\ p[0] = 1 /\ \A n \in Nat : p[n + 1] = b * p[n]
  BY PowerUnfolds
<1> HIDE DEF p
<1>2. 0 \in P
  BY <1>1
<1>3. ASSUME NEW n \in 0 .. k - 1, n \in P PROVE n + 1 \in P
  <2>1. n \in Nat /\ n + 1 \in Nat /\ p[n] \in Nat \ {0}
    BY <1>1, <1>3
  <2>2. b * p[n] # 0
    BY <2>1
  <2>3. QED
    BY <1>1, <2>1, <2>2
<1>4. k \in P
  <2>1. k \in 0 .. k
    OBVIOUS
  <2> HIDE DEF P
  <2> QED BY <1>2, <1>3, <2>1, CountingUp
<1>5. QED
  BY <1>1, <1>4 DEF p

-----------------------------------------------------------------------------
(* The graph and its coefficients.                                         *)

\* The constants are numbers.
LEMMA ConstantsOK ==
  /\ IsFiniteSet(Vertices) /\ Cardinality(Vertices) \in Nat \ {0}
  /\ PpvUnit \in Nat \ {0} /\ Unit \in Nat \ {0} /\ MaxInt \in Nat \ {0}
  /\ DampNum \in Nat \ {0} /\ DampDen \in Nat \ {0} /\ DampNum <= DampDen
  /\ Denominator \in Nat \ {0}
<1>1. Cardinality(Vertices) \in Nat
  BY PageRankAssumption, FS_CardinalityType
<1>2. Cardinality(Vertices) # 0
  BY PageRankAssumption, FS_EmptySet
<1>3. DampDen \in Nat /\ DampNum \in 1 .. DampDen
  BY PageRankAssumption
<1>4. QED
  BY <1>1, <1>2, <1>3, PageRankAssumption, UnitAssumption

GraphOK == graph \in [Vertices \X Vertices -> Nat] /\ graph \in Graphs /\ weighted \in BOOLEAN

\* Weights are numbers, zero where there is no edge.
LEMMA WeightsOK ==
  ASSUME GraphOK, NEW u \in Vertices, NEW v \in Vertices
  PROVE  /\ Weight(u, v) \in Nat
         /\ IsEdge(u, v) <=> Weight(u, v) # 0
         /\ IsEdge(u, v) => u \in Connected /\ v \in Connected
<1>1. graph[u, v] \in Nat
  BY DEF GraphOK
<1>2. Weight(u, v) \in Nat /\ (IsEdge(u, v) <=> Weight(u, v) # 0)
  <2>1. CASE weighted
    BY <1>1, <2>1 DEF Weight, IsEdge
  <2>2. CASE ~ weighted /\ IsEdge(u, v)
    <3>1. Weight(u, v) = 1
      BY <2>2 DEF Weight
    <3>2. QED
      BY <2>2, <3>1
  <2>3. CASE ~ weighted /\ ~ IsEdge(u, v)
    <3>1. Weight(u, v) = 0
      BY <2>3 DEF Weight
    <3>2. QED
      BY <2>3, <3>1
  <2>4. QED
    BY <2>1, <2>2, <2>3 DEF GraphOK
<1>3. IsEdge(u, v) => ~ Isolated(u) /\ ~ Isolated(v)
  BY DEF Isolated
<1>4. IsEdge(u, v) => u \in Connected /\ v \in Connected
  BY <1>3 DEF Connected
<1>5. QED
  BY <1>2, <1>4

\* Only a dangling or isolated vertex has no weight to divide by.
LEMMA OutOK ==
  ASSUME GraphOK, NEW u \in Vertices
  PROVE  /\ Out(u) \in Nat /\ Out(u) \in OutSums
         /\ Out(u) = 0 => \A v \in Vertices : ~ IsEdge(u, v)
         /\ Out(u) = 0 /\ u \in Connected <=> Dangling(u)
<1> DEFINE F == [v \in Vertices |-> Weight(u, v)]
<1>1. IsFiniteSet(Vertices)
  BY ConstantsOK
<1>2. F \in [Vertices -> Nat]
  BY WeightsOK
<1>3. Out(u) = SumFunction(F)
  BY DEF Out
<1>4. Out(u) \in Nat
  <2> HIDE DEF F
  <2> QED BY <1>1, <1>2, <1>3, SumIsNumber
<1>5. Out(u) \in OutSums
  <2>1. CASE weighted
    <3>1. F = [v \in Vertices |-> graph[u, v]]
      BY <2>1 DEF Weight
    <3>2. Out(u) = OutWeight(graph, u)
      BY <1>3, <3>1 DEF OutWeight
    <3>3. graph \in Graphs
      BY DEF GraphOK
    <3>4. Out(u) \in OutWeights
      BY <3>2, <3>3 DEF OutWeights
    <3>5. QED
      BY <3>4 DEF OutSums
  <2>2. CASE ~ weighted
    <3> DEFINE One  == [v \in Vertices |-> 1]
               Zero == [v \in Vertices |-> 0]
    <3>1. One \in [Vertices -> Nat] /\ Zero \in [Vertices -> Nat]
      OBVIOUS
    <3>2. \A v \in Vertices : F[v] <= One[v] + Zero[v]
      BY <2>2 DEF Weight
    <3>3. (\A v \in Vertices : One[v] = 1) /\ \A v \in Vertices : Zero[v] = 0
      OBVIOUS
    <3> HIDE DEF One, Zero, F
    <3>4. SumFunction(F) <= SumFunction(One) + SumFunction(Zero)
      BY <1>1, <1>2, <3>1, <3>2, SumsAtMost
    <3>5. SumFunction(One) = Cardinality(Vertices) * 1
      BY <1>1, <3>1, <3>3, SumOfConstant
    <3>6. SumFunction(Zero) = Cardinality(Vertices) * 0
      BY <1>1, <3>1, <3>3, SumOfConstant
    <3>7. Out(u) \in 0 .. Cardinality(Vertices)
      <4>1. Cardinality(Vertices) \in Nat
        BY ConstantsOK
      <4>2. \A n \in Nat : n * 1 + n * 0 = n
        OBVIOUS
      <4>3. Out(u) <= Cardinality(Vertices)
        BY <1>3, <3>4, <3>5, <3>6, <4>1, <4>2
      <4>4. QED
        BY <1>4, <4>1, <4>3
    <3>8. QED
      BY <3>7 DEF OutSums
  <2>3. QED
    BY <2>1, <2>2
<1>6. \A v \in Vertices : Weight(u, v) <= Out(u)
  <2>1. \A v \in Vertices : F[v] = Weight(u, v)
    OBVIOUS
  <2> HIDE DEF F
  <2>2. \A v \in Vertices : F[v] <= SumFunction(F)
    BY <1>1, <1>2, SumHasMember
  <2>3. QED
    BY <1>3, <2>1, <2>2
<1>7. Out(u) = 0 => \A v \in Vertices : ~ IsEdge(u, v)
  <2> SUFFICES ASSUME Out(u) = 0, NEW v \in Vertices PROVE ~ IsEdge(u, v)
    OBVIOUS
  <2>1. Weight(u, v) \in Nat /\ Weight(u, v) <= 0
    BY <1>6
       , WeightsOK
  <2>2. Weight(u, v) = 0
    BY <2>1
  <2>3. QED
    BY <2>2, WeightsOK
<1>8. Dangling(u) => Out(u) = 0
  <2> SUFFICES ASSUME Dangling(u) PROVE Out(u) = 0
    OBVIOUS
  <2>1. \A v \in Vertices : F[v] = 0
    BY WeightsOK DEF Dangling
  <2> HIDE DEF F
  <2>2. SumFunction(F) = Cardinality(Vertices) * 0
    BY <1>1, <1>2, <2>1, SumOfConstant
  <2>3. QED
    BY <1>3, <2>2, ConstantsOK
<1>9. Dangling(u) => u \in Connected
  BY DEF Dangling, Connected, Isolated
<1>10. Out(u) = 0 /\ u \in Connected => Dangling(u)
  BY <1>7 DEF Dangling, Connected, Isolated
<1>11. QED
  BY <1>4, <1>5, <1>7, <1>8, <1>9, <1>10

\* By how much of the common denominator an edge is multiplied that is divided by the
\* weights, and a dangling vertex.
Coef(u) == IF Out(u) = 0 THEN 0 ELSE Denominator \div (DampDen * Out(u))
PpvCoef == Denominator \div (DampDen * PpvUnit)

\* The factor of a vertex: the denominator without its damping and its weights.
LEMMA CoefOK ==
  ASSUME GraphOK, NEW u \in Vertices
  PROVE  /\ Coef(u) \in Nat
         /\ Out(u) # 0 => Denominator = (DampDen * Out(u)) * Coef(u)
<1>1. CASE Out(u) = 0
  BY <1>1 DEF Coef
<1>2. CASE Out(u) # 0
  <2>1. Out(u) \in Nat \ {0} /\ Out(u) \in OutSums \ {0}
    BY <1>2, OutOK
  <2>2. Denominator % (DampDen * Out(u)) = 0
    BY <2>1, UnitAssumption
  <2>3. DampDen * Out(u) \in Nat \ {0}
    BY <2>1, ConstantsOK
  <2>4. Coef(u) = Denominator \div (DampDen * Out(u))
    BY <1>2 DEF Coef
  <2>5. QED
    BY <2>2, <2>3, <2>4, ConstantsOK, Quotient
<1>3. QED
  BY <1>1, <1>2

\* The factor of the personalisation: the denominator without the damping and the unit.
LEMMA PpvCoefOK == PpvCoef \in Nat /\ Denominator = (DampDen * PpvUnit) * PpvCoef
<1>1. DampDen * PpvUnit \in Nat \ {0}
  BY ConstantsOK
<1>2. QED
  BY <1>1, ConstantsOK, UnitAssumption, Quotient DEF PpvCoef

-----------------------------------------------------------------------------
(* One iteration, without divisions.                                       *)

\* What does not come over edges, in multiples of the personalisation.
Base == (Unit - Damp(Unit)) \div PpvUnit

\* What an iteration lets in from outside is a number, times a power of the denominator.
LEMMA BaseOK ==
  /\ Base \in Nat /\ Damp(Unit) \in Nat /\ DampDen * Damp(Unit) = DampNum * Unit
  /\ Unit = Damp(Unit) + PpvUnit * Base
  /\ \E q \in Nat : Base = Power(Denominator)[MaxInt - 1] * q
<1>1. PICK a, n, w, e \in Nat : a = DampDen /\ n = DampNum /\ w = PpvUnit /\ e = PpvCoef
  BY ConstantsOK, PpvCoefOK
<1>2. a # 0 /\ w # 0 /\ n <= a
  BY <1>1, ConstantsOK
<1>3. PICK p \in Nat : p = Power(Denominator)[MaxInt - 1] /\ Power(Denominator)[MaxInt] = Denominator * p
  <2>1. MaxInt - 1 \in Nat /\ (MaxInt - 1) + 1 = MaxInt
    BY ConstantsOK
  <2>2. Denominator \in Nat
    BY ConstantsOK
  <2>3. Power(Denominator) \in [Nat -> Nat] /\ \A k \in Nat : Power(Denominator)[k + 1] = Denominator * Power(Denominator)[k]
    BY <2>2, PowerUnfolds
  <2>4. QED
    BY <2>1, <2>3
<1>4. PICK c \in Nat : Unit = ((a * w) * e) * p * c
  <2>1. 1 \in 1 .. Cardinality(Vertices)
    BY ConstantsOK
  <2>2. Unit % (1 * Power(Denominator)[MaxInt]) = 0
    BY <2>1, UnitAssumption
  <2>3. Power(Denominator)[MaxInt] \in Nat \ {0}
    BY PowerPositive, ConstantsOK
  <2>4. PICK d \in Nat \ {0} : d = Power(Denominator)[MaxInt] /\ Unit % d = 0
    BY <2>2, <2>3
  <2>5. Unit = d * (Unit \div d) /\ Unit \div d \in Nat
    BY <2>4, Quotient, ConstantsOK
  <2>6. d = ((a * w) * e) * p
    BY <1>1, <1>3, <2>4, PpvCoefOK
  <2>7. QED
    BY <2>5, <2>6
<1>5. PICK y \in Nat : y = e * p * c
  OBVIOUS
<1>6. Unit = a * (w * y)
  BY <1>4, <1>5
<1>7. Damp(Unit) = n * (w * y)
  <2>1. n * (a * (w * y)) = a * (n * (w * y)) /\ n * (w * y) \in Nat
    OBVIOUS
  <2>2. Damp(Unit) = (a * (n * (w * y))) \div a
    BY <1>1, <1>6, <2>1 DEF Damp
  <2>3. QED
    BY <1>2, <2>1, <2>2, Exactly
<1>8. PICK b \in Nat : b = (a - n) * y
  BY <1>2
<1>9. Unit - Damp(Unit) = w * b
  <2>1. a * (w * y) - n * (w * y) = w * ((a - n) * y)
    OBVIOUS
  <2>2. QED
    BY <1>6, <1>7, <1>8, <2>1
<1>10. Base = b
  BY <1>1, <1>2, <1>9, Exactly DEF Base
<1>11. Base = p * ((a - n) * (e * c)) /\ (a - n) * (e * c) \in Nat
  <2>1. PICK d \in Nat : d = a - n
    BY <1>2
  <2>2. d * (e * p * c) = p * (d * (e * c)) /\ d * (e * c) \in Nat
    OBVIOUS
  <2>3. QED
    BY <1>5, <1>8, <1>10, <2>1, <2>2
<1>12. DampDen * Damp(Unit) = DampNum * Unit /\ Damp(Unit) \in Nat
  <2>1. a * (n * (w * y)) = n * (a * (w * y)) /\ n * (w * y) \in Nat
    OBVIOUS
  <2>2. QED
    BY <1>1, <1>6, <1>7, <2>1
<1>13. Unit = Damp(Unit) + PpvUnit * Base
  BY <1>1, <1>9, <1>10, <1>12, ConstantsOK
<1>14. QED
  BY <1>3, <1>10, <1>11, <1>12, <1>13

PpvOK == ppv \in [Vertices -> 0 .. PpvUnit]

\* What a vertex gets from vertices that have multiples m of something, and keeps.
Inflow(m, v) == SumFunction([u \in Vertices |-> (Coef(u) * m[u]) * Weight(u, v)])
Stay(m, v)   == IF Dangling(v) THEN (PpvCoef * m[v]) * ppv[v] ELSE 0
Flow(m, v)   == Inflow(m, v) + Stay(m, v)

\* What flows, and what stays, are numbers.
LEMMA FlowIsNumber ==
  ASSUME GraphOK, PpvOK, NEW m \in [Vertices -> Nat], NEW v \in Vertices
  PROVE  Inflow(m, v) \in Nat /\ Stay(m, v) \in Nat /\ Flow(m, v) \in Nat
<1> DEFINE F == [u \in Vertices |-> (Coef(u) * m[u]) * Weight(u, v)]
<1>1. F \in [Vertices -> Nat]
  <2>1. \A u \in Vertices : Coef(u) \in Nat /\ m[u] \in Nat /\ Weight(u, v) \in Nat
    BY CoefOK, WeightsOK
  <2>2. \A a, b, c \in Nat : (a * b) * c \in Nat
    OBVIOUS
  <2>3. QED
    BY <2>1, <2>2
<1>2. Inflow(m, v) \in Nat
  <2>1. Inflow(m, v) = SumFunction(F)
    BY DEF Inflow
  <2> HIDE DEF F
  <2>2. QED
    BY <1>1, <2>1, SumIsNumber, ConstantsOK
<1>3. Stay(m, v) \in Nat
  <2>1. PpvCoef \in Nat /\ m[v] \in Nat /\ ppv[v] \in Nat
    <3>1. ppv[v] \in 0 .. PpvUnit
      BY DEF PpvOK
    <3>2. QED
      BY <3>1, PpvCoefOK, ConstantsOK
  <2>2. (PpvCoef * m[v]) * ppv[v] \in Nat
    BY <2>1
  <2>3. QED
    BY <2>2 DEF Stay
<1>4. QED
  BY <1>2, <1>3 DEF Flow

\* What a vertex that has a multiple gives over an edge.
LEMMA EdgeIs ==
  ASSUME GraphOK, NEW x \in Nat, NEW e \in Nat, NEW n \in Nat, x = (Denominator * e) * n,
         NEW u \in Vertices, NEW v \in Vertices, IsEdge(u, v)
  PROVE  /\ Out(u) \in Nat \ {0}
         /\ (x * Weight(u, v)) \div Out(u) = (DampDen * e) * ((Coef(u) * n) * Weight(u, v))
<1>1. PICK o, c, w, d \in Nat : o = Out(u) /\ c = Coef(u) /\ w = Weight(u, v) /\ d = DampDen
  BY OutOK, CoefOK, WeightsOK, ConstantsOK
<1>2. o # 0
  BY <1>1, OutOK
<1>3. x = (((d * o) * c) * e) * n
  BY <1>1, <1>2, CoefOK
<1>4. x * w = o * ((d * e) * ((c * n) * w))
  <2>1. ((((d * o) * c) * e) * n) * w = o * ((d * e) * ((c * n) * w))
    OBVIOUS
  <2>2. QED
    BY <1>3, <2>1
<1>5. (d * e) * ((c * n) * w) \in Nat
  OBVIOUS
<1>6. (x * w) \div o = (d * e) * ((c * n) * w)
  BY <1>2, <1>4, <1>5, Exactly
<1>7. QED
  BY <1>1, <1>2, <1>6

\* The rank of a vertex that is not isolated, if the others have multiples of the
\* denominator.
LEMMA RankIs ==
  ASSUME GraphOK, PpvOK, NEW from \in [Vertices -> Nat], NEW m \in [Vertices -> Nat], NEW e \in Nat,
         \A u \in Connected : from[u] = (Denominator * e) * m[u], NEW v \in Connected
  PROVE  Rank(from, v) = (DampNum * e) * Flow(m, v) + Base * ppv[v]
<1> DEFINE F == [u \in Vertices |-> IF IsEdge(u, v) THEN (from[u] * Weight(u, v)) \div Out(u) ELSE 0]
           G == [u \in Vertices |-> (Coef(u) * m[u]) * Weight(u, v)]
<1>1. v \in Vertices
  BY DEF Connected
<1>2. PICK d, n, w, c, b \in Nat : d = DampDen /\ n = DampNum /\ w = PpvUnit /\ c = PpvCoef /\ b = Base
  BY ConstantsOK, PpvCoefOK, BaseOK
<1>3. d # 0 /\ w # 0
  BY <1>2, ConstantsOK
<1>4. \A u \in Vertices : F[u] = (d * e) * G[u] /\ G[u] \in Nat
  <2> TAKE u \in Vertices
  <2>1. PICK amount \in Nat : amount = (Coef(u) * m[u]) * Weight(u, v)
    <3>1. Coef(u) \in Nat /\ m[u] \in Nat /\ Weight(u, v) \in Nat
      BY <1>1, CoefOK, WeightsOK
    <3>2. QED
      BY <3>1
  <2>2. CASE IsEdge(u, v)
    <3>1. u \in Connected
      BY <1>1, <2>2, WeightsOK
    <3>2. from[u] \in Nat /\ m[u] \in Nat /\ from[u] = (Denominator * e) * m[u]
      BY <3>1
    <3>3. (from[u] * Weight(u, v)) \div Out(u) = (DampDen * e) * amount
      BY <1>1, <2>1, <2>2, <3>2, EdgeIs
    <3>4. QED
      BY <1>2, <2>1, <2>2, <3>3
  <2>3. CASE ~ IsEdge(u, v)
    <3>1. Weight(u, v) = 0 /\ Coef(u) \in Nat /\ m[u] \in Nat
      BY <1>1, <2>3, WeightsOK, CoefOK
    <3>2. amount = 0 /\ (d * e) * 0 = 0
      BY <2>1, <3>1
    <3>3. F[u] = 0 /\ G[u] = amount
      BY <2>1, <2>3
    <3>4. QED
      BY <2>1, <3>2, <3>3
  <2>4. QED
    BY <2>2, <2>3
<1>5. F \in [Vertices -> Nat] /\ G \in [Vertices -> Nat]
  <2>1. \A u \in Vertices : G[u] \in Nat /\ F[u] \in Nat
    <3> TAKE u \in Vertices
    <3>1. PICK amount \in Nat : amount = G[u] /\ F[u] = (d * e) * amount
      BY <1>4
    <3>2. (d * e) * amount \in Nat
      OBVIOUS
    <3> HIDE DEF F, G
    <3>3. QED
      BY <3>1, <3>2
  <2>2. F = [u \in Vertices |-> F[u]] /\ G = [u \in Vertices |-> G[u]]
    OBVIOUS
  <2> HIDE DEF F, G
  <2>3. QED
    BY <2>1, <2>2
<1>6. PICK into, s, p \in Nat : into = Inflow(m, v) /\ s = Stay(m, v) /\ p = ppv[v] /\ Flow(m, v) = into + s
  <2>1. ppv[v] \in 0 .. PpvUnit
    BY <1>1 DEF PpvOK
  <2>2. ppv[v] \in Nat
    BY <2>1, ConstantsOK
  <2>3. QED
    BY <1>1, <2>2, FlowIsNumber DEF Flow
<1>7. SumFunction(F) = (d * e) * into
  <2>1. into = SumFunction(G)
    BY <1>6 DEF Inflow
  <2>2. d * e \in Nat
    OBVIOUS
  <2> HIDE DEF F, G
  <2>3. SumFunction(F) = (d * e) * SumFunction(G)
    BY <1>4, <1>5, <2>2, SumScaled, ConstantsOK
  <2>4. QED
    BY <2>1, <2>3
<1>8. Damp(SumFunction(F)) = (n * e) * into
  <2>1. n * ((d * e) * into) = d * ((n * e) * into) /\ (n * e) * into \in Nat
    OBVIOUS
  <2>2. Damp(SumFunction(F)) = (d * ((n * e) * into)) \div d
    <3> HIDE DEF F
    <3> QED BY <1>2, <1>7, <2>1 DEF Damp
  <2>3. QED
    BY <1>3, <2>1, <2>2, Exactly
<1> DEFINE kept == IF Dangling(v) THEN Damp(from[v]) ELSE 0
<1>9. kept * p = w * ((n * e) * s) /\ kept \in Nat
  <2>1. CASE Dangling(v)
    <3>1. PICK k \in Nat : k = m[v] /\ from[v] = (((d * w) * c) * e) * k
      BY <1>1, <1>2, PpvCoefOK
    <3>2. n * ((((d * w) * c) * e) * k) = d * (((w * c) * (n * e)) * k) /\ ((w * c) * (n * e)) * k \in Nat
      OBVIOUS
    <3>3. Damp(from[v]) = (d * (((w * c) * (n * e)) * k)) \div d
      BY <1>2, <3>1, <3>2 DEF Damp
    <3>4. kept = ((w * c) * (n * e)) * k
      BY <1>3, <2>1, <3>2, <3>3, Exactly
    <3>5. s = (c * k) * p
      BY <1>2, <1>6, <2>1, <3>1 DEF Stay
    <3>6. (((w * c) * (n * e)) * k) * p = w * ((n * e) * ((c * k) * p))
      OBVIOUS
    <3>7. QED
      BY <3>2, <3>4, <3>5, <3>6
  <2>2. CASE ~ Dangling(v)
    <3>1. kept = 0 /\ s = 0
      BY <1>6, <2>2 DEF Stay
    <3>2. 0 * p = w * ((n * e) * 0)
      OBVIOUS
    <3>3. QED
      BY <3>1, <3>2
  <2>3. QED
    BY <2>1, <2>2
<1> HIDE DEF kept
<1>10. ((kept + Unit - Damp(Unit)) * p) \div w = (n * e) * s + b * p
  <2>1. kept + Unit - Damp(Unit) = kept + w * b
    BY <1>2, <1>9, BaseOK, ConstantsOK
  <2>2. PICK k \in Nat : k = kept
    BY <1>9
  <2>3. (k + w * b) * p = k * p + w * (b * p)
    OBVIOUS
  <2>4. w * ((n * e) * s) + w * (b * p) = w * ((n * e) * s + b * p) /\ (n * e) * s + b * p \in Nat
    OBVIOUS
  <2>5. (kept + Unit - Damp(Unit)) * p = w * ((n * e) * s + b * p)
    BY <1>9, <2>1, <2>2, <2>3, <2>4
  <2>6. QED
    BY <1>3, <2>4, <2>5, Exactly
<1>11. Rank(from, v) = (n * e) * into + ((n * e) * s + b * p)
  <2>1. Rank(from, v) = Damp(SumFunction(F)) + ((kept + Unit - Damp(Unit)) * p) \div w
    BY <1>2, <1>6 DEF Rank, kept
  <2> HIDE DEF F
  <2>2. QED
    BY <1>8, <1>10, <2>1
<1>12. (n * e) * into + ((n * e) * s + b * p) = (n * e) * (into + s) + b * p
  OBVIOUS
<1>13. QED
  BY <1>2, <1>6, <1>11, <1>12

-----------------------------------------------------------------------------
(* What flows to all vertices is what the vertices have.                   *)

\* What a vertex gives to all vertices.
LEMMA GivenIs ==
  ASSUME GraphOK, PpvOK, NEW m \in [Vertices -> Nat], NEW u \in Vertices
  PROVE  /\ (Coef(u) * m[u]) * Out(u) \in Nat
         /\ DampDen * ((Coef(u) * m[u]) * Out(u) + Stay(m, u)) <= Denominator * m[u]
         /\ Out(u) # 0 \/ m[u] = 0 =>
              DampDen * ((Coef(u) * m[u]) * Out(u) + Stay(m, u)) = Denominator * m[u]
<1>1. PICK c, o, n, s, d, e \in Nat : c = Coef(u) /\ o = Out(u) /\ n = m[u] /\ s = Stay(m, u) /\ d = DampDen
                                      /\ e = Denominator
  BY CoefOK, OutOK, FlowIsNumber, ConstantsOK
<1>2. (c * n) * o \in Nat
  OBVIOUS
<1>3. CASE o # 0
  <2>1. e = (d * o) * c
    BY <1>1, <1>3, CoefOK
  <2>2. ~ Dangling(u)
    BY <1>1, <1>3, OutOK
  <2>3. s = 0
    BY <1>1, <2>2 DEF Stay
  <2>4. d * ((c * n) * o + 0) = ((d * o) * c) * n
    OBVIOUS
  <2>5. d * ((c * n) * o + s) = e * n
    BY <2>1, <2>3, <2>4
  <2>6. e * n \in Nat
    OBVIOUS
  <2>7. QED
    BY <1>1, <1>2, <2>5, <2>6
<1>4. CASE o = 0
  <2>1. (c * n) * o = 0
    BY <1>4
  <2>2. CASE Dangling(u)
    <3>1. PICK q, w, p \in Nat : q = PpvCoef /\ w = PpvUnit /\ p = ppv[u] /\ p <= w
      <4>1. ppv[u] \in 0 .. PpvUnit
        BY DEF PpvOK
      <4>2. QED
        BY <4>1, PpvCoefOK, ConstantsOK
    <3>2. s = (q * n) * p
      BY <1>1, <2>2, <3>1 DEF Stay
    <3>3. e = (d * w) * q
      BY <1>1, <3>1, PpvCoefOK
    <3>4. PICK r \in Nat : w = p + r
      <4>1. w - p \in Nat /\ w = p + (w - p)
        BY <3>1
      <4>2. QED
        BY <4>1
    <3>5. d * (0 + (q * n) * p) + ((d * r) * q) * n = ((d * (p + r)) * q) * n
      OBVIOUS
    <3>6. ((d * r) * q) * n \in Nat /\ d * (0 + (q * n) * p) \in Nat
      OBVIOUS
    <3>7. d * (0 + s) <= e * n
      BY <3>2, <3>3, <3>4, <3>5, <3>6
    <3>8. n = 0 => d * (0 + s) = e * n
      <4> SUFFICES ASSUME n = 0 PROVE d * (0 + s) = e * n
        OBVIOUS
      <4>1. (q * 0) * p = 0 /\ d * (0 + 0) = e * 0
        OBVIOUS
      <4>2. QED
        BY <3>2, <4>1
    <3>9. QED
      BY <1>1, <1>2, <1>4, <2>1, <3>7, <3>8
  <2>3. CASE ~ Dangling(u)
    <3>1. s = 0
      BY <1>1, <2>3 DEF Stay
    <3>2. d * (0 + 0) <= e * n /\ (n = 0 => d * (0 + 0) = e * n)
      <4>1. d * (0 + 0) = 0 /\ e * n \in Nat /\ e * 0 = 0
        OBVIOUS
      <4>2. QED
        BY <4>1
    <3>3. QED
      BY <1>1, <1>2, <1>4, <2>1, <3>1, <3>2
  <2>4. QED
    BY <2>2, <2>3
<1>5. QED
  BY <1>3, <1>4

\* All that flows in is what all vertices give.
LEMMA InflowsAre ==
  ASSUME GraphOK, PpvOK, NEW m \in [Vertices -> Nat],
         NEW r \in [Vertices -> Nat], \A u \in Vertices : r[u] = (Coef(u) * m[u]) * Out(u),
         NEW c \in [Vertices -> Nat], \A v \in Vertices : c[v] = Inflow(m, v)
  PROVE  SumFunction(r) = SumFunction(c)
<1> DEFINE Part(u, v) == (Coef(u) * m[u]) * Weight(u, v)
           Row(u) == [v \in Vertices |-> Part(u, v)]
           Col(v) == [u \in Vertices |-> Part(u, v)]
<1>1. \A u, v \in Vertices : Part(u, v) \in Nat
  <2> TAKE u, v \in Vertices
  <2>1. Coef(u) \in Nat /\ m[u] \in Nat /\ Weight(u, v) \in Nat
    BY CoefOK, WeightsOK
  <2>2. \A x, y, z \in Nat : (x * y) * z \in Nat
    OBVIOUS
  <2>3. QED
    BY <2>1, <2>2
<1>2. \A u \in Vertices : Row(u) \in [Vertices -> Nat] /\ Col(u) \in [Vertices -> Nat]
  <2> HIDE DEF Part
  <2> QED BY <1>1
<1>3. \A u \in Vertices : r[u] = SumFunction(Row(u))
  <2> TAKE u \in Vertices
  <2>1. PICK F : F = Row(u) /\ F \in [Vertices -> Nat]
    BY <1>2
  <2>2. PICK G : G = [v \in Vertices |-> Weight(u, v)] /\ G \in [Vertices -> Nat] /\ Out(u) = SumFunction(G)
    BY WeightsOK DEF Out
  <2>3. PICK k \in Nat : k = Coef(u) * m[u]
    <3>1. Coef(u) \in Nat /\ m[u] \in Nat
      BY CoefOK
    <3>2. QED
      BY <3>1
  <2>4. \A v \in Vertices : F[v] = k * G[v]
    BY <2>1, <2>2, <2>3
  <2>5. SumFunction(F) = k * SumFunction(G)
    BY <2>1, <2>2, <2>4, SumScaled, ConstantsOK
  <2> HIDE DEF Row, Part
  <2>6. QED
    BY <2>1, <2>2, <2>3, <2>5
<1>4. \A v \in Vertices : c[v] = SumFunction(Col(v))
  BY DEF Inflow
<1>5. PICK t : t = [u \in Vertices |-> Row(u)]
  OBVIOUS
<1>6. PICK s : s = [v \in Vertices |-> Col(v)]
  OBVIOUS
<1>7. t \in [Vertices -> [Vertices -> Nat]] /\ s \in [Vertices -> [Vertices -> Nat]]
  <2> HIDE DEF Row, Col
  <2> QED BY <1>2, <1>5, <1>6
<1>8. (\A u \in Vertices : r[u] = SumFunction(t[u])) /\ \A v \in Vertices : c[v] = SumFunction(s[v])
  <2> HIDE DEF Row, Col
  <2> QED BY <1>3, <1>4, <1>5, <1>6
<1>9. SumsOf(r, t, Vertices, Vertices) /\ SumsOf(c, s, Vertices, Vertices)
  <2> HIDE DEF Row, Col
  <2> QED BY <1>7, <1>8 DEF SumsOf
<1>10. \A u, v \in Vertices : s[v][u] = t[u][v]
  BY <1>5, <1>6
<1>11. Table(t, s, r, c, Vertices, Vertices)
  <2> HIDE DEF Row, Col, Part
  <2> QED BY <1>9, <1>10, ConstantsOK DEF Table
<1>12. QED
  BY <1>11, SumsSwap

\* No more flows than there is, and all of it unless it is in vertices that have no edge
\* out.
LEMMA FlowMass ==
  ASSUME GraphOK, PpvOK, NEW m \in [Vertices -> Nat],
         NEW f \in [Vertices -> Nat], \A v \in Vertices : f[v] = Flow(m, v)
  PROVE  /\ DampDen * SumFunction(f) <= Denominator * SumFunction(m)
         /\ (\A u \in Vertices : Out(u) # 0 \/ m[u] = 0) =>
              DampDen * SumFunction(f) = Denominator * SumFunction(m)
<1>1. IsFiniteSet(Vertices) /\ DampDen \in Nat /\ Denominator \in Nat
  BY ConstantsOK
<1>2. PICK r : r = [u \in Vertices |-> (Coef(u) * m[u]) * Out(u)]
  OBVIOUS
<1>3. PICK c : c = [v \in Vertices |-> Inflow(m, v)]
  OBVIOUS
<1>4. PICK s : s = [v \in Vertices |-> Stay(m, v)]
  OBVIOUS
<1>5. r \in [Vertices -> Nat] /\ c \in [Vertices -> Nat] /\ s \in [Vertices -> Nat]
  BY <1>2, <1>3, <1>4, GivenIs, FlowIsNumber
<1>6. SumFunction(f) = SumFunction(c) + SumFunction(s)
  <2>1. \A v \in Vertices : f[v] = c[v] + s[v]
    BY <1>3, <1>4 DEF Flow
  <2>2. QED
    BY <1>1, <1>5, <2>1, SumPlus
<1>7. SumFunction(r) = SumFunction(c)
  <2>1. \A u \in Vertices : r[u] = (Coef(u) * m[u]) * Out(u)
    BY <1>2
  <2>2. \A v \in Vertices : c[v] = Inflow(m, v)
    BY <1>3
  <2>3. QED
    BY <1>5, <2>1, <2>2, InflowsAre
<1>8. PICK fs : fs = [u \in Vertices |-> r[u] + s[u]]
  OBVIOUS
<1>9. fs \in [Vertices -> Nat]
  BY <1>5, <1>8
<1>10. SumFunction(fs) = SumFunction(f)
  <2>1. \A u \in Vertices : fs[u] = r[u] + s[u]
    BY <1>8
  <2>2. SumFunction(fs) = SumFunction(r) + SumFunction(s)
    BY <1>1, <1>5, <1>9, <2>1, SumPlus
  <2>3. QED
    BY <1>6, <1>7, <2>2
<1>11. PICK x : x = [u \in Vertices |-> DampDen * fs[u]]
  OBVIOUS
<1>12. PICK y : y = [u \in Vertices |-> Denominator * m[u]]
  OBVIOUS
<1>13. x \in [Vertices -> Nat] /\ y \in [Vertices -> Nat]
  <2>1. \A a, b \in Nat : a * b \in Nat
    OBVIOUS
  <2>2. QED
    BY <1>1, <1>9, <1>11, <1>12, <2>1
<1>14. SumFunction(x) = DampDen * SumFunction(f)
  <2>1. \A u \in Vertices : x[u] = DampDen * fs[u]
    BY <1>11
  <2>2. QED
    BY <1>1, <1>9, <1>10, <1>13, <2>1, SumScaled
<1>15. SumFunction(y) = Denominator * SumFunction(m)
  <2>1. \A u \in Vertices : y[u] = Denominator * m[u]
    BY <1>12
  <2>2. QED
    BY <1>1, <1>13, <2>1, SumScaled
<1>16. \A u \in Vertices : /\ x[u] = DampDen * ((Coef(u) * m[u]) * Out(u) + Stay(m, u))
                           /\ y[u] = Denominator * m[u]
  BY <1>2, <1>4, <1>8, <1>11, <1>12
<1>17. \A u \in Vertices : x[u] <= y[u]
  BY <1>16, GivenIs
<1>18. SumFunction(x) <= SumFunction(y)
  BY <1>1, <1>13, <1>17, SumLess
<1>19. ASSUME \A u \in Vertices : Out(u) # 0 \/ m[u] = 0 PROVE SumFunction(x) = SumFunction(y)
  <2>1. \A u \in Vertices : x[u] = y[u]
    BY <1>16, <1>19, GivenIs
  <2>2. x = y
    BY <1>13, <2>1
  <2>3. QED
    BY <2>2
<1>20. QED
  BY <1>14, <1>15, <1>18, <1>19

-----------------------------------------------------------------------------
(* Two vectors next to each other.                                         *)

\* The greater a factor, the greater the product.
LEMMA ProductGrows ==
  ASSUME NEW k \in Nat, NEW a \in Nat, NEW b \in Nat, a <= b
  PROVE  k * a <= k * b
<1>1. PICK r \in Nat : b = a + r
  <2>1. b - a \in Nat /\ b = a + (b - a)
    OBVIOUS
  <2>2. QED
    BY <2>1
<1>2. k * (a + r) = k * a + k * r /\ k * a \in Nat /\ k * r \in Nat
  OBVIOUS
<1>3. QED
  BY <1>1, <1>2

\* What flows grows with what the vertices have.
LEMMA FlowLess ==
  ASSUME GraphOK, PpvOK, NEW m \in [Vertices -> Nat], NEW n \in [Vertices -> Nat],
         NEW a \in [Vertices -> Nat], \A u \in Connected : m[u] <= n[u] + a[u], NEW v \in Vertices
  PROVE  Flow(m, v) <= Flow(n, v) + Flow(a, v)
<1>1. \A k, w, x, y, z \in Nat : x <= y + z => (k * x) * w <= (k * y) * w + (k * z) * w
  <2> TAKE k, w, x, y, z \in Nat
  <2>1. (k * x) * w = (k * w) * x /\ (k * y) * w + (k * z) * w = (k * w) * (y + z)
    OBVIOUS
  <2>2. k * w \in Nat /\ y + z \in Nat
    OBVIOUS
  <2>3. x <= y + z => (k * w) * x <= (k * w) * (y + z)
    BY <2>2, ProductGrows
  <2>4. QED
    BY <2>1, <2>3
<1>2. Inflow(m, v) <= Inflow(n, v) + Inflow(a, v)
  <2> DEFINE F(f) == [u \in Vertices |-> (Coef(u) * f[u]) * Weight(u, v)]
  <2>1. \A f \in [Vertices -> Nat] : F(f) \in [Vertices -> Nat] /\ Inflow(f, v) = SumFunction(F(f))
    <3> TAKE f \in [Vertices -> Nat]
    <3>1. \A u \in Vertices : Coef(u) \in Nat /\ f[u] \in Nat /\ Weight(u, v) \in Nat
      BY CoefOK, WeightsOK
    <3>2. \A x, y, z \in Nat : (x * y) * z \in Nat
      OBVIOUS
    <3>3. F(f) \in [Vertices -> Nat]
      BY <3>1, <3>2
    <3>4. QED
      BY <3>3 DEF Inflow
  <2>2. \A u \in Vertices : F(m)[u] <= F(n)[u] + F(a)[u]
    <3> TAKE u \in Vertices
    <3>1. PICK k, w \in Nat : k = Coef(u) /\ w = Weight(u, v)
      BY CoefOK, WeightsOK
    <3>2. CASE u \in Connected
      BY <1>1, <3>1, <3>2
    <3>3. CASE u \notin Connected
      <4>1. w = 0
        BY <3>1, <3>3, WeightsOK
      <4>2. \A x \in Nat : (k * x) * 0 = 0
        OBVIOUS
      <4>3. m[u] \in Nat /\ n[u] \in Nat /\ a[u] \in Nat
        OBVIOUS
      <4>4. (k * m[u]) * w = 0 /\ (k * n[u]) * w = 0 /\ (k * a[u]) * w = 0
        BY <4>1, <4>2, <4>3
      <4>5. QED
        BY <3>1, <4>4
    <3>4. QED
      BY <3>2, <3>3
  <2>3. PICK f, fs, h \in [Vertices -> Nat] : f = F(m) /\ fs = F(n) /\ h = F(a)
    BY <2>1
  <2>4. \A u \in Vertices : f[u] <= fs[u] + h[u]
    <3> HIDE DEF F
    <3> QED BY <2>2, <2>3
  <2> HIDE DEF F
  <2>5. SumFunction(f) <= SumFunction(fs) + SumFunction(h)
    BY <2>4, SumsAtMost, ConstantsOK
  <2>6. QED
    BY <2>1, <2>3, <2>5
<1>3. Stay(m, v) <= Stay(n, v) + Stay(a, v)
  <2>1. CASE Dangling(v)
    <3>1. v \in Connected
      BY <2>1, OutOK
    <3>2. PpvCoef \in Nat /\ ppv[v] \in Nat
      <4>1. ppv[v] \in 0 .. PpvUnit
        BY DEF PpvOK
      <4>2. QED
        BY <4>1, PpvCoefOK, ConstantsOK
    <3>3. (PpvCoef * m[v]) * ppv[v] <= (PpvCoef * n[v]) * ppv[v] + (PpvCoef * a[v]) * ppv[v]
      BY <1>1, <3>1, <3>2
    <3>4. QED
      BY <2>1, <3>3 DEF Stay
  <2>2. CASE ~ Dangling(v)
    BY <2>2 DEF Stay
  <2>3. QED
    BY <2>1, <2>2
<1>4. QED
  BY <1>2, <1>3, FlowIsNumber DEF Flow

\* The vertices with an edge are finitely many.
LEMMA ConnectedOK == Connected \in SUBSET Vertices /\ IsFiniteSet(Connected)
<1>1. Connected \in SUBSET Vertices
  BY DEF Connected
<1>2. QED
  BY <1>1, ConstantsOK, FS_Subset

\* The distance of two numbers.
LEMMA AbsOK ==
  ASSUME NEW x \in Nat, NEW y \in Nat
  PROVE  /\ Abs(x - y) \in Nat /\ Abs(x - y) <= x + y
         /\ x <= y + Abs(x - y) /\ y <= x + Abs(x - y)
         /\ \A d \in Nat : x <= y + d /\ y <= x + d => Abs(x - y) <= d
BY DEF Abs

\* A common factor of two numbers is one of their distance.
LEMMA AbsScaled ==
  ASSUME NEW k \in Nat, NEW x \in Nat, NEW y \in Nat
  PROVE  Abs(k * x - k * y) = k * Abs(x - y)
<1>1. CASE x <= y
  <2>1. PICK r \in Nat : y = x + r
    <3>1. y - x \in Nat /\ y = x + (y - x)
      BY <1>1
    <3>2. QED
      BY <3>1
  <2>2. k * (x + r) = k * x + k * r /\ k * x \in Nat /\ k * r \in Nat
    OBVIOUS
  <2>3. Abs(x - y) = r /\ Abs(k * x - k * y) = k * r
    BY <2>1, <2>2 DEF Abs
  <2>4. QED
    BY <2>3
<1>2. CASE y <= x
  <2>1. PICK r \in Nat : x = y + r
    <3>1. x - y \in Nat /\ x = y + (x - y)
      BY <1>2
    <3>2. QED
      BY <3>1
  <2>2. k * (y + r) = k * y + k * r /\ k * y \in Nat /\ k * r \in Nat
    OBVIOUS
  <2>3. Abs(x - y) = r /\ Abs(k * x - k * y) = k * r
    BY <2>1, <2>2 DEF Abs
  <2>4. QED
    BY <2>3
<1>3. QED
  BY <1>1, <1>2

\* The sum of the vertices that are not isolated.
Mass(f) == SumFunction([v \in Connected |-> f[v]])

\* The distance of two vectors is a number, at most their masses.
LEMMA DistanceOK ==
  ASSUME NEW f \in [Vertices -> Nat], NEW fs \in [Vertices -> Nat]
  PROVE  Distance(f, fs) \in Nat /\ Mass(f) \in Nat /\ Distance(f, fs) <= Mass(f) + Mass(fs)
<1>1. PICK d : d = [v \in Connected |-> Abs(f[v] - fs[v])]
  OBVIOUS
<1>2. PICK x : x = [v \in Connected |-> f[v]]
  OBVIOUS
<1>3. PICK y : y = [v \in Connected |-> fs[v]]
  OBVIOUS
<1>4. \A v \in Connected : f[v] \in Nat /\ fs[v] \in Nat
  BY ConnectedOK
<1>5. d \in [Connected -> Nat] /\ x \in [Connected -> Nat] /\ y \in [Connected -> Nat]
  BY <1>1, <1>2, <1>3, <1>4, AbsOK
<1>6. \A v \in Connected : d[v] <= x[v] + y[v]
  BY <1>1, <1>2, <1>3, <1>4, AbsOK
<1>7. SumFunction(d) <= SumFunction(x) + SumFunction(y)
  BY <1>5, <1>6, ConnectedOK, SumsAtMost
<1>8. SumFunction(d) \in Nat /\ SumFunction(x) \in Nat
  BY <1>5, ConnectedOK, SumIsNumber
<1>9. QED
  BY <1>1, <1>2, <1>3, <1>7, <1>8 DEF Distance, Mass

\* Two steps in a row: the second is shorter than the first by the damping.
Scaled(f, e, m)   == \A u \in Connected : f[u] = (Denominator * e) * m[u]
RanksOf(new, old) == \A u \in Connected : new[u] = Rank(old, u)

LEMMA StepContracts ==
  ASSUME GraphOK, PpvOK, NEW e \in Nat, NEW m \in [Vertices -> Nat], NEW n \in [Vertices -> Nat],
         NEW old \in [Vertices -> Nat], NEW from \in [Vertices -> Nat], NEW new \in [Vertices -> Nat],
         Scaled(from, e, m), Scaled(old, e, n), RanksOf(from, old), RanksOf(new, from)
  PROVE  DampDen * Distance(new, from) <= DampNum * Distance(from, old)
<1>0. /\ \A u \in Connected : from[u] = (Denominator * e) * m[u] /\ old[u] = (Denominator * e) * n[u]
      /\ \A u \in Connected : from[u] = Rank(old, u) /\ new[u] = Rank(from, u)
  BY DEF Scaled, RanksOf
<1>1. PICK d, k, p \in Nat : d = DampDen /\ k = DampNum /\ p = Denominator
  BY ConstantsOK
<1>2. PICK a : a = [u \in Vertices |-> IF u \in Connected THEN Abs(m[u] - n[u]) ELSE 0]
  OBVIOUS
<1>3. a \in [Vertices -> Nat]
  BY <1>2, AbsOK
<1>4. PICK f : f = [v \in Vertices |-> Flow(a, v)]
  OBVIOUS
<1>5. f \in [Vertices -> Nat]
  BY <1>3, <1>4, FlowIsNumber
<1>6. \A u \in Connected : m[u] <= n[u] + a[u] /\ n[u] <= m[u] + a[u]
  BY <1>2, AbsOK, ConnectedOK
<1>7. \A v \in Connected : Abs(new[v] - from[v]) <= (k * e) * f[v] /\ Abs(new[v] - from[v]) \in Nat
  <2> TAKE v \in Connected
  <2>1. v \in Vertices
    BY ConnectedOK
  <2>2. PICK x, y, b \in Nat : x = Flow(m, v) /\ y = Flow(n, v) /\ b = Base * ppv[v]
    <3>1. ppv[v] \in 0 .. PpvUnit
      BY <2>1 DEF PpvOK
    <3>2. ppv[v] \in Nat /\ Base \in Nat
      BY <3>1, ConstantsOK, BaseOK
    <3>3. Base * ppv[v] \in Nat
      BY <3>2
    <3>4. QED
      BY <2>1, <3>3, FlowIsNumber
  <2>3. x <= y + f[v] /\ y <= x + f[v]
    BY <1>3, <1>4, <1>6, <2>1, <2>2, FlowLess
  <2>4. new[v] = (k * e) * x + b
    BY <1>0, <1>1, <2>2, RankIs
  <2>5. from[v] = (k * e) * y + b
    BY <1>0, <1>1, <2>2, RankIs
  <2>6. f[v] \in Nat /\ k * e \in Nat /\ y + f[v] \in Nat /\ x + f[v] \in Nat
    BY <1>5, <2>1
  <2>7. (k * e) * x <= (k * e) * (y + f[v])
    BY <2>3, <2>6, ProductGrows
  <2>8. (k * e) * y <= (k * e) * (x + f[v])
    BY <2>3, <2>6, ProductGrows
  <2>9. \A q, r, s \in Nat : q * (r + s) = q * r + q * s /\ q * r \in Nat
    OBVIOUS
  <2>10. new[v] <= from[v] + (k * e) * f[v] /\ from[v] <= new[v] + (k * e) * f[v]
    <3>1. (k * e) * (y + f[v]) = (k * e) * y + (k * e) * f[v]
      BY <2>6, <2>9
    <3>2. (k * e) * (x + f[v]) = (k * e) * x + (k * e) * f[v]
      BY <2>6, <2>9
    <3>3. (k * e) * x \in Nat /\ (k * e) * y \in Nat /\ (k * e) * f[v] \in Nat
      BY <2>6, <2>9
    <3>4. QED
      BY <2>4, <2>5, <2>7, <2>8, <3>1, <3>2, <3>3
  <2>11. new[v] \in Nat /\ from[v] \in Nat /\ (k * e) * f[v] \in Nat
    BY <2>1, <2>6, <2>9
  <2>12. QED
    BY <2>10, <2>11, AbsOK
<1>8. PICK fs : fs = [v \in Vertices |-> IF v \in Connected THEN Abs(new[v] - from[v]) ELSE 0]
  OBVIOUS
<1>9. fs \in [Vertices -> Nat]
  BY <1>7, <1>8
<1>10. SumFunction(fs) = Distance(new, from)
  <2>1. PICK h : h = [v \in Connected |-> Abs(new[v] - from[v])]
    OBVIOUS
  <2>2. h \in [Connected -> Nat]
    BY <1>7, <2>1
  <2>3. (\A v \in Connected : fs[v] = h[v]) /\ \A v \in Vertices \ Connected : fs[v] = 0
    BY <1>8, <2>1, ConnectedOK
  <2>4. SumFunction(fs) = SumFunction(h)
    <3>1. ZeroBeyond(fs, Vertices, h, Connected)
      BY <1>9, <2>2, <2>3, ConnectedOK, ConstantsOK DEF ZeroBeyond
    <3>2. QED
      BY <3>1, SumWithin
  <2>5. QED
    BY <2>1, <2>4 DEF Distance
<1>11. SumFunction(fs) <= (k * e) * SumFunction(f)
  <2>1. k * e \in Nat
    OBVIOUS
  <2>2. PICK h : h = [v \in Vertices |-> (k * e) * f[v]]
    OBVIOUS
  <2>3. \A x, y \in Nat : x * y \in Nat
    OBVIOUS
  <2>4. h \in [Vertices -> Nat] /\ \A v \in Vertices : h[v] = (k * e) * f[v]
    BY <1>5, <2>1, <2>2, <2>3
  <2>5. SumFunction(h) = (k * e) * SumFunction(f)
    BY <1>5, <2>1, <2>4, ConstantsOK, SumScaled
  <2>6. \A v \in Vertices : fs[v] <= h[v]
    BY <1>7, <1>8, <2>4
  <2>7. SumFunction(fs) <= SumFunction(h)
    BY <1>9, <2>4, <2>6, ConstantsOK, SumLess
  <2>8. QED
    BY <2>5, <2>7
<1>12. Distance(from, old) = (p * e) * SumFunction(a)
  <2>1. PICK h : h = [v \in Connected |-> Abs(from[v] - old[v])]
    OBVIOUS
  <2>2. PICK b : b = [v \in Connected |-> Abs(m[v] - n[v])]
    OBVIOUS
  <2>3. b \in [Connected -> Nat] /\ p * e \in Nat
    <3>1. \A v \in Connected : Abs(m[v] - n[v]) \in Nat
      BY AbsOK, ConnectedOK
    <3>2. b \in [Connected -> Nat]
      BY <2>2, <3>1
    <3>3. p * e \in Nat
      OBVIOUS
    <3>4. QED
      BY <3>2, <3>3
  <2>4. \A v \in Connected : h[v] = (p * e) * b[v] /\ h[v] \in Nat
    <3> TAKE v \in Connected
    <3>1. m[v] \in Nat /\ n[v] \in Nat
      BY ConnectedOK
    <3>2. h[v] = (p * e) * Abs(m[v] - n[v])
      <4>1. Abs((p * e) * m[v] - (p * e) * n[v]) = (p * e) * Abs(m[v] - n[v])
        <5>1. PICK x \in Nat, y \in Nat, z \in Nat : x = m[v] /\ y = n[v] /\ z = p * e
          BY <2>3, <3>1
        <5>2. Abs(z * x - z * y) = z * Abs(x - y)
          BY AbsScaled
        <5>3. QED
          BY <5>1, <5>2
      <4>2. from[v] = (p * e) * m[v] /\ old[v] = (p * e) * n[v]
        BY <1>0, <1>1
      <4>3. QED
        BY <2>1, <4>1, <4>2
    <3>3. h[v] = (p * e) * b[v] /\ b[v] \in Nat
      BY <2>2, <2>3, <3>2
    <3>4. \A x \in Nat : (p * e) * x \in Nat
      OBVIOUS
    <3>5. QED
      BY <3>3, <3>4
  <2>5. h \in [Connected -> Nat]
    BY <2>1, <2>4
  <2>6. SumFunction(h) = (p * e) * SumFunction(b)
    BY <2>3, <2>4, <2>5, ConnectedOK, SumScaled
  <2>7. (\A v \in Connected : a[v] = b[v]) /\ \A v \in Vertices \ Connected : a[v] = 0
    BY <1>2, <2>2, ConnectedOK
  <2>8. SumFunction(a) = SumFunction(b)
    <3>1. ZeroBeyond(a, Vertices, b, Connected)
      BY <1>3, <2>3, <2>7, ConnectedOK, ConstantsOK DEF ZeroBeyond
    <3>2. QED
      BY <3>1, SumWithin
  <2>9. QED
    BY <2>1, <2>6, <2>8 DEF Distance
<1>13. PICK x, y, z \in Nat : x = SumFunction(fs) /\ y = SumFunction(f) /\ z = SumFunction(a)
  BY <1>3, <1>5, <1>9, ConstantsOK, SumIsNumber
<1>14. d * y <= p * z
  <2>1. \A v \in Vertices : f[v] = Flow(a, v)
    BY <1>4
  <2>2. DampDen * SumFunction(f) <= Denominator * SumFunction(a)
    BY <1>3, <1>5, <2>1, FlowMass
  <2>3. QED
    BY <1>1, <1>13, <2>2
<1>15. d * x <= k * ((p * e) * z)
  <2>1. d * x <= d * ((k * e) * y)
    <3>1. (k * e) * y \in Nat /\ x <= (k * e) * y
      BY <1>11, <1>13
    <3>2. QED
      BY <3>1, ProductGrows
  <2>2. (k * e) * (d * y) <= (k * e) * (p * z)
    <3>1. k * e \in Nat /\ d * y \in Nat /\ p * z \in Nat
      OBVIOUS
    <3>2. QED
      BY <1>14, <3>1, ProductGrows
  <2>3. d * ((k * e) * y) = (k * e) * (d * y) /\ (k * e) * (p * z) = k * ((p * e) * z)
    OBVIOUS
  <2>4. d * x \in Nat /\ (k * e) * (d * y) \in Nat /\ (k * e) * (p * z) \in Nat
    OBVIOUS
  <2>5. QED
    BY <2>1, <2>2, <2>3, <2>4
<1>16. QED
  BY <1>1, <1>10, <1>12, <1>13, <1>15

-----------------------------------------------------------------------------
(* One iteration.                                                          *)

\* The vertices that are not isolated have multiples of a power of the denominator.
Multiple(f, k) ==
  \E m \in [Vertices -> Nat] :
    /\ \A u \in Connected : f[u] = Power(Denominator)[k] * m[u]
    /\ \A u \in Vertices \ Connected : m[u] = 0

\* The powers of the denominator, as the proofs of the steps take them.
LEMMA PowersOfDenominator ==
  ASSUME NEW k \in Nat
  PROVE  /\ Power(Denominator)[k] \in Nat \ {0} /\ Power(Denominator)[k + 1] = Denominator * Power(Denominator)[k]
         /\ \A j \in Nat : \E q \in Nat : Power(Denominator)[k + j] = Power(Denominator)[k] * q
<1>1. Denominator \in Nat /\ Denominator \in Nat \ {0}
  BY ConstantsOK
<1>2. Power(Denominator)[k] \in Nat \ {0}
  BY <1>1, PowerPositive
<1>3. Power(Denominator)[k + 1] = Denominator * Power(Denominator)[k]
  BY <1>1, PowerUnfolds
<1>4. \A j \in Nat : \E q \in Nat : Power(Denominator)[k + j] = Power(Denominator)[k] * q
  BY <1>1, PowerDivides
<1>5. QED
  BY <1>2, <1>3, <1>4

\* What is let in from outside is a multiple of each power that is still to come.
LEMMA BaseIsMultiple ==
  ASSUME NEW k \in Nat, k + 1 <= MaxInt
  PROVE  \E q \in Nat : Base = Power(Denominator)[k] * q
<1>1. PICK r \in Nat : Base = Power(Denominator)[MaxInt - 1] * r
  BY BaseOK
<1>2. PICK j \in Nat : MaxInt - 1 = k + j
  <2>1. (MaxInt - 1) - k \in Nat /\ MaxInt - 1 = k + ((MaxInt - 1) - k)
    BY ConstantsOK
  <2>2. QED
    BY <2>1
<1>3. PICK q \in Nat : Power(Denominator)[k + j] = Power(Denominator)[k] * q
  BY PowersOfDenominator
<1>4. PICK p \in Nat : p = Power(Denominator)[k]
  BY PowersOfDenominator
<1>5. (p * q) * r = p * (q * r) /\ q * r \in Nat
  OBVIOUS
<1>6. QED
  BY <1>1, <1>2, <1>3, <1>4, <1>5

\* What one iteration makes of multiples.
LEMMA StepIs ==
  ASSUME GraphOK, PpvOK, NEW k \in Nat, k + 1 <= MaxInt, NEW from \in [Vertices -> Nat],
         Multiple(from, k + 1), NEW to \in [Vertices -> Nat]
  PROVE  /\ Update(from, to) \in [Vertices -> Nat]
         /\ \A v \in Connected : Update(from, to)[v] = Rank(from, v)
         /\ Multiple(Update(from, to), k)
<1>1. PICK e \in Nat : e = Power(Denominator)[k] /\ Power(Denominator)[k + 1] = Denominator * e
  BY PowersOfDenominator
<1>2. PICK m \in [Vertices -> Nat] : \A u \in Connected : from[u] = (Denominator * e) * m[u]
  BY <1>1 DEF Multiple
<1>3. PICK q \in Nat : Base = e * q
  BY <1>1, BaseIsMultiple
<1>4. PICK n : n = [v \in Vertices |-> IF v \in Connected THEN DampNum * Flow(m, v) + q * ppv[v] ELSE 0]
  OBVIOUS
<1>5. \A v \in Connected : Rank(from, v) = e * n[v] /\ n[v] \in Nat
  <2> TAKE v \in Connected
  <2>1. v \in Vertices
    BY ConnectedOK
  <2>2. PICK x, p, d \in Nat : x = Flow(m, v) /\ p = ppv[v] /\ d = DampNum
    <3>1. ppv[v] \in 0 .. PpvUnit
      BY <2>1 DEF PpvOK
    <3>2. QED
      BY <2>1, <3>1, FlowIsNumber, ConstantsOK
  <2>3. Rank(from, v) = (d * e) * x + (e * q) * p
    BY <1>2, <1>3, <2>2, RankIs
  <2>4. (d * e) * x + (e * q) * p = e * (d * x + q * p) /\ d * x + q * p \in Nat
    OBVIOUS
  <2>5. n[v] = d * x + q * p
    BY <1>4, <2>1, <2>2
  <2>6. QED
    BY <2>3, <2>4, <2>5
<1>6. n \in [Vertices -> Nat] /\ \A u \in Vertices \ Connected : n[u] = 0
  BY <1>4, <1>5
<1>7. \A v \in Connected : Update(from, to)[v] = Rank(from, v)
  BY DEF Update, Connected
<1>8. Update(from, to) \in [Vertices -> Nat]
  <2>1. \A v \in Connected : Rank(from, v) \in Nat
    <3>1. \A x \in Nat : e * x \in Nat
      OBVIOUS
    <3>2. QED
      BY <1>5, <3>1
  <2>2. \A v \in Vertices : (IF Isolated(v) THEN to[v] ELSE Rank(from, v)) \in Nat
    BY <2>1 DEF Connected
  <2>3. QED
    BY <2>2 DEF Update
<1>9. \A v \in Connected : Update(from, to)[v] = Power(Denominator)[k] * n[v]
  BY <1>1, <1>5, <1>7
<1>10. QED
  BY <1>6, <1>7, <1>8, <1>9 DEF Multiple

\* Multiples are divided without a rest.
LEMMA StepIsExact ==
  ASSUME GraphOK, PpvOK, NEW k \in Nat, NEW from \in [Vertices -> Nat], Multiple(from, k + 1),
         NEW u \in Connected
  PROVE  /\ Out(u) # 0 => from[u] % (Out(u) * DampDen) = 0
         /\ (Damp(from[u]) * ppv[u]) % PpvUnit = 0
<1>1. PICK e \in Nat : e = Power(Denominator)[k] /\ Power(Denominator)[k + 1] = Denominator * e
  BY PowersOfDenominator
<1>2. PICK m \in [Vertices -> Nat] : \A v \in Connected : from[v] = (Denominator * e) * m[v]
  BY <1>1 DEF Multiple
<1>3. u \in Vertices
  BY ConnectedOK
<1>4. PICK d, n, w, c, x, p, o, f \in Nat : /\ d = DampDen /\ n = DampNum /\ w = PpvUnit /\ c = PpvCoef
                                            /\ x = m[u] /\ p = ppv[u] /\ o = Out(u) /\ f = Coef(u)
  <2>1. ppv[u] \in 0 .. PpvUnit
    BY <1>3 DEF PpvOK
  <2>2. DampDen \in Nat /\ DampNum \in Nat /\ PpvUnit \in Nat /\ PpvCoef \in Nat
    BY ConstantsOK, PpvCoefOK
  <2>3. m[u] \in Nat /\ ppv[u] \in Nat /\ Out(u) \in Nat /\ Coef(u) \in Nat
    BY <1>3, <2>1, <2>2, CoefOK, OutOK
  <2>4. QED
    BY <2>2, <2>3
<1>5. d # 0 /\ w # 0
  BY <1>4, ConstantsOK
<1>6. (Damp(from[u]) * ppv[u]) % PpvUnit = 0
  <2>1. n * ((((d * w) * c) * e) * x) = d * (((w * c) * (n * e)) * x) /\ ((w * c) * (n * e)) * x \in Nat
    OBVIOUS
  <2>2. from[u] = (((d * w) * c) * e) * x
    BY <1>2, <1>4, PpvCoefOK
  <2>3. Damp(from[u]) = (d * (((w * c) * (n * e)) * x)) \div d
    BY <1>4, <2>1, <2>2 DEF Damp
  <2>4. Damp(from[u]) = ((w * c) * (n * e)) * x
    BY <1>5, <2>1, <2>3, Exactly
  <2>5. (((w * c) * (n * e)) * x) * p = w * ((c * (n * e)) * (x * p)) /\ (c * (n * e)) * (x * p) \in Nat
    OBVIOUS
  <2>6. (w * ((c * (n * e)) * (x * p))) % w = 0
    BY <1>5, <2>5, Exactly
  <2>7. QED
    BY <1>4, <2>4, <2>5, <2>6
<1>7. ASSUME Out(u) # 0 PROVE from[u] % (Out(u) * DampDen) = 0
  <2>1. from[u] = (((d * o) * f) * e) * x
    BY <1>2, <1>3, <1>4, <1>7, CoefOK
  <2>2. (((d * o) * f) * e) * x = (o * d) * ((f * e) * x) /\ (f * e) * x \in Nat
    OBVIOUS
  <2>3. o * d \in Nat \ {0}
    BY <1>4, <1>5, <1>7
  <2>4. ((o * d) * ((f * e) * x)) % (o * d) = 0
    BY <2>2, <2>3, Exactly
  <2>5. QED
    BY <1>4, <2>1, <2>2, <2>4
<1>8. QED
  BY <1>6, <1>7

Full == Connected = Vertices /\ (\A v \in Vertices : ~ Dangling(v)) /\ SumFunction(ppv) = PpvUnit

\* Nothing is added to all of the rank; nothing is lost of it where nothing can be.
LEMMA StepKeepsMass ==
  ASSUME GraphOK, PpvOK, SumFunction(ppv) <= PpvUnit, NEW k \in Nat, k + 1 <= MaxInt,
         NEW from \in [Vertices -> Nat], Multiple(from, k + 1), NEW new \in [Vertices -> Nat],
         \A v \in Connected : new[v] = Rank(from, v)
  PROVE  /\ Mass(from) <= Unit => Mass(new) <= Unit
         /\ Full /\ Mass(from) = Unit => Mass(new) = Unit
<1>1. PICK e \in Nat : e = Power(Denominator)[k] /\ Power(Denominator)[k + 1] = Denominator * e
  BY PowersOfDenominator
<1>2. PICK m \in [Vertices -> Nat] : /\ \A u \in Connected : from[u] = (Denominator * e) * m[u]
                                     /\ \A u \in Vertices \ Connected : m[u] = 0
  BY <1>1 DEF Multiple
<1>3. PICK d, n, w, b, a, p, r, t \in Nat :
        /\ d = DampDen /\ n = DampNum /\ w = PpvUnit /\ b = Base /\ a = Unit /\ p = Denominator
        /\ r = Damp(Unit) /\ t = SumFunction(ppv)
  <2>1. ppv \in [Vertices -> Nat]
    BY ConstantsOK DEF PpvOK
  <2>2. SumFunction(ppv) \in Nat
    BY <2>1, ConstantsOK, SumIsNumber
  <2>3. QED
    BY <2>2, ConstantsOK, BaseOK
<1>4. d * r = n * a /\ a = r + w * b /\ t <= w /\ d # 0
  BY <1>3, BaseOK, ConstantsOK
<1>5. PICK f : f = [v \in Vertices |-> Flow(m, v)]
  OBVIOUS
<1>6. f \in [Vertices -> Nat] /\ \A v \in Vertices : f[v] = Flow(m, v)
  BY <1>5, FlowIsNumber
<1>7. PICK x, y \in Nat : x = SumFunction(f) /\ y = SumFunction(m)
  BY <1>6, ConstantsOK, SumIsNumber
<1>8. d * x <= p * y /\ ((\A u \in Vertices : Out(u) # 0 \/ m[u] = 0) => d * x = p * y)
  BY <1>3, <1>6, <1>7, FlowMass
<1>9. Mass(from) = (p * e) * y
  <2>1. PICK fs : fs = [v \in Connected |-> from[v]]
    OBVIOUS
  <2>2. PICK h : h = [v \in Connected |-> m[v]]
    OBVIOUS
  <2>3. fs \in [Connected -> Nat] /\ h \in [Connected -> Nat] /\ p * e \in Nat
    <3>1. \A v \in Connected : from[v] \in Nat /\ m[v] \in Nat
      BY ConnectedOK
    <3>2. p * e \in Nat
      OBVIOUS
    <3>3. QED
      BY <2>1, <2>2, <3>1, <3>2
  <2>4. \A v \in Connected : fs[v] = (p * e) * h[v]
    BY <1>2, <1>3, <2>1, <2>2
  <2>5. SumFunction(fs) = (p * e) * SumFunction(h)
    BY <2>3, <2>4, ConnectedOK, SumScaled
  <2>6. ZeroBeyond(m, Vertices, h, Connected)
    BY <1>2, <2>2, <2>3, ConnectedOK, ConstantsOK DEF ZeroBeyond
  <2>7. SumFunction(m) = SumFunction(h)
    BY <2>6, SumWithin
  <2>8. QED
    BY <1>7, <2>1, <2>5, <2>7 DEF Mass
<1>10. PICK s : s = [v \in Vertices |-> (n * e) * f[v] + b * ppv[v]]
  OBVIOUS
<1>11. \A v \in Connected : new[v] = s[v]
  BY <1>2, <1>3, <1>6, <1>10, RankIs, ConnectedOK
<1>12. s \in [Vertices -> Nat] /\ SumFunction(s) = (n * e) * x + b * t
  <2>1. PICK fs : fs = [v \in Vertices |-> (n * e) * f[v]]
    OBVIOUS
  <2>2. PICK h : h = [v \in Vertices |-> b * ppv[v]]
    OBVIOUS
  <2>3. ppv \in [Vertices -> Nat] /\ n * e \in Nat /\ \A x1, j \in Nat : x1 * j \in Nat
    <3>1. ppv \in [Vertices -> Nat]
      BY ConstantsOK DEF PpvOK
    <3>2. n * e \in Nat /\ \A x1, j \in Nat : x1 * j \in Nat
      OBVIOUS
    <3>3. QED
      BY <3>1, <3>2
  <2>4. fs \in [Vertices -> Nat] /\ h \in [Vertices -> Nat]
    BY <1>6, <2>1, <2>2, <2>3
  <2>5. SumFunction(fs) = (n * e) * SumFunction(f)
    <3>1. \A v \in Vertices : fs[v] = (n * e) * f[v]
      BY <2>1
    <3>2. QED
      BY <1>6, <2>3, <2>4, <3>1, ConstantsOK, SumScaled
  <2>6. SumFunction(h) = b * SumFunction(ppv)
    <3>1. \A v \in Vertices : h[v] = b * ppv[v]
      BY <2>2
    <3>2. QED
      BY <2>3, <2>4, <3>1, ConstantsOK, SumScaled
  <2>7. \A v \in Vertices : s[v] = fs[v] + h[v]
    BY <1>10, <2>1, <2>2
  <2>8. s \in [Vertices -> Nat]
    <3>1. \A v \in Vertices : fs[v] + h[v] \in Nat
      BY <2>4
    <3>2. s = [v \in Vertices |-> fs[v] + h[v]]
      BY <1>10, <2>1, <2>2
    <3>3. QED
      BY <3>1, <3>2
  <2>9. SumFunction(s) = SumFunction(fs) + SumFunction(h)
    BY <2>4, <2>7, <2>8, ConstantsOK, SumPlus
  <2>10. QED
    BY <1>3, <1>7, <2>5, <2>6, <2>8, <2>9
<1>13. Mass(new) <= (n * e) * x + b * t /\ Mass(new) \in Nat
       /\ (Connected = Vertices => Mass(new) = (n * e) * x + b * t)
  <2>1. PICK fs : fs = [v \in Vertices |-> IF v \in Connected THEN new[v] ELSE 0]
    OBVIOUS
  <2>2. PICK h : h = [v \in Connected |-> new[v]]
    OBVIOUS
  <2>3. fs \in [Vertices -> Nat] /\ h \in [Connected -> Nat]
    BY <2>1, <2>2, ConnectedOK
  <2>4. ZeroBeyond(fs, Vertices, h, Connected)
    BY <2>1, <2>2, <2>3, ConnectedOK, ConstantsOK DEF ZeroBeyond
  <2>5. SumFunction(fs) = Mass(new)
    BY <2>2, <2>4, SumWithin DEF Mass
  <2>6. \A v \in Vertices : fs[v] <= s[v]
    BY <1>11, <1>12, <2>1
  <2>7. SumFunction(fs) <= SumFunction(s)
    BY <1>12, <2>3, <2>6, ConstantsOK, SumLess
  <2>8. Connected = Vertices => fs = s
    BY <1>11, <1>12, <2>1, <2>3
  <2>9. SumFunction(fs) \in Nat
    BY <2>3, ConstantsOK, SumIsNumber
  <2>10. QED
    BY <1>12, <2>5, <2>7, <2>8, <2>9
<1>14. d * ((n * e) * x + b * t) = (n * e) * (d * x) + (d * b) * t
       /\ n * ((p * e) * y) = (n * e) * (p * y)
       /\ d * (r + w * b) = d * r + (d * b) * w
  OBVIOUS
<1>15. (n * e) * (d * x) \in Nat /\ (n * e) * (p * y) \in Nat /\ (d * b) * t \in Nat /\ (d * b) * w \in Nat
       /\ (n * e) * x + b * t \in Nat /\ n * e \in Nat /\ d * x \in Nat /\ p * y \in Nat /\ d * b \in Nat
       /\ (p * e) * y \in Nat /\ d * r \in Nat
  OBVIOUS
<1>16. (n * e) * (d * x) <= (n * e) * (p * y)
  BY <1>8, <1>15, ProductGrows
<1>17. (d * b) * t <= (d * b) * w
  BY <1>4, <1>15, ProductGrows
<1>18. ASSUME Mass(from) <= Unit PROVE Mass(new) <= Unit
  <2>1. n * ((p * e) * y) <= n * a
    BY <1>3, <1>9, <1>15, <1>18, ProductGrows
  <2>2. d * ((n * e) * x + b * t) <= d * a
    <3>1. d * a = d * r + (d * b) * w
      BY <1>4, <1>14
    <3>2. (n * e) * (p * y) <= d * r
      BY <1>4, <1>14, <2>1
    <3>3. QED
      BY <1>14, <1>15, <1>16, <1>17, <3>1, <3>2
  <2>3. ASSUME NEW x1 \in Nat, NEW j \in Nat, d * x1 <= d * j PROVE x1 <= j
    <3>1. SUFFICES ASSUME j + 1 <= x1 PROVE FALSE
      OBVIOUS
    <3>2. d * (j + 1) <= d * x1
      BY <3>1, ProductGrows
    <3>3. d * (j + 1) = d * j + d /\ d * j \in Nat /\ d * x1 \in Nat
      OBVIOUS
    <3>4. QED
      BY <1>4, <2>3, <3>2, <3>3
  <2>4. (n * e) * x + b * t <= a
    BY <1>15, <2>2, <2>3
  <2>5. QED
    BY <1>3, <1>13, <1>15, <2>4
<1>19. ASSUME Full, Mass(from) = Unit PROVE Mass(new) = Unit
  <2>1. \A u \in Vertices : Out(u) # 0
    BY <1>19, OutOK DEF Full
  <2>2. d * x = p * y /\ t = w
    BY <1>3, <1>8, <1>19, <2>1 DEF Full
  <2>3. (p * e) * y = a
    BY <1>3, <1>9, <1>19
  <2>4. d * ((n * e) * x + b * t) = d * a
    BY <1>4, <1>14, <2>2, <2>3
  <2>5. PICK z \in Nat : z = (n * e) * x + b * t
    BY <1>15
  <2>6. (d * z) \div d = z /\ (d * a) \div d = a
    BY <1>4, Exactly
  <2>7. z = a
    BY <2>4, <2>5, <2>6
  <2>8. QED
    BY <1>3, <1>13, <1>19, <2>5, <2>7 DEF Full
<1>20. QED
  BY <1>18, <1>19

-----------------------------------------------------------------------------
(* The power method.                                                       *)

\* Its steps.
TextStep(r) ==
  [v \in Connected |->
    SumFunction([u \in {w \in Connected : IsEdge(w, v)} |->
                  (DampNum * r[u] * Weight(u, v)) \div (DampDen * Out(u))])
    + (Unit * (DampDen - DampNum) * ppv[v]) \div (DampDen * PpvUnit)]

TextStart == [v \in Connected |-> Unit \div (IF ofKb THEN Cardinality(Vertices) ELSE Cardinality(Connected))]

\* What does not come over edges is a number.
LEMMA TextBase ==
  ASSUME PpvOK, NEW v \in Vertices
  PROVE  (Unit * (DampDen - DampNum) * ppv[v]) \div (DampDen * PpvUnit) = Base * ppv[v] /\ Base * ppv[v] \in Nat
<1>1. ppv[v] \in 0 .. PpvUnit
  BY DEF PpvOK
<1>2. PICK d, n, w, b, a, r, p \in Nat : /\ d = DampDen /\ n = DampNum /\ w = PpvUnit /\ b = Base /\ a = Unit
                                         /\ r = Damp(Unit) /\ p = ppv[v]
  <2>1. DampDen \in Nat /\ DampNum \in Nat /\ PpvUnit \in Nat /\ Unit \in Nat
    BY ConstantsOK
  <2>2. Base \in Nat /\ Damp(Unit) \in Nat /\ ppv[v] \in Nat
    BY <1>1, <2>1, BaseOK
  <2>3. QED
    BY <2>1, <2>2
<1>3. d * r = n * a /\ a = r + w * b /\ d # 0 /\ w # 0
  BY <1>2, BaseOK, ConstantsOK
<1>4. a * (d - n) = (d * w) * b
  <2>1. a * (d - n) = d * a - n * a /\ d * (r + w * b) = d * r + (d * w) * b
    OBVIOUS
  <2>2. d * a \in Nat /\ n * a \in Nat /\ d * r \in Nat /\ (d * w) * b \in Nat
    OBVIOUS
  <2>3. QED
    BY <1>3, <2>1, <2>2
<1>5. a * (d - n) * p = (d * w) * (b * p)
  <2>1. ((d * w) * b) * p = (d * w) * (b * p)
    OBVIOUS
  <2>2. QED
    BY <1>4, <2>1
<1>6. d * w \in Nat \ {0} /\ b * p \in Nat
  BY <1>3
<1>7. ((d * w) * (b * p)) \div (d * w) = b * p
  BY <1>6, Exactly
<1>8. QED
  BY <1>2, <1>5, <1>6, <1>7

\* Its steps are vectors.
LEMMA TextStepOK ==
  ASSUME GraphOK, PpvOK, NEW r \in [Connected -> Nat]
  PROVE  TextStep(r) \in [Connected -> Nat]
<1> SUFFICES ASSUME NEW v \in Connected
             PROVE  SumFunction([u \in {w \in Connected : IsEdge(w, v)} |->
                      (DampNum * r[u] * Weight(u, v)) \div (DampDen * Out(u))])
                    + (Unit * (DampDen - DampNum) * ppv[v]) \div (DampDen * PpvUnit) \in Nat
  BY DEF TextStep
<1>1. v \in Vertices
  BY ConnectedOK
<1>2. PICK S : S = {w \in Connected : IsEdge(w, v)}
  OBVIOUS
<1>3. IsFiniteSet(S)
  <2>1. S \in SUBSET Connected
    BY <1>2
  <2>2. QED
    BY <2>1, ConnectedOK, FS_Subset
<1>4. PICK F : F = [u \in S |-> (DampNum * r[u] * Weight(u, v)) \div (DampDen * Out(u))]
  OBVIOUS
<1>5. F \in [S -> Nat]
  <2>1. ASSUME NEW u \in S PROVE (DampNum * r[u] * Weight(u, v)) \div (DampDen * Out(u)) \in Nat
    <3>1. u \in Vertices /\ u \in Connected /\ IsEdge(u, v)
      BY <1>2, ConnectedOK
    <3>2. PICK o, w, x, d, n \in Nat : o = Out(u) /\ w = Weight(u, v) /\ x = r[u] /\ d = DampDen /\ n = DampNum
      BY <1>1, <3>1, OutOK, WeightsOK, ConstantsOK
    <3>3. o # 0 /\ d # 0
      BY <1>1, <3>1, <3>2, OutOK, ConstantsOK
    <3>4. d * o \in Nat \ {0} /\ n * x * w \in Nat
      BY <3>3
    <3>5. (n * x * w) \div (d * o) \in Nat
      BY <3>4, Quotient
    <3>6. QED
      BY <3>2, <3>5
  <2>2. QED
    BY <1>4, <2>1
<1>6. SumFunction(F) \in Nat
  BY <1>3, <1>5, SumIsNumber
<1>7. QED
  BY <1>1, <1>2, <1>4, <1>6, TextBase

\* Textbook is what its equation says.
LEMMA TextbookUnfolds ==
  ASSUME GraphOK, PpvOK, TextStart \in [Connected -> Nat]
  PROVE  /\ Textbook \in [Nat -> [Connected -> Nat]] /\ Textbook[0] = TextStart
         /\ \A k \in Nat : Textbook[k + 1] = TextStep(Textbook[k])
<1> DEFINE V == [Connected -> Nat]
           h == [r \in V |-> TextStep(r)]
           E(f) == f = [k \in Nat |-> IF k = 0 THEN TextStart ELSE TextStep(f[k - 1])]
<1>1. h \in [V -> V]
  <2> HIDE DEF V
  <2>1. \A r \in V : TextStep(r) \in V
    BY TextStepOK DEF V
  <2>2. QED
    BY <2>1
<1>2. PICK f \in [Nat -> V] : f[0] = TextStart /\ \A k \in Nat \ {0} : f[k] = TextStep(f[k - 1])
  <2>1. TextStart \in V
    OBVIOUS
  <2> HIDE DEF h, V
  <2>2. PICK f \in [Nat -> V] : RepeatsOn(f, TextStart, h)
    BY <1>1, <2>1, IteratesOn
  <2>3. f[0] = TextStart /\ \A k \in Nat \ {0} : f[k] = h[f[k - 1]]
    BY <2>2 DEF RepeatsOn
  <2>4. \A k \in Nat \ {0} : f[k - 1] \in V
    OBVIOUS
  <2>5. \A r \in V : h[r] = TextStep(r)
    BY DEF h
  <2>6. QED
    BY <2>3, <2>4, <2>5
<1>3. E(f)
  <2> HIDE DEF V, h
  <2>1. \A k \in Nat : f[k] = IF k = 0 THEN TextStart ELSE TextStep(f[k - 1])
    BY <1>2
  <2>2. f = [k \in Nat |-> f[k]]
    OBVIOUS
  <2>3. QED
    BY <2>1, <2>2
<1>4. E(Textbook)
  <2>1. E(CHOOSE fs : E(fs))
    <3> HIDE DEF E
    <3> QED BY <1>3
  <2>2. Textbook = CHOOSE fs : E(fs)
    BY DEF Textbook, TextStart, TextStep
  <2>3. QED
    BY <2>1, <2>2, Zenon
<1>5. PICK t : t = Textbook /\ E(t)
  BY <1>4
<1>6. t[0] = TextStart /\ DOMAIN t = Nat
  BY <1>5
<1>7. ASSUME NEW k \in Nat PROVE t[k + 1] = TextStep(t[k])
  <2>1. k + 1 \in Nat /\ k + 1 # 0 /\ (k + 1) - 1 = k
    OBVIOUS
  <2>2. t[k + 1] = IF k + 1 = 0 THEN TextStart ELSE TextStep(t[(k + 1) - 1])
    BY <1>5, <2>1
  <2>3. QED
    BY <2>1, <2>2
<1> DEFINE P == {k \in Nat : t[k] \in V}
<1>8. \A n \in Nat : n \in P
  <2> TAKE n \in Nat
  <2> HIDE DEF E, V, h
  <2>1. 0 \in P
    BY <1>6 DEF V
  <2>2. \A k \in 0 .. n - 1 : k \in P => k + 1 \in P
    <3> TAKE k \in 0 .. n - 1
    <3>1. k \in Nat /\ k + 1 \in Nat
      OBVIOUS
    <3>2. t[k] \in V => TextStep(t[k]) \in V
      BY TextStepOK DEF V
    <3>3. QED
      BY <1>7, <3>1, <3>2
  <2>3. n \in 0 .. n
    OBVIOUS
  <2> HIDE DEF P
  <2>4. QED
    BY <2>1, <2>2, <2>3, CountingUp
<1>9. t \in [Nat -> V]
  <2>1. t = [k \in Nat |-> t[k]]
    BY <1>5, <1>6
  <2>2. \A k \in Nat : t[k] \in V
    BY <1>8
  <2> HIDE DEF P, E, V
  <2>3. QED
    BY <2>1, <2>2
<1> HIDE DEF E
<1>10. QED
  BY <1>5, <1>6, <1>7, <1>9

\* One step of the power method is one iteration of the code, without dangling vertices
\* and without rests.
LEMMA TextStepIsRank ==
  ASSUME GraphOK, PpvOK, NEW k \in Nat, NEW from \in [Vertices -> Nat], Multiple(from, k + 1),
         NEW r \in [Connected -> Nat], \A u \in Connected : r[u] = from[u],
         NEW v \in Connected, ~ Dangling(v)
  PROVE  TextStep(r)[v] = Rank(from, v)
<1>1. PICK e \in Nat : e = Power(Denominator)[k] /\ Power(Denominator)[k + 1] = Denominator * e
  BY PowersOfDenominator
<1>2. PICK m \in [Vertices -> Nat] : \A u \in Connected : from[u] = (Denominator * e) * m[u]
  BY <1>1 DEF Multiple
<1>3. v \in Vertices
  BY ConnectedOK
<1>4. PICK S : S = {w \in Connected : IsEdge(w, v)}
  OBVIOUS
<1>5. PICK F : F = [u \in S |-> (DampNum * r[u] * Weight(u, v)) \div (DampDen * Out(u))]
  OBVIOUS
<1>6. PICK d, n \in Nat : d = DampDen /\ n = DampNum /\ d # 0
  BY ConstantsOK
<1>7. PICK G : G = [u \in Vertices |-> (n * e) * ((Coef(u) * m[u]) * Weight(u, v))]
  OBVIOUS
<1>8. PICK H : H = [u \in Vertices |-> (Coef(u) * m[u]) * Weight(u, v)]
  OBVIOUS
<1>9. G \in [Vertices -> Nat] /\ H \in [Vertices -> Nat]
  <2>1. \A u \in Vertices : Coef(u) \in Nat /\ m[u] \in Nat /\ Weight(u, v) \in Nat
    BY <1>3, CoefOK, WeightsOK
  <2>2. \A x, y, z \in Nat : (x * y) * z \in Nat /\ (n * e) * ((x * y) * z) \in Nat
    OBVIOUS
  <2>3. QED
    BY <1>7, <1>8, <2>1, <2>2
<1>10. \A u \in S : F[u] = G[u]
  <2> TAKE u \in S
  <2>1. u \in Connected /\ u \in Vertices /\ IsEdge(u, v)
    BY <1>4, ConnectedOK
  <2>2. PICK o, c, w, x, y \in Nat : o = Out(u) /\ c = Coef(u) /\ w = Weight(u, v) /\ x = m[u] /\ y = r[u]
    BY <1>3, <2>1, OutOK, CoefOK, WeightsOK
  <2>3. o # 0
    BY <1>3, <2>1, <2>2, OutOK
  <2>4. y = (((d * o) * c) * e) * x
    BY <1>2, <1>6, <2>1, <2>2, <2>3, CoefOK
  <2>5. n * ((((d * o) * c) * e) * x) * w = (d * o) * ((n * e) * ((c * x) * w))
    OBVIOUS
  <2>6. d * o \in Nat \ {0} /\ (n * e) * ((c * x) * w) \in Nat
    BY <1>6, <2>3
  <2>7. (n * y * w) \div (d * o) = (n * e) * ((c * x) * w)
    BY <2>4, <2>5, <2>6, Exactly
  <2>8. QED
    BY <1>5, <1>6, <1>7, <2>1, <2>2, <2>7
<1>11. \A u \in Vertices \ S : G[u] = 0
  <2> TAKE u \in Vertices \ S
  <2>1. ~ IsEdge(u, v)
    BY <1>3, <1>4, WeightsOK
  <2>2. PICK c, x \in Nat : c = Coef(u) /\ x = m[u]
    BY CoefOK
  <2>3. Weight(u, v) = 0
    BY <1>3, <2>1, WeightsOK
  <2>4. (n * e) * ((c * x) * 0) = 0
    OBVIOUS
  <2>5. QED
    BY <1>7, <2>2, <2>3, <2>4
<1>12. SumFunction(F) = SumFunction(G)
  <2>1. S \subseteq Vertices
    BY <1>4, ConnectedOK
  <2>2. F \in [S -> Nat]
    <3>1. \A u \in S : F[u] \in Nat
      BY <1>9, <1>10, <2>1
    <3>2. F = [u \in S |-> F[u]]
      BY <1>5
    <3>3. QED
      BY <3>1, <3>2
  <2>3. ZeroBeyond(G, Vertices, F, S)
    BY <1>9, <1>10, <1>11, <2>1, <2>2, ConstantsOK DEF ZeroBeyond
  <2>4. QED
    BY <2>3, SumWithin
<1>13. SumFunction(G) = (n * e) * Inflow(m, v)
  <2>1. \A u \in Vertices : G[u] = (n * e) * H[u]
    BY <1>7, <1>8
  <2>2. n * e \in Nat
    OBVIOUS
  <2>3. SumFunction(G) = (n * e) * SumFunction(H)
    BY <1>9, <2>1, <2>2, ConstantsOK, SumScaled
  <2>4. QED
    BY <1>8, <2>3 DEF Inflow
<1>14. TextStep(r)[v] = (n * e) * Inflow(m, v) + Base * ppv[v]
  <2>1. TextStep(r)[v] = SumFunction(F) + (Unit * (DampDen - DampNum) * ppv[v]) \div (DampDen * PpvUnit)
    BY <1>4, <1>5 DEF TextStep
  <2>2. QED
    BY <1>3, <1>12, <1>13, <2>1, TextBase
<1>15. Flow(m, v) = Inflow(m, v)
  <2>1. Stay(m, v) = 0 /\ Inflow(m, v) \in Nat
    BY <1>3, FlowIsNumber DEF Stay
  <2>2. QED
    BY <2>1 DEF Flow
<1>16. Rank(from, v) = (n * e) * Flow(m, v) + Base * ppv[v]
  BY <1>2, <1>6, RankIs
<1>17. QED
  BY <1>14, <1>15, <1>16

Other == IF toMap2 THEN rankMap2 ELSE rankMap1

\* Definitions over the graph and the settings mean the same after a step that keeps them.
LEMMA SameConnected ==
  ASSUME graph' = graph
  PROVE  Connected' = Connected
BY DEF Connected, Isolated, IsEdge

\* So do the distance of two vectors,
LEMMA SameDistance ==
  ASSUME graph' = graph, NEW f, NEW fs
  PROVE  Latest' = f /\ Other' = fs => Distance(Latest, Other)' = Distance(f, fs)
<1>1. Connected' = Connected
  BY SameConnected
<1>2. QED
  BY <1>1 DEF Distance

\* the powers in a vector,
LEMMA SameMultiple ==
  ASSUME graph' = graph, NEW f, NEW k
  PROVE  Latest' = f /\ (MaxInt - Made)' = k => Multiple(Latest, MaxInt - Made)' = Multiple(f, k)
<1>1. Connected' = Connected
  BY SameConnected
<1>2. QED
  BY <1>1 DEF Multiple

\* the rank of a vertex,
LEMMA SameRank ==
  ASSUME graph' = graph, weighted' = weighted, ppv' = ppv, NEW f, NEW v
  PROVE  Other' = f => Rank(Other, v)' = Rank(f, v)
BY DEF Rank, IsEdge, Weight, Out, Dangling

\* and the power method.
LEMMA SameTextbook ==
  ASSUME graph' = graph, weighted' = weighted, ppv' = ppv, ofKb' = ofKb
  PROVE  Textbook' = Textbook
BY DEF Textbook, Connected, Isolated, IsEdge, Weight, Out

TextStartOK == TextStart \in [Connected -> Nat]
TextFacts ==
  /\ Textbook \in [Nat -> [Connected -> Nat]] /\ Textbook[0] = TextStart
  /\ \A k \in Nat : Textbook[k + 1] = TextStep(Textbook[k])

\* The vectors of the power method, as functions of the number of the step.
LEMMA TextFactsHold == GraphOK /\ PpvOK /\ TextStartOK => TextFacts
BY TextbookUnfolds DEF TextStartOK, TextFacts

\* The same, after a step.
LEMMA TextFactsNext == (GraphOK /\ PpvOK /\ TextStartOK)' => TextFacts'
BY TextFactsHold, PTL

-----------------------------------------------------------------------------
(* The inductive invariant.                                                *)

PrTypeOK ==
  /\ graph \in Graphs /\ weighted \in BOOLEAN
  /\ optIter \in IterOptions \cup {Absent} /\ optThr \in ThrOptions \cup {Absent}
  /\ conv.iter \in 0 .. MaxInt /\ conv.thr \in Nat
  /\ pc \in {"options", "idle", "loop", "copy", "failed"}
  /\ calls \in Nat /\ ofKb \in BOOLEAN
  /\ ppv \in [Vertices -> 0 .. PpvUnit] /\ SumFunction(ppv) <= PpvUnit
  /\ rankMap1 \in [Vertices -> Nat] /\ rankMap2 \in [Vertices -> Nat]
  /\ toMap2 \in BOOLEAN
  /\ left \in 0 .. Limit
  /\ residual \in Nat

\* What the options ask for.
WantedIter == IF optIter # Absent THEN optIter ELSE IF optThr # Absent THEN 0 ELSE Defaults.iter
WantedThr  == IF optThr # Absent THEN Checked ELSE IF optIter # Absent THEN 0 ELSE Defaults.thr

Settings ==
  /\ pc = "options" => calls = 0 /\ left = 0 /\ conv = Defaults
  /\ pc = "failed" => calls = 0
  /\ pc \notin {"options", "failed"} =>
       /\ conv.iter = WantedIter /\ conv.thr = WantedThr
       /\ conv.iter = 0 => conv.thr \in ThrOptions \ {0}

Looping == pc \in {"loop", "copy"}

\* The vector of the last iteration.
Vectors ==
  Looping =>
    /\ Multiple(Latest, MaxInt - Made)
    /\ Mass(Latest) <= Unit /\ (Full => Mass(Latest) = Unit)
    /\ ofKb \/ Connected # {}
    /\ pc = "loop" => left > 0

\* The one before it.
Steps ==
  Looping /\ Made > 0 =>
    /\ Multiple(Other, (MaxInt - Made) + 1)
    /\ \A v \in Connected : Latest[v] = Rank(Other, v)
    /\ residual = Distance(Latest, Other)
    /\ residual * Power(DampDen)[Made - 1] <= (2 * Unit) * Power(DampNum)[Made - 1]

\* Both are those of the power method.
IsText(f) == \A v \in Connected : f[v] = Textbook[Made][v]
Near(k)   == Distance(Textbook[k], Textbook[k - 1]) < conv.thr
Stopped   == Made > 0 /\ (Made = conv.iter \/ Near(Made)) /\ \A k \in 1 .. Made - 1 : ~ Near(k)

Textual ==
  NoDangling =>
    /\ Looping => IsText(Latest)
    /\ pc = "loop" => \A k \in 1 .. Made : ~ Near(k)
    /\ pc = "copy" => Stopped
    /\ Returned => IsText(rankMap1) /\ Stopped

PrIInv == PrTypeOK /\ Settings /\ Vectors /\ Steps /\ Textual

\* What the types say of the vectors and of the counter.
LEMMA TypesGive ==
  ASSUME PrTypeOK
  PROVE  /\ GraphOK /\ PpvOK /\ Limit \in 1 .. MaxInt /\ Made \in 0 .. Limit
         /\ Latest \in [Vertices -> Nat] /\ Other \in [Vertices -> Nat]
<1>1. GraphOK
  BY PageRankAssumption DEF PrTypeOK, GraphOK
<1>2. Limit \in 1 .. MaxInt
  BY ConstantsOK DEF PrTypeOK, Limit
<1>3. Made \in 0 .. Limit
  BY <1>2 DEF PrTypeOK, Made
<1>4. QED
  BY <1>1, <1>2, <1>3 DEF PrTypeOK, PpvOK, Latest, Other

\* The initial states have the invariant.
LEMMA InitKeeps == PrInit => PrIInv
<1> SUFFICES ASSUME PrInit PROVE PrIInv
  OBVIOUS
<1>1. pc = "options" /\ calls = 0 /\ left = 0 /\ conv = Defaults
  BY DEF PrInit
<1>2. Zeros \in [Vertices -> 0 .. PpvUnit] /\ Zeros \in [Vertices -> Nat]
  BY ConstantsOK DEF Zeros
<1>3. SumFunction(Zeros) <= PpvUnit
  <2>1. \A v \in Vertices : Zeros[v] = 0
    BY DEF Zeros
  <2>2. SumFunction(Zeros) = Cardinality(Vertices) * 0
    BY <1>2, <2>1, ConstantsOK, SumOfConstant
  <2>3. QED
    BY <2>2, ConstantsOK
<1>4. conv.iter \in 0 .. MaxInt /\ conv.thr \in Nat /\ left \in 0 .. Limit
  <2>1. Defaults.iter \in 1 .. MaxInt /\ Defaults.thr \in 0 .. Unit /\ Unit \in Nat /\ MaxInt \in Nat
    BY PageRankAssumption
  <2>2. conv.iter \in 0 .. MaxInt /\ conv.thr \in Nat
    BY <1>1, <2>1
  <2>3. QED
    BY <1>1, <2>1, <2>2 DEF Limit
<1>5. PrTypeOK
  BY <1>1, <1>2, <1>3, <1>4 DEF PrInit, PrTypeOK
<1>6. Settings
  BY <1>1 DEF Settings
<1>7. ~ Looping /\ ~ Returned
  BY <1>1 DEF Looping, Returned
<1>8. Vectors /\ Steps /\ Textual
  BY <1>1, <1>7 DEF Vectors, Steps, Textual
<1>9. QED
  BY <1>5, <1>6, <1>8 DEF PrIInv

\* The switches.
LEMMA ConvergenceKeeps ==
  ASSUME PrIInv, SetConvergence
  PROVE  PrIInv'
<1>1. PrTypeOK /\ Settings /\ pc = "options"
  BY DEF PrIInv, SetConvergence
<1>2. calls = 0 /\ left = 0 /\ conv = Defaults
  BY <1>1 DEF Settings
<1>3. /\ graph' = graph /\ weighted' = weighted /\ optIter' = optIter /\ optThr' = optThr
      /\ calls' = calls /\ ofKb' = ofKb /\ ppv' = ppv
      /\ rankMap1' = rankMap1 /\ rankMap2' = rankMap2 /\ toMap2' = toMap2 /\ left' = left
      /\ residual' = residual
  BY DEF SetConvergence, callVars
<1>4. Given(optIter) \in 0 .. MaxInt /\ Given(optThr) \in Nat /\ Checked \in Nat
  BY <1>1, PageRankAssumption DEF PrTypeOK, Given, Checked
<1>5. Checked # 0 => Checked \in ThrOptions /\ optThr # Absent
  BY <1>1 DEF PrTypeOK, Given, Checked
<1>6. CASE optIter = Absent /\ optThr = Absent
  <2>1. pc' = "idle" /\ conv' = conv
    BY <1>6 DEF SetConvergence
  <2>2. conv'.iter = WantedIter /\ conv'.thr = WantedThr /\ conv'.iter # 0
    BY <1>2, <1>6, <2>1, PageRankAssumption DEF WantedIter, WantedThr
  <2>3. conv'.iter \in 0 .. MaxInt /\ conv'.thr \in Nat
    BY <1>1, <2>1 DEF PrTypeOK
  <2>4. WantedIter' = WantedIter /\ WantedThr' = WantedThr
    BY <1>3 DEF WantedIter, WantedThr, Checked, Given
  <2>5. PrTypeOK'
    BY <1>1, <1>2, <1>3, <2>1, <2>3, ConstantsOK DEF PrTypeOK, Limit
  <2>6. Settings'
    BY <2>1, <2>2, <2>4 DEF Settings
  <2>7. ~ Looping' /\ ~ Returned'
    BY <1>2, <1>3, <2>1 DEF Looping, Returned
  <2>8. Vectors' /\ Steps' /\ Textual'
    BY <2>1, <2>7 DEF Vectors, Steps, Textual
  <2>9. QED
    BY <2>5, <2>6, <2>8 DEF PrIInv
<1>7. CASE ~ (optIter = Absent /\ optThr = Absent) /\ Given(optIter) = 0 /\ Checked = 0
  <2>1. pc' = "failed" /\ conv' = conv
    BY <1>7 DEF SetConvergence
  <2>2. PrTypeOK'
    BY <1>1, <1>3, <2>1 DEF PrTypeOK, Limit
  <2>3. Settings'
    BY <1>2, <1>3, <2>1 DEF Settings
  <2>4. ~ Looping' /\ ~ Returned'
    BY <1>2, <1>3, <2>1 DEF Looping, Returned
  <2>5. Vectors' /\ Steps' /\ Textual'
    BY <2>1, <2>4 DEF Vectors, Steps, Textual
  <2>6. QED
    BY <2>2, <2>3, <2>5 DEF PrIInv
<1>8. CASE ~ (optIter = Absent /\ optThr = Absent) /\ ~ (Given(optIter) = 0 /\ Checked = 0)
  <2>1. pc' = "idle" /\ conv' = [iter |-> Given(optIter), thr |-> Checked]
    BY <1>8 DEF SetConvergence
  <2>2. conv'.iter = Given(optIter) /\ conv'.thr = Checked
    BY <2>1
  <2>3. Given(optIter) = WantedIter /\ Checked = WantedThr
    <3>1. Given(optIter) = WantedIter
      BY <1>8 DEF WantedIter, Given
    <3>2. CASE optThr = Absent
      <4>1. Checked = 0
        BY <3>2, ConstantsOK DEF Checked, Given
      <4>2. QED
        BY <1>8, <3>1, <3>2, <4>1 DEF WantedThr
    <3>3. CASE optThr # Absent
      BY <3>1, <3>3 DEF WantedThr
    <3>4. QED
      BY <3>2, <3>3
  <2>4. WantedIter' = WantedIter /\ WantedThr' = WantedThr
    BY <1>3 DEF WantedIter, WantedThr, Checked, Given
  <2>5. PrTypeOK'
    <3>1. conv'.iter \in 0 .. MaxInt /\ conv'.thr \in Nat
      BY <1>4, <2>2
    <3>2. left' \in 0 .. Limit'
      BY <1>2, <1>3, <3>1, ConstantsOK DEF Limit
    <3>3. QED
      BY <1>1, <1>3, <2>1, <3>1, <3>2 DEF PrTypeOK
  <2>6. Settings'
    <3>1. conv'.iter = 0 => conv'.thr \in ThrOptions \ {0}
      BY <1>5, <1>8, <2>2
    <3>2. QED
      BY <2>1, <2>2, <2>3, <2>4, <3>1 DEF Settings
  <2>7. ~ Looping' /\ ~ Returned'
    BY <1>2, <1>3, <2>1 DEF Looping, Returned
  <2>8. Vectors' /\ Steps' /\ Textual'
    BY <2>1, <2>7 DEF Vectors, Steps, Textual
  <2>9. QED
    BY <2>5, <2>6, <2>8 DEF PrIInv
<1>9. QED
  BY <1>6, <1>7, <1>8

\* The first vector of a call.
LEMMA InitialOK ==
  ASSUME NEW n \in Nat, n # 0, n <= Cardinality(Vertices), Cardinality(Connected) <= n
  PROVE  /\ InitialRanks(n) \in [Vertices -> Nat] /\ Multiple(InitialRanks(n), MaxInt)
         /\ Mass(InitialRanks(n)) <= Unit
         /\ Cardinality(Connected) = n => Mass(InitialRanks(n)) = Unit
         /\ \A v \in Connected : InitialRanks(n)[v] = Unit \div n
<1>1. PICK p \in Nat \ {0} : p = Power(Denominator)[MaxInt]
  BY ConstantsOK, PowersOfDenominator
<1>2. PICK q \in Nat : Unit = (n * p) * q
  <2>1. n \in 1 .. Cardinality(Vertices)
    BY ConstantsOK
  <2>2. Unit % (n * p) = 0
    BY <1>1, <2>1, UnitAssumption
  <2>3. n * p \in Nat \ {0}
    BY <1>1
  <2>4. PICK d \in Nat \ {0} : d = n * p
    BY <2>3
  <2>5. Unit = d * (Unit \div d) /\ Unit \div d \in Nat
    BY <2>2, <2>4, Quotient, ConstantsOK
  <2>6. QED
    BY <2>4, <2>5
<1>3. Unit = n * (p * q) /\ p * q \in Nat
  <2>1. (n * p) * q = n * (p * q) /\ p * q \in Nat
    OBVIOUS
  <2>2. QED
    BY <1>2, <2>1
<1>4. Unit \div n = p * q
  <2>1. (n * (p * q)) \div n = p * q
    BY <1>3, Exactly
  <2>2. QED
    BY <1>3, <2>1
<1>5. InitialRanks(n) \in [Vertices -> Nat] /\ \A v \in Vertices : InitialRanks(n)[v] = p * q
  BY <1>3, <1>4 DEF InitialRanks
<1>6. Multiple(InitialRanks(n), MaxInt)
  <2>1. PICK m : m = [v \in Vertices |-> IF v \in Connected THEN q ELSE 0]
    OBVIOUS
  <2>2. m \in [Vertices -> Nat] /\ \A v \in Vertices \ Connected : m[v] = 0
    BY <2>1
  <2>3. \A v \in Connected : InitialRanks(n)[v] = p * m[v]
    BY <1>5, <2>1, ConnectedOK
  <2>4. QED
    BY <1>1, <2>2, <2>3 DEF Multiple
<1>7. Mass(InitialRanks(n)) = Cardinality(Connected) * (p * q)
  <2>1. PICK f : f = [v \in Connected |-> InitialRanks(n)[v]]
    OBVIOUS
  <2>2. f \in [Connected -> Nat] /\ \A v \in Connected : f[v] = p * q
    BY <1>3, <1>5, <2>1, ConnectedOK
  <2>3. SumFunction(f) = Cardinality(Connected) * (p * q)
    BY <1>3, <2>2, ConnectedOK, SumOfConstant
  <2>4. QED
    BY <2>1, <2>3 DEF Mass
<1>8. PICK c \in Nat : c = Cardinality(Connected)
  BY ConnectedOK, FS_CardinalityType
<1>9. Mass(InitialRanks(n)) <= Unit
  <2>1. (p * q) * c <= (p * q) * n
    BY <1>3, <1>8, ProductGrows
  <2>2. c * (p * q) = (p * q) * c /\ n * (p * q) = (p * q) * n
    OBVIOUS
  <2>3. QED
    BY <1>3, <1>7, <1>8, <2>1, <2>2
<1>10. QED
  BY <1>3, <1>4, <1>5, <1>6, <1>7, <1>9, ConnectedOK

\* Begin of a call.
LEMMA StartKeeps ==
  ASSUME PrIInv, NEW n, NEW p, Start(n, p), p \in [Vertices -> 0 .. PpvUnit], SumFunction(p) <= PpvUnit,
         ofKb' \in BOOLEAN, n = IF ofKb' THEN Cardinality(Vertices) ELSE Cardinality(Connected)
  PROVE  PrIInv'
<1>1. PrTypeOK /\ Settings /\ pc = "idle"
  BY DEF PrIInv, Start
<1>2. /\ graph' = graph /\ weighted' = weighted /\ optIter' = optIter /\ optThr' = optThr /\ conv' = conv
      /\ calls' = calls + 1 /\ ppv' = p /\ rankMap2' = Zeros /\ toMap2' = TRUE /\ residual' = 0
      /\ left' = Limit /\ Limit' = Limit
  BY DEF Start, setVars, Limit
<1>3. Connected' = Connected
  BY <1>2, SameConnected
<1>4. Limit \in 1 .. MaxInt /\ GraphOK /\ MaxInt \in Nat
  BY <1>1, TypesGive, ConstantsOK
<1>5. Zeros \in [Vertices -> Nat]
  BY DEF Zeros
<1>6. pc' \in {"idle", "loop"}
  BY DEF Start
<1>7. Settings'
  <2>1. WantedIter' = WantedIter /\ WantedThr' = WantedThr
    BY <1>2 DEF WantedIter, WantedThr, Checked, Given
  <2>2. conv.iter = WantedIter /\ conv.thr = WantedThr /\ (conv.iter = 0 => conv.thr \in ThrOptions \ {0})
    BY <1>1 DEF Settings
  <2>3. QED
    BY <1>2, <1>6, <2>1, <2>2 DEF Settings
<1>8. PICK a, c \in Nat : /\ a = Cardinality(Vertices) /\ c = Cardinality(Connected) /\ c <= a /\ a # 0
                          /\ c = 0 => Connected = {}
  <2>1. Cardinality(Connected) <= Cardinality(Vertices)
    BY ConnectedOK, ConstantsOK, FS_Subset
  <2>2. Cardinality(Connected) \in Nat /\ (Cardinality(Connected) = 0 <=> Connected = {})
    BY ConnectedOK, FS_CardinalityType, FS_EmptySet
  <2>3. QED
    BY <2>1, <2>2, ConstantsOK
<1>9. n \in Nat /\ n <= a /\ c <= n
  BY <1>8
<1>10. /\ graph' \in Graphs /\ weighted' \in BOOLEAN /\ conv'.iter \in 0 .. MaxInt /\ conv'.thr \in Nat
       /\ optIter' \in IterOptions \cup {Absent} /\ optThr' \in ThrOptions \cup {Absent}
       /\ calls' \in Nat /\ ppv' \in [Vertices -> 0 .. PpvUnit] /\ SumFunction(ppv') <= PpvUnit
       /\ rankMap2' \in [Vertices -> Nat] /\ toMap2' \in BOOLEAN /\ residual' \in Nat
  BY <1>1, <1>2, <1>5 DEF PrTypeOK
<1>11. left' \in 0 .. Limit'
  BY <1>2, <1>4
<1>12. CASE n = 0
  <2>1. ~ ofKb' /\ Connected' = {}
    BY <1>3, <1>8, <1>12
  <2>2. pc' = "idle" /\ rankMap1' = Zeros
    BY <1>12 DEF Start
  <2>3. PrTypeOK'
    BY <1>5, <1>10, <1>11, <2>2 DEF PrTypeOK
  <2>4. ~ Looping' /\ ~ Returned'
    BY <2>1, <2>2 DEF Looping, Returned
  <2>5. Vectors' /\ Steps' /\ Textual'
    BY <2>2, <2>4 DEF Vectors, Steps, Textual
  <2>6. QED
    BY <1>7, <2>3, <2>5 DEF PrIInv
<1>13. CASE n # 0
  <2>1. pc' = "loop" /\ rankMap1' = InitialRanks(n)
    BY <1>13 DEF Start
  <2>2. PICK f : /\ f = InitialRanks(n) /\ f \in [Vertices -> Nat] /\ Multiple(f, MaxInt) /\ Mass(f) <= Unit
                 /\ c = n => Mass(f) = Unit
                 /\ \A v \in Connected : f[v] = Unit \div n
    BY <1>8, <1>9, <1>13, InitialOK
  <2>3. PrTypeOK'
    BY <1>10, <1>11, <2>1, <2>2 DEF PrTypeOK
  <2>4. Latest' = f /\ Made' = 0 /\ (MaxInt - Made)' = MaxInt
    <3>1. Latest' = f
      BY <1>2, <2>1, <2>2 DEF Latest
    <3>2. Made' = 0
      BY <1>2, <1>4 DEF Made
    <3>3. QED
      BY <1>4, <3>1, <3>2
  <2>5. Multiple(Latest, MaxInt - Made)'
    <3>1. Multiple(Latest, MaxInt - Made)' = Multiple(f, MaxInt)
      BY <1>2, <2>4, SameMultiple
    <3>2. QED
      BY <2>2, <3>1
  <2>6. Mass(Latest)' = Mass(f)
    BY <1>3, <2>4 DEF Mass
  <2>7. Full' => Mass(f) = Unit
    <3> SUFFICES ASSUME Full' PROVE Mass(f) = Unit
      OBVIOUS
    <3>1. Connected = Vertices
      BY <1>3 DEF Full
    <3>2. c = n
      BY <1>8, <3>1
    <3>3. QED
      BY <2>2, <3>2
  <2>8. ofKb' \/ Connected' # {}
    <3>1. Connected = {} => c = 0
      BY <1>8, FS_EmptySet
    <3>2. QED
      BY <1>3, <1>8, <1>13, <3>1
  <2>9. Vectors'
    <3>1. left' > 0
      BY <1>2, <1>4
    <3>2. QED
      BY <2>2, <2>5, <2>6, <2>7, <2>8, <3>1 DEF Vectors
  <2>10. Steps'
    BY <2>4 DEF Steps
  <2>11. Textual'
    <3>1. TextStart' = [v \in Connected |-> Unit \div n]
      BY <1>3 DEF TextStart
    <3>2. (GraphOK /\ PpvOK /\ TextStartOK)'
      <4>1. GraphOK'
        BY <1>2, <1>4 DEF GraphOK
      <4>2. PpvOK'
        BY <1>10 DEF PpvOK
      <4>3. Unit \div n \in Nat
        BY <1>9, <1>13, ConstantsOK, Quotient
      <4>4. TextStart' \in [Connected' -> Nat]
        BY <1>3, <3>1, <4>3
      <4>5. TextStartOK'
        BY <4>4 DEF TextStartOK
      <4>6. QED
        BY <4>1, <4>2, <4>5
    <3>3. TextFacts'
      BY <3>2, TextFactsNext
    <3>4. Textbook'[0] = TextStart'
      BY <3>3 DEF TextFacts
    <3>5. \A v \in Connected' : Latest'[v] = Textbook'[Made'][v]
      BY <1>3, <2>2, <2>4, <3>1, <3>4
    <3>6. IsText(Latest)'
      BY <3>5 DEF IsText
    <3>7. \A k \in 1 .. Made' : FALSE
      BY <2>4
    <3>8. ~ Returned'
      BY <2>1 DEF Returned
    <3>9. QED
      BY <2>1, <3>6, <3>7, <3>8 DEF Textual
  <2>12. QED
    BY <1>7, <2>3, <2>9, <2>10, <2>11 DEF PrIInv
<1>14. QED
  BY <1>12, <1>13

\* An iteration, whichever way it goes.
LEMMA IterateIs ==
  ASSUME PrTypeOK, Iterate
  PROVE  /\ graph' = graph /\ weighted' = weighted /\ optIter' = optIter /\ optThr' = optThr /\ conv' = conv
         /\ calls' = calls /\ ofKb' = ofKb /\ ppv' = ppv
         /\ Limit' = Limit /\ left' = left - 1 /\ toMap2' = ~ toMap2
         /\ Latest' = Update(Latest, Other) /\ Other' = Latest
         /\ residual' = Distance(Update(Latest, Other), Latest)
         /\ pc = "loop"
         /\ pc' = IF left' > 0 /\ ~ residual' < conv.thr THEN "loop" ELSE "copy"
         /\ rankMap1' = IF toMap2 THEN rankMap1 ELSE Update(Latest, Other)
         /\ rankMap2' = IF toMap2 THEN Update(Latest, Other) ELSE rankMap2
<1>1. /\ graph' = graph /\ weighted' = weighted /\ optIter' = optIter /\ optThr' = optThr /\ conv' = conv
      /\ calls' = calls /\ ofKb' = ofKb /\ ppv' = ppv
      /\ left' = left - 1 /\ toMap2' = ~ toMap2 /\ pc = "loop"
  BY DEF Iterate, setVars, callVars
<1>2. Limit' = Limit
  BY <1>1 DEF Limit
<1>3. pc' = IF left' > 0 /\ ~ residual' < conv.thr THEN "loop" ELSE "copy"
  BY DEF Iterate, GoesOn
<1>4. CASE toMap2
  <2>1. Latest = rankMap1 /\ Other = rankMap2
    BY <1>4 DEF Latest, Other
  <2>2. rankMap2' = Update(rankMap1, rankMap2) /\ rankMap1' = rankMap1
        /\ residual' = Distance(Update(rankMap1, rankMap2), rankMap1)
    BY <1>4 DEF Iterate
  <2>3. Latest' = rankMap2' /\ Other' = rankMap1'
    BY <1>1, <1>4 DEF Latest, Other
  <2>4. QED
    BY <1>1, <1>2, <1>3, <1>4, <2>1, <2>2, <2>3
<1>5. CASE ~ toMap2
  <2>1. Latest = rankMap2 /\ Other = rankMap1
    BY <1>5 DEF Latest, Other
  <2>2. rankMap1' = Update(rankMap2, rankMap1) /\ rankMap2' = rankMap2
        /\ residual' = Distance(Update(rankMap2, rankMap1), rankMap2)
    BY <1>5 DEF Iterate
  <2>3. Latest' = rankMap1' /\ Other' = rankMap2'
    BY <1>1, <1>5 DEF Latest, Other
  <2>4. QED
    BY <1>1, <1>2, <1>3, <1>5, <2>1, <2>2, <2>3
<1>6. QED
  BY <1>4, <1>5

\* The residual of an iteration that is not the first.
LEMMA IterateContracts ==
  ASSUME PrIInv, Iterate, Made > 0
  PROVE  residual' \in Nat /\ DampDen * residual' <= DampNum * residual
<1>1. PrTypeOK /\ Vectors /\ Steps /\ pc = "loop"
  BY IterateIs DEF PrIInv
<1>2. GraphOK /\ PpvOK /\ Limit \in 1 .. MaxInt /\ Made \in 0 .. Limit
  BY <1>1, TypesGive
<1>3. PICK from \in [Vertices -> Nat], old \in [Vertices -> Nat] : from = Latest /\ old = Other
  BY <1>1, TypesGive
<1>4. left > 0
  BY <1>1 DEF Vectors, Looping
<1>5. PICK k \in Nat : MaxInt - Made = k + 1
  <2>1. Made < MaxInt /\ Made \in Nat /\ MaxInt \in Nat
    BY <1>1, <1>2, <1>4, ConstantsOK DEF Made, PrTypeOK
  <2>2. (MaxInt - Made) - 1 \in Nat /\ MaxInt - Made = ((MaxInt - Made) - 1) + 1
    BY <2>1
  <2>3. QED
    BY <2>2
<1>6. Multiple(from, k + 1)
  BY <1>1, <1>3, <1>5 DEF Vectors, Looping
<1>7. Multiple(old, (k + 1) + 1) /\ (\A v \in Connected : from[v] = Rank(old, v)) /\ residual = Distance(from, old)
  BY <1>1, <1>3, <1>5 DEF Steps, Looping
<1>8. PICK new : new = Update(from, old)
  OBVIOUS
<1>9. k + 1 <= MaxInt
  BY <1>2, <1>5, ConstantsOK
<1>10. new \in [Vertices -> Nat] /\ \A v \in Connected : new[v] = Rank(from, v)
  BY <1>2, <1>6, <1>8, <1>9, StepIs
<1>11. residual' = Distance(new, from)
  BY <1>1, <1>3, <1>8, IterateIs
<1>12. PICK e \in Nat : e = Power(Denominator)[k] /\ Power(Denominator)[k + 1] = Denominator * e
  BY PowersOfDenominator
<1>13. PICK m \in [Vertices -> Nat] : \A u \in Connected : from[u] = (Denominator * e) * m[u]
  BY <1>6, <1>12 DEF Multiple
<1>14. Power(Denominator)[(k + 1) + 1] = Denominator * Power(Denominator)[k + 1]
  BY PowersOfDenominator
<1>15. PICK l \in [Vertices -> Nat] : \A u \in Connected : old[u] = (Denominator * (Denominator * e)) * l[u]
  BY <1>7, <1>12, <1>14 DEF Multiple
<1>16. PICK d \in Nat : d = Denominator
  BY ConstantsOK
<1>17. PICK n : n = [u \in Vertices |-> d * l[u]]
  OBVIOUS
<1>18. n \in [Vertices -> Nat]
  <2>1. \A x \in Nat : d * x \in Nat
    OBVIOUS
  <2>2. QED
    BY <1>17, <2>1
<1>19. \A u \in Connected : old[u] = (Denominator * e) * n[u]
  <2>1. \A x \in Nat : (d * (d * e)) * x = (d * e) * (d * x)
    OBVIOUS
  <2>2. QED
    BY <1>15, <1>16, <1>17, <2>1, ConnectedOK
<1>20. DampDen * Distance(new, from) <= DampNum * Distance(from, old)
  <2>1. Scaled(from, e, m) /\ Scaled(old, e, n)
    BY <1>13, <1>19 DEF Scaled
  <2>2. RanksOf(from, old) /\ RanksOf(new, from)
    BY <1>7, <1>10 DEF RanksOf
  <2>3. QED
    BY <1>2, <1>10, <1>18, <2>1, <2>2, StepContracts
<1>21. Distance(new, from) \in Nat
  BY <1>10, DistanceOK
<1>22. QED
  BY <1>7, <1>11, <1>20, <1>21

\* The powers of the two numbers of the damping.
LEMMA PowersOfDamping ==
  /\ Power(DampNum)[0] = 1 /\ Power(DampDen)[0] = 1
  /\ \A k \in Nat : /\ Power(DampNum)[k] \in Nat /\ Power(DampDen)[k] \in Nat \ {0}
                    /\ Power(DampNum)[k + 1] = DampNum * Power(DampNum)[k]
                    /\ Power(DampDen)[k + 1] = DampDen * Power(DampDen)[k]
<1>1. DampNum \in Nat /\ DampDen \in Nat \ {0} /\ DampDen \in Nat
  BY ConstantsOK
<1>2. Power(DampNum) \in [Nat -> Nat] /\ Power(DampNum)[0] = 1
      /\ \A k \in Nat : Power(DampNum)[k + 1] = DampNum * Power(DampNum)[k]
  BY <1>1, PowerUnfolds
<1>3. Power(DampDen)[0] = 1 /\ \A k \in Nat : Power(DampDen)[k + 1] = DampDen * Power(DampDen)[k]
  BY <1>1, PowerUnfolds
<1>4. \A k \in Nat : Power(DampDen)[k] \in Nat \ {0}
  BY <1>1, PowerPositive
<1>5. QED
  BY <1>2, <1>3, <1>4

\* How far the residual has come down.
LEMMA IterateShrinks ==
  ASSUME PrIInv, Iterate
  PROVE  residual' \in Nat /\ residual' * Power(DampDen)[Made] <= (2 * Unit) * Power(DampNum)[Made]
<1>1. PrTypeOK /\ Vectors /\ Steps /\ pc = "loop"
  BY IterateIs DEF PrIInv
<1>2. GraphOK /\ PpvOK /\ SumFunction(ppv) <= PpvUnit /\ Limit \in 1 .. MaxInt /\ Made \in 0 .. Limit
  BY <1>1, TypesGive DEF PrTypeOK
<1>3. CASE Made = 0
  <2>1. PICK from \in [Vertices -> Nat], old \in [Vertices -> Nat] : from = Latest /\ old = Other
    BY <1>1, TypesGive
  <2>2. PICK k \in Nat : MaxInt = k + 1
    <3>1. MaxInt - 1 \in Nat /\ MaxInt = (MaxInt - 1) + 1
      BY ConstantsOK
    <3>2. QED
      BY <3>1
  <2>3. Multiple(from, k + 1) /\ Mass(from) <= Unit
    BY <1>1, <1>3, <2>1, <2>2 DEF Vectors, Looping
  <2>4. PICK new : new = Update(from, old)
    OBVIOUS
  <2>5. k + 1 <= MaxInt
    BY <2>2
  <2>6. new \in [Vertices -> Nat] /\ \A v \in Connected : new[v] = Rank(from, v)
    BY <1>2, <2>3, <2>4, <2>5, StepIs
  <2>7. Mass(new) <= Unit
    BY <1>2, <2>3, <2>5, <2>6, StepKeepsMass
  <2>8. Distance(new, from) \in Nat /\ Distance(new, from) <= Mass(new) + Mass(from)
        /\ Mass(new) \in Nat /\ Mass(from) \in Nat
    BY <2>6, DistanceOK
  <2>9. residual' = Distance(new, from)
    BY <1>1, <2>1, <2>4, IterateIs
  <2>10. residual' \in Nat /\ residual' <= 2 * Unit
    BY <2>3, <2>7, <2>8, <2>9, ConstantsOK
  <2>11. Power(DampDen)[Made] = 1 /\ Power(DampNum)[Made] = 1
    BY <1>3, PowersOfDamping
  <2>12. \A x, y \in Nat : x <= 2 * y => x * 1 <= (2 * y) * 1
    OBVIOUS
  <2>13. QED
    BY <2>10, <2>11, <2>12, ConstantsOK
<1>4. CASE Made > 0
  <2>1. PICK k \in Nat : Made = k + 1 /\ Made - 1 = k
    <3>1. Made - 1 \in Nat /\ Made = (Made - 1) + 1
      BY <1>2, <1>4
    <3>2. QED
      BY <3>1
  <2>2. PICK d, n, s, t, x, y, a \in Nat :
          /\ d = DampDen /\ n = DampNum /\ s = Power(DampDen)[k] /\ t = Power(DampNum)[k]
          /\ x = residual' /\ y = residual /\ a = 2 * Unit
    <3>1. DampDen \in Nat /\ DampNum \in Nat /\ 2 * Unit \in Nat
      BY ConstantsOK
    <3>2. Power(DampDen)[k] \in Nat /\ Power(DampNum)[k] \in Nat
      BY PowersOfDamping
    <3>3. residual' \in Nat /\ residual \in Nat
      BY <1>1, <1>4, IterateContracts DEF PrTypeOK
    <3>4. QED
      BY <3>1, <3>2, <3>3
  <2>3. Power(DampDen)[Made] = d * s /\ Power(DampNum)[Made] = n * t
    BY <2>1, <2>2, PowersOfDamping
  <2>4. d * x <= n * y
    BY <1>4, <2>2, IterateContracts
  <2>5. y * s <= a * t
    BY <1>1, <1>4, <2>1, <2>2 DEF Steps, Looping
  <2>6. s * (d * x) <= s * (n * y)
    <3>1. d * x \in Nat /\ n * y \in Nat
      OBVIOUS
    <3>2. QED
      BY <2>4, <3>1, ProductGrows
  <2>7. n * (y * s) <= n * (a * t)
    <3>1. y * s \in Nat /\ a * t \in Nat
      OBVIOUS
    <3>2. QED
      BY <2>5, <3>1, ProductGrows
  <2>8. x * (d * s) = s * (d * x) /\ s * (n * y) = n * (y * s) /\ n * (a * t) = a * (n * t)
    OBVIOUS
  <2>9. s * (d * x) \in Nat /\ s * (n * y) \in Nat /\ n * (a * t) \in Nat
    OBVIOUS
  <2>10. x * (d * s) <= a * (n * t)
    BY <2>6, <2>7, <2>8, <2>9
  <2>11. QED
    BY <2>2, <2>3, <2>10
<1>5. QED
  BY <1>2, <1>3, <1>4

\* Whether a vector was near enough means the same after a step that keeps the settings,
LEMMA SameNear ==
  ASSUME graph' = graph, weighted' = weighted, ppv' = ppv, ofKb' = ofKb, conv' = conv, NEW k
  PROVE  Near(k)' <=> Near(k)
<1>1. Textbook' = Textbook
  BY SameTextbook
<1>2. Connected' = Connected
  BY SameConnected
<1>3. QED
  BY <1>1, <1>2 DEF Near, Distance

\* and so does whether every vertex that has an edge has one that leads out.
LEMMA SameNoDangling ==
  ASSUME graph' = graph
  PROVE  NoDangling' <=> NoDangling
BY DEF NoDangling, Dangling, IsEdge

\* In a call that has something to iterate over, the power method begins with numbers.
LEMMA TextHolds ==
  ASSUME GraphOK, PpvOK, ofKb \/ Connected # {}, ofKb \in BOOLEAN
  PROVE  TextFacts
<1>1. PICK n : n = IF ofKb THEN Cardinality(Vertices) ELSE Cardinality(Connected)
  OBVIOUS
<1>2. n \in Nat \ {0}
  <2>1. CASE ofKb
    BY <1>1, <2>1, ConstantsOK
  <2>2. CASE ~ ofKb
    <3>1. Connected # {}
      BY <2>2
    <3>2. Cardinality(Connected) \in Nat /\ Cardinality(Connected) # 0
      BY <3>1, ConnectedOK, FS_CardinalityType, FS_EmptySet
    <3>3. QED
      BY <1>1, <2>2, <3>2
  <2>3. QED
    BY <2>1, <2>2
<1>3. Unit \div n \in Nat
  BY <1>2, ConstantsOK, Quotient
<1>4. TextStart = [v \in Connected |-> Unit \div n]
  BY <1>1 DEF TextStart
<1>5. TextStartOK
  BY <1>3, <1>4 DEF TextStartOK
<1>6. QED
  BY <1>5, TextFactsHold

\* A common factor does not change which number is less.
LEMMA FactorKept ==
  ASSUME NEW x \in Nat, NEW y \in Nat, NEW s \in Nat, x * s < y * s
  PROVE  x < y
<1> SUFFICES ASSUME y <= x PROVE FALSE
  OBVIOUS
<1>1. s * y <= s * x
  BY ProductGrows
<1>2. s * y = y * s /\ s * x = x * s /\ s * y \in Nat /\ s * x \in Nat
  OBVIOUS
<1>3. QED
  BY <1>1, <1>2

\* What an iteration makes of the two vectors.
LEMMA IterateVectors ==
  ASSUME PrIInv, Iterate
  PROVE  /\ Update(Latest, Other) \in [Vertices -> Nat]
         /\ Made + 1 \in 1 .. Limit /\ Made' = Made + 1 /\ left > 0
         /\ Vectors' /\ Steps'
<1>1. PrTypeOK /\ Vectors /\ Steps /\ pc = "loop"
  BY IterateIs DEF PrIInv
<1>2. /\ graph' = graph /\ weighted' = weighted /\ ofKb' = ofKb /\ ppv' = ppv
      /\ Limit' = Limit /\ left' = left - 1
      /\ Latest' = Update(Latest, Other) /\ Other' = Latest
      /\ residual' = Distance(Update(Latest, Other), Latest)
      /\ pc' = IF left' > 0 /\ ~ residual' < conv.thr THEN "loop" ELSE "copy"
  BY <1>1, IterateIs
<1>3. GraphOK /\ PpvOK /\ SumFunction(ppv) <= PpvUnit /\ Limit \in 1 .. MaxInt /\ left \in 0 .. Limit
      /\ MaxInt \in Nat
  BY <1>1, TypesGive, ConstantsOK DEF PrTypeOK
<1>4. left > 0
  BY <1>1 DEF Vectors, Looping
<1>5. Made \in Nat /\ Made + 1 \in 1 .. Limit /\ Made' = Made + 1
  BY <1>2, <1>3, <1>4 DEF Made
<1>6. PICK k \in Nat : MaxInt - Made = k + 1 /\ (MaxInt - Made)' = k /\ k + 1 <= MaxInt
  <2>1. (MaxInt - Made) - 1 \in Nat /\ MaxInt - Made = ((MaxInt - Made) - 1) + 1
    BY <1>3, <1>5
  <2>2. (MaxInt - Made)' = (MaxInt - Made) - 1
    BY <1>3, <1>5
  <2>3. QED
    BY <1>3, <1>5, <2>1, <2>2
<1>7. PICK from \in [Vertices -> Nat], old \in [Vertices -> Nat] : from = Latest /\ old = Other
  BY <1>1, TypesGive
<1>8. PICK new : new = Update(from, old)
  OBVIOUS
<1>9. Multiple(from, k + 1) /\ Mass(from) <= Unit /\ (Full => Mass(from) = Unit) /\ (ofKb \/ Connected # {})
  BY <1>1, <1>6, <1>7 DEF Vectors, Looping
<1>10. new \in [Vertices -> Nat] /\ (\A v \in Connected : new[v] = Rank(from, v)) /\ Multiple(new, k)
  BY <1>3, <1>6, <1>8, <1>9, StepIs
<1>11. Mass(new) <= Unit /\ (Full => Mass(new) = Unit)
  BY <1>3, <1>6, <1>9, <1>10, StepKeepsMass
<1>12. Connected' = Connected
  BY <1>2, SameConnected
<1>13. Latest' = new /\ Other' = from
  BY <1>2, <1>7, <1>8
<1>14. Full' = Full
  BY <1>2, <1>12 DEF Full, Dangling, IsEdge
<1>15. Vectors'
  <2>1. Multiple(Latest, MaxInt - Made)' = Multiple(new, k)
    BY <1>2, <1>6, <1>13, SameMultiple
  <2>2. Mass(Latest)' = Mass(new)
    BY <1>12, <1>13 DEF Mass
  <2>3. pc' = "loop" => left' > 0
    BY <1>2
  <2>4. ofKb' \/ Connected' # {}
    BY <1>2, <1>9, <1>12
  <2>5. QED
    BY <1>10, <1>11, <1>14, <2>1, <2>2, <2>3, <2>4 DEF Vectors
<1>16. Steps'
  <2>1. Multiple(Other, (MaxInt - Made) + 1)'
    <3>1. ((MaxInt - Made) + 1)' = k + 1
      BY <1>6
    <3>2. Multiple(Other, (MaxInt - Made) + 1)' = Multiple(from, k + 1)
      BY <1>12, <1>13, <3>1 DEF Multiple
    <3>3. QED
      BY <1>9, <3>2
  <2>2. (\A v \in Connected : Latest[v] = Rank(Other, v))'
    <3>1. \A v \in Connected : Rank(Other, v)' = Rank(from, v)
      BY <1>2, <1>13, SameRank
    <3>2. \A v \in Connected' : Latest'[v] = Rank(Other, v)'
      BY <1>10, <1>12, <1>13, <3>1
    <3>3. QED
      BY <3>2
  <2>3. residual' = Distance(Latest, Other)'
    <3>1. Distance(Latest, Other)' = Distance(new, from)
      BY <1>2, <1>13, SameDistance
    <3>2. QED
      BY <1>2, <1>7, <1>8, <3>1
  <2>4. residual' * Power(DampDen)[(Made - 1)'] <= (2 * Unit) * Power(DampNum)[(Made - 1)']
    <3>1. (Made - 1)' = Made
      BY <1>5
    <3>2. QED
      BY <3>1, IterateShrinks
  <2>5. QED
    BY <2>1, <2>2, <2>3, <2>4 DEF Steps
<1>17. QED
  BY <1>4, <1>5, <1>7, <1>8, <1>10, <1>15, <1>16

\* An iteration of the loop keeps the invariant.
LEMMA IterateKeeps ==
  ASSUME PrIInv, Iterate
  PROVE  PrIInv'
<1>1. PrTypeOK /\ Settings /\ Vectors /\ Textual /\ pc = "loop"
  BY IterateIs DEF PrIInv
<1>2. /\ graph' = graph /\ weighted' = weighted /\ optIter' = optIter /\ optThr' = optThr /\ conv' = conv
      /\ calls' = calls /\ ofKb' = ofKb /\ ppv' = ppv
      /\ Limit' = Limit /\ left' = left - 1 /\ toMap2' = ~ toMap2
      /\ Latest' = Update(Latest, Other) /\ Other' = Latest
      /\ residual' = Distance(Update(Latest, Other), Latest)
      /\ pc' = IF left' > 0 /\ ~ residual' < conv.thr THEN "loop" ELSE "copy"
  BY <1>1, IterateIs
<1>3. /\ Update(Latest, Other) \in [Vertices -> Nat]
      /\ Made + 1 \in 1 .. Limit /\ Made' = Made + 1 /\ left > 0
      /\ Vectors' /\ Steps'
  BY IterateVectors
<1>4. GraphOK /\ PpvOK /\ Limit \in 1 .. MaxInt /\ left \in 0 .. Limit /\ Made \in 0 .. Limit /\ MaxInt \in Nat
  BY <1>1, TypesGive, ConstantsOK DEF PrTypeOK
<1>5. residual' \in Nat
  BY IterateShrinks
<1>6. PrTypeOK'
  <2>1. rankMap1' \in [Vertices -> Nat] /\ rankMap2' \in [Vertices -> Nat]
    BY <1>1, <1>3, IterateIs DEF PrTypeOK
  <2>2. left' \in 0 .. Limit'
    BY <1>2, <1>3, <1>4
  <2>3. pc' \in {"loop", "copy"}
    BY <1>2
  <2>4. QED
    BY <1>1, <1>2, <1>5, <2>1, <2>2, <2>3 DEF PrTypeOK
<1>7. Settings'
  <2>1. WantedIter' = WantedIter /\ WantedThr' = WantedThr
    BY <1>2 DEF WantedIter, WantedThr, Checked, Given
  <2>2. conv.iter = WantedIter /\ conv.thr = WantedThr /\ (conv.iter = 0 => conv.thr \in ThrOptions \ {0})
    BY <1>1 DEF Settings
  <2>3. pc' \in {"loop", "copy"}
    BY <1>2
  <2>4. QED
    BY <1>2, <2>1, <2>2, <2>3 DEF Settings
<1>8. ASSUME NoDangling PROVE Textual'
  <2>1. PICK from \in [Vertices -> Nat], new \in [Vertices -> Nat] : from = Latest /\ new = Update(Latest, Other)
    BY <1>1, <1>3, TypesGive
  <2>2. PICK k \in Nat : MaxInt - Made = k + 1 /\ k + 1 <= MaxInt
    <3>1. (MaxInt - Made) - 1 \in Nat /\ MaxInt - Made = ((MaxInt - Made) - 1) + 1
      BY <1>3, <1>4
    <3>2. QED
      BY <1>4, <3>1
  <2>3. Multiple(from, k + 1) /\ (ofKb \/ Connected # {})
    BY <1>1, <2>1, <2>2 DEF Vectors, Looping
  <2>4. \A v \in Connected : new[v] = Rank(from, v)
    BY <2>1 DEF Update, Connected
  <2>5. TextFacts
    BY <1>1, <1>4, <2>3, TextHolds DEF PrTypeOK
  <2>6. PICK r \in [Connected -> Nat], s \in [Connected -> Nat] :
          r = Textbook[Made] /\ s = Textbook[Made + 1] /\ s = TextStep(r)
    BY <1>4, <2>5 DEF TextFacts
  <2>7. \A v \in Connected : from[v] = r[v]
    BY <1>1, <1>8, <2>1, <2>6 DEF Textual, Looping, IsText
  <2>8. \A v \in Connected : new[v] = s[v]
    <3> TAKE v \in Connected
    <3>1. ~ Dangling(v)
      BY <1>8, ConnectedOK DEF NoDangling
    <3>2. \A u \in Connected : r[u] = from[u]
      BY <2>7
    <3>3. TextStep(r)[v] = Rank(from, v)
      BY <1>4, <2>3, <3>1, <3>2, TextStepIsRank
    <3>4. QED
      BY <2>4, <2>6, <3>3
  <2>9. residual' = Distance(s, r)
    <3>1. PICK x : x = [v \in Connected |-> Abs(new[v] - from[v])]
      OBVIOUS
    <3>2. x = [v \in Connected |-> Abs(s[v] - r[v])]
      BY <2>7, <2>8, <3>1
    <3>3. Distance(new, from) = Distance(s, r)
      BY <3>1, <3>2 DEF Distance
    <3>4. QED
      BY <1>2, <2>1, <3>3
  <2>10. Near(Made + 1) <=> residual' < conv.thr
    <3>1. (Made + 1) - 1 = Made
      BY <1>4
    <3>2. QED
      BY <2>6, <2>9, <3>1 DEF Near
  <2>11. \A j \in 1 .. Made : ~ Near(j)
    BY <1>1, <1>8 DEF Textual
  <2>12. \A j \in 1 .. Made + 1 : Near(j)' <=> Near(j)
    BY <1>2, SameNear
  <2>13. IsText(Latest)'
    <3>1. Textbook' = Textbook /\ Connected' = Connected
      BY <1>2, SameTextbook, SameConnected
    <3>2. \A v \in Connected' : Latest'[v] = Textbook'[Made'][v]
      BY <1>2, <1>3, <2>1, <2>6, <2>8, <3>1
    <3>3. QED
      BY <3>2 DEF IsText
  <2>14. CASE pc' = "loop"
    <3>1. ~ Near(Made + 1)
      BY <1>2, <2>10, <2>14
    <3>2. \A j \in 1 .. Made + 1 : ~ Near(j)
      BY <1>4, <2>11, <3>1
    <3>3. \A j \in 1 .. Made + 1 : ~ Near(j)'
      BY <2>12, <3>2
    <3>4. ~ Returned'
      BY <2>14 DEF Returned
    <3>5. (\A j \in 1 .. Made : ~ Near(j))'
      BY <1>3, <3>3
    <3>6. QED
      BY <2>13, <2>14, <3>4, <3>5 DEF Textual
  <2>15. CASE pc' = "copy"
    <3>1. left' <= 0 \/ residual' < conv.thr
      BY <1>2, <1>3, <1>4, <1>5, <2>15
    <3>2. Made + 1 = conv.iter \/ Near(Made + 1)
      <4>1. CASE residual' < conv.thr
        BY <2>10, <4>1
      <4>2. CASE left' <= 0
        <5>1. left = 1 /\ Made + 1 = Limit
          BY <1>2, <1>3, <1>4, <4>2 DEF Made
        <5>2. CASE conv.iter # 0
          BY <5>1, <5>2 DEF Limit
        <5>3. CASE conv.iter = 0
          <6>1. Made = MaxInt - 1
            BY <1>4, <5>1, <5>3 DEF Limit
          <6>2. conv.thr \in ThrOptions \ {0} /\ conv.thr \in Nat
            BY <1>1, <5>3 DEF Settings, PrTypeOK
          <6>3. (2 * Unit) * Power(DampNum)[Made] < conv.thr * Power(DampDen)[Made]
            BY <6>1, <6>2, ThresholdAssumption
          <6>4. residual' * Power(DampDen)[Made] <= (2 * Unit) * Power(DampNum)[Made]
            BY IterateShrinks
          <6>5. PICK x, y, p, q, a \in Nat : /\ x = residual' /\ y = conv.thr /\ a = 2 * Unit
                                             /\ p = Power(DampDen)[Made] /\ q = Power(DampNum)[Made]
            <7>1. Power(DampDen)[Made] \in Nat /\ Power(DampNum)[Made] \in Nat
              BY <1>4, PowersOfDamping
            <7>2. 2 * Unit \in Nat
              BY ConstantsOK
            <7>3. QED
              BY <1>5, <6>2, <7>1, <7>2
          <6>6. x * p < y * p
            <7>1. x * p \in Nat /\ y * p \in Nat /\ a * q \in Nat
              OBVIOUS
            <7>2. QED
              BY <6>3, <6>4, <6>5, <7>1
          <6>7. x < y
            BY <6>6, FactorKept
          <6>8. QED
            BY <2>10, <6>5, <6>7
        <5>4. QED
          BY <5>2, <5>3
      <4>3. QED
        BY <3>1, <4>1, <4>2
    <3>3. Stopped'
      <4>1. Made' > 0 /\ Made' - 1 = Made
        BY <1>3, <1>4
      <4>2. PICK m \in Nat : m = Made + 1 /\ m \in 1 .. Made + 1
        BY <1>4
      <4>3. \A j \in 1 .. Made : ~ Near(j)'
        BY <1>4, <2>11, <2>12
      <4>4. Made' = conv'.iter \/ Near(Made)'
        <5>1. m = conv.iter \/ Near(m)
          BY <3>2, <4>2
        <5>2. Near(m)' <=> Near(m)
          BY <2>12, <4>2
        <5>3. Made' = m
          BY <1>3, <4>2
        <5>4. Near(Made)' <=> Near(m)'
          BY <5>3 DEF Near
        <5>5. QED
          BY <1>2, <5>1, <5>2, <5>3, <5>4
      <4>5. (\A j \in 1 .. Made - 1 : ~ Near(j))'
        BY <4>1, <4>3
      <4>6. QED
        BY <4>1, <4>4, <4>5 DEF Stopped
    <3>4. ~ Returned'
      BY <2>15 DEF Returned
    <3>5. QED
      BY <2>13, <2>15, <3>3, <3>4 DEF Textual
  <2>16. QED
    BY <1>2, <2>14, <2>15
<1>9. ~ NoDangling => Textual'
  BY <1>2, SameNoDangling DEF Textual
<1>10. QED
  BY <1>3, <1>6, <1>7, <1>8, <1>9 DEF PrIInv

\* End of a call.
LEMMA CopyKeeps ==
  ASSUME PrIInv, Copy
  PROVE  PrIInv'
<1>1. PrTypeOK /\ Settings /\ Vectors /\ Textual /\ pc = "copy"
  BY DEF PrIInv, Copy
<1>2. /\ graph' = graph /\ weighted' = weighted /\ optIter' = optIter /\ optThr' = optThr /\ conv' = conv
      /\ calls' = calls /\ ofKb' = ofKb /\ ppv' = ppv /\ rankMap2' = rankMap2 /\ toMap2' = toMap2
      /\ left' = left /\ residual' = residual /\ pc' = "idle"
  BY DEF Copy, setVars, callVars
<1>3. rankMap1' = Latest
  BY DEF Copy, Latest
<1>4. Limit' = Limit /\ Made' = Made
  BY <1>2 DEF Limit, Made
<1>5. PrTypeOK'
  <2>1. Latest \in [Vertices -> Nat]
    BY <1>1, TypesGive
  <2>2. QED
    BY <1>1, <1>2, <1>3, <1>4, <2>1 DEF PrTypeOK
<1>6. Settings'
  <2>1. WantedIter' = WantedIter /\ WantedThr' = WantedThr
    BY <1>2 DEF WantedIter, WantedThr, Checked, Given
  <2>2. conv.iter = WantedIter /\ conv.thr = WantedThr /\ (conv.iter = 0 => conv.thr \in ThrOptions \ {0})
    BY <1>1 DEF Settings
  <2>3. QED
    BY <1>2, <2>1, <2>2 DEF Settings
<1>7. ~ Looping'
  BY <1>2 DEF Looping
<1>8. Vectors' /\ Steps'
  BY <1>7 DEF Vectors, Steps
<1>9. ASSUME NoDangling PROVE Textual'
  <2>1. IsText(Latest) /\ Stopped
    BY <1>1, <1>9 DEF Textual, Looping
  <2>2. Textbook' = Textbook /\ Connected' = Connected
    BY <1>2, SameTextbook, SameConnected
  <2>3. IsText(rankMap1)'
    <3>1. \A v \in Connected' : rankMap1'[v] = Textbook'[Made'][v]
      BY <1>3, <1>4, <2>1, <2>2 DEF IsText
    <3>2. QED
      BY <3>1 DEF IsText
  <2>4. Stopped'
    <3>1. PICK m \in Nat : m = Made
      BY <1>1, TypesGive
    <3>2. \A k \in 1 .. m : Near(k)' <=> Near(k)
      BY <1>2, SameNear
    <3>3. Near(Made)' <=> Near(m)'
      BY <1>4, <3>1 DEF Near
    <3>4. m > 0 /\ (m = conv.iter \/ Near(m)) /\ \A k \in 1 .. m - 1 : ~ Near(k)
      BY <2>1, <3>1 DEF Stopped
    <3>5. m \in 1 .. m
      BY <3>4
    <3>6. Made' > 0 /\ (Made' = conv'.iter \/ Near(Made)')
      BY <1>2, <1>4, <3>1, <3>2, <3>3, <3>4, <3>5
    <3>7. \A k \in 1 .. m - 1 : ~ Near(k)'
      BY <3>2, <3>4
    <3>8. (\A k \in 1 .. Made - 1 : ~ Near(k))'
      BY <1>4, <3>1, <3>7
    <3>9. QED
      BY <3>6, <3>8 DEF Stopped
  <2>5. QED
    BY <1>2, <1>7, <2>3, <2>4 DEF Textual
<1>10. ~ NoDangling => Textual'
  BY <1>2, SameNoDangling DEF Textual
<1>11. QED
  BY <1>5, <1>6, <1>8, <1>9, <1>10 DEF PrIInv

\* A vector that is the same for all vertices, and not more than all of it.
LEMMA StaticPpv ==
  ASSUME NEW q \in Nat, Cardinality(Vertices) * q <= PpvUnit, NEW p, p = [v \in Vertices |-> q]
  PROVE  p \in [Vertices -> 0 .. PpvUnit] /\ SumFunction(p) <= PpvUnit
<1>1. PICK n, w \in Nat : n = Cardinality(Vertices) /\ w = PpvUnit /\ n # 0
  BY ConstantsOK
<1>2. q <= w
  <2>1. q * 1 <= q * n
    BY <1>1, ProductGrows
  <2>2. q * 1 = q /\ q * n = n * q /\ n * q \in Nat
    OBVIOUS
  <2>3. QED
    BY <1>1, <2>1, <2>2
<1>3. p \in [Vertices -> 0 .. PpvUnit]
  BY <1>1, <1>2
<1>4. p \in [Vertices -> Nat] /\ \A v \in Vertices : p[v] = q
  OBVIOUS
<1>5. SumFunction(p) = Cardinality(Vertices) * q
  BY <1>4, ConstantsOK, SumOfConstant
<1>6. QED
  BY <1>3, <1>5

\* What can be asked for as a personalisation.
LEMMA PpvsOK ==
  ASSUME NEW p \in Ppvs
  PROVE  p \in [Vertices -> 0 .. PpvUnit] /\ SumFunction(p) <= PpvUnit
BY PageRankAssumption

\* Every step keeps the invariant.
LEMMA NextKeeps == PrIInv /\ [PrNext]_prVars => PrIInv'
<1> SUFFICES ASSUME PrIInv, [PrNext]_prVars PROVE PrIInv'
  OBVIOUS
<1>1. PICK a, c : a = Cardinality(Vertices) /\ c = Cardinality(Connected)
  OBVIOUS
<1>2. CASE SetConvergence
  BY <1>2, ConvergenceKeeps
<1>3. CASE KbPpv
  <2>1. PICK p \in Ppvs : Start(a, p) /\ ofKb' = TRUE
    BY <1>1, <1>3 DEF KbPpv
  <2>2. a = IF ofKb' THEN Cardinality(Vertices) ELSE Cardinality(Connected)
    BY <1>1, <2>1
  <2>3. QED
    BY <2>1, <2>2, PpvsOK, StartKeeps
<1>4. CASE KbStatic
  <2>1. PICK q : q = PpvUnit \div Cardinality(Vertices)
    OBVIOUS
  <2>2. PICK p : p = [v \in Vertices |-> q]
    OBVIOUS
  <2>3. Start(a, p) /\ ofKb' = TRUE
    BY <1>1, <1>4, <2>1, <2>2 DEF KbStatic
  <2>4. q \in Nat /\ Cardinality(Vertices) * q <= PpvUnit
    BY <2>1, ConstantsOK, Quotient
  <2>5. a = IF ofKb' THEN Cardinality(Vertices) ELSE Cardinality(Connected)
    BY <1>1, <2>3
  <2>6. p \in [Vertices -> 0 .. PpvUnit] /\ SumFunction(p) <= PpvUnit
    BY <2>2, <2>4, StaticPpv
  <2>7. QED
    BY <2>3, <2>5, <2>6, StartKeeps
<1>5. CASE DgraphPpv
  <2>1. PICK p \in Ppvs : Start(c, p) /\ ofKb' = FALSE
    BY <1>1, <1>5 DEF DgraphPpv
  <2>2. c = IF ofKb' THEN Cardinality(Vertices) ELSE Cardinality(Connected)
    BY <1>1, <2>1
  <2>3. QED
    BY <2>1, <2>2, PpvsOK, StartKeeps
<1>6. CASE DgraphStatic
  <2>1. PICK q : q = PpvUnit * (1 \div Cardinality(Vertices))
    OBVIOUS
  <2>2. PICK p : p = [v \in Vertices |-> q]
    OBVIOUS
  <2>3. Start(c, p) /\ ofKb' = FALSE
    BY <1>1, <1>6, <2>1, <2>2 DEF DgraphStatic
  <2>4. q \in Nat /\ Cardinality(Vertices) * q <= PpvUnit
    <3>1. PICK n, w \in Nat : n = Cardinality(Vertices) /\ w = PpvUnit /\ n # 0
      BY ConstantsOK
    <3>2. PICK x \in Nat : x = 1 \div n /\ n * x <= 1
      BY <3>1, Quotient
    <3>3. w * (n * x) <= w * 1
      <4>1. n * x \in Nat
        OBVIOUS
      <4>2. QED
        BY <3>2, <4>1, ProductGrows
    <3>4. n * (w * x) = w * (n * x) /\ w * 1 = w /\ w * x \in Nat
      OBVIOUS
    <3>5. QED
      BY <2>1, <3>1, <3>2, <3>3, <3>4
  <2>5. c = IF ofKb' THEN Cardinality(Vertices) ELSE Cardinality(Connected)
    BY <1>1, <2>3
  <2>6. p \in [Vertices -> 0 .. PpvUnit] /\ SumFunction(p) <= PpvUnit
    BY <2>2, <2>4, StaticPpv
  <2>7. QED
    BY <2>3, <2>5, <2>6, StartKeeps
<1>7. CASE Iterate
  BY <1>7, IterateKeeps
<1>8. CASE Copy
  BY <1>8, CopyKeeps
<1>9. CASE UNCHANGED prVars
  <2>1. /\ graph' = graph /\ weighted' = weighted /\ optIter' = optIter /\ optThr' = optThr /\ conv' = conv
        /\ calls' = calls /\ ofKb' = ofKb /\ ppv' = ppv /\ rankMap1' = rankMap1 /\ rankMap2' = rankMap2
        /\ toMap2' = toMap2 /\ left' = left /\ residual' = residual /\ pc' = pc
    BY <1>9 DEF prVars, setVars, callVars
  <2>2. PrTypeOK' /\ Settings'
    BY <2>1 DEF PrIInv, PrTypeOK, Settings, Limit, WantedIter, WantedThr, Checked, Given
  <2>3. Vectors' /\ Steps'
    <3>1. PICK f, fs, m, e : f = Latest /\ fs = Other /\ m = Made /\ e = MaxInt - Made
      OBVIOUS
    <3>2. Latest' = f /\ Other' = fs /\ Made' = m /\ (MaxInt - Made)' = e
      BY <2>1, <3>1 DEF Latest, Other, Made, Limit
    <3>3. Connected' = Connected /\ Full' = Full /\ Looping' = Looping
      BY <2>1, SameConnected DEF Full, Dangling, IsEdge, Looping
    <3>4. Vectors'
      BY <2>1, <3>1, <3>2, <3>3 DEF PrIInv, Vectors, Multiple, Mass
    <3>5. Steps'
      <4>1. Multiple(Other, e + 1)' <=> Multiple(fs, e + 1)
        BY <3>2, <3>3 DEF Multiple
      <4>2. \A v \in Connected : Rank(Other, v)' = Rank(fs, v)
        BY <2>1, <3>2, <3>3 DEF Rank, IsEdge, Weight, Out, Dangling
      <4>3. Distance(Latest, Other)' = Distance(f, fs)
        BY <3>2, <3>3 DEF Distance
      <4>4. QED
        BY <2>1, <3>1, <3>2, <3>3, <4>1, <4>2, <4>3 DEF PrIInv, Steps
    <3>6. QED
      BY <3>4, <3>5
  <2>4. Textual'
    <3>1. Textbook' = Textbook /\ Connected' = Connected /\ Made' = Made /\ Latest' = Latest
      BY <2>1, SameTextbook, SameConnected DEF Made, Limit, Latest
    <3>2. NoDangling' <=> NoDangling
      BY <2>1, SameNoDangling
    <3>3. Looping' = Looping /\ Returned' = Returned
      BY <2>1, <3>1 DEF Looping, Returned
    <3>4. QED
      BY <2>1, <3>1, <3>2, <3>3 DEF PrIInv, Textual, IsText, Near, Stopped, Distance
  <2>5. QED
    BY <2>2, <2>3, <2>4 DEF PrIInv
<1>10. QED
  BY <1>2, <1>3, <1>4, <1>5, <1>6, <1>7, <1>8, <1>9 DEF PrNext

\* Every state of calls of pageRank and setConvergence has the invariant: the divisions come out
\* even, the vectors are those of the power method, and what they sum to is not more than one.
THEOREM PrInvariance == PrSpec => []PrIInv
<1>1. PrInit => PrIInv
  BY InitKeeps
<1>2. PrIInv /\ [PrNext]_prVars => PrIInv'
  BY NextKeeps
<1>3. QED
  BY <1>1, <1>2, PTL DEF PrSpec

\* In a state of the invariant, the next iteration divides without a rest.
LEMMA InvIsExact == PrIInv => Exact
<1> SUFFICES ASSUME PrIInv, pc = "loop", NEW u \in Connected
             PROVE  /\ Out(u) # 0 => Latest[u] % (Out(u) * DampDen) = 0
                    /\ (Damp(Latest[u]) * ppv[u]) % PpvUnit = 0
  BY DEF Exact
<1>1. PrTypeOK /\ Multiple(Latest, MaxInt - Made) /\ left > 0
  BY DEF PrIInv, Vectors, Looping
<1>2. GraphOK /\ PpvOK /\ Limit \in 1 .. MaxInt /\ Latest \in [Vertices -> Nat] /\ left \in 0 .. Limit
  BY <1>1, TypesGive DEF PrTypeOK
<1>3. PICK k \in Nat : MaxInt - Made = k + 1
  <2>1. (MaxInt - Made) - 1 \in Nat /\ MaxInt - Made = ((MaxInt - Made) - 1) + 1
    BY <1>1, <1>2, ConstantsOK DEF Made
  <2>2. QED
    BY <2>1
<1>4. PICK f \in [Vertices -> Nat] : f = Latest /\ Multiple(f, k + 1)
  BY <1>1, <1>2, <1>3
<1>5. QED
  BY <1>2, <1>4, StepIsExact

\* In a state of the invariant, the ranks sum to no more than one.
LEMMA InvKeepsMass == PrIInv => MassKept
<1> SUFFICES ASSUME PrIInv PROVE MassKept
  OBVIOUS
<1>1. pc \in {"loop", "copy"} => Mass(Latest) <= Unit /\ (Full => Mass(Latest) = Unit)
  BY DEF PrIInv, Vectors, Looping
<1>2. Mass(Latest) = SumFunction([v \in Connected |-> Latest[v]])
  BY DEF Mass
<1>3. Connected = Vertices /\ NoDangling /\ SumFunction(ppv) = PpvUnit => Full
  BY DEF Full, NoDangling
<1>4. QED
  BY <1>1, <1>2, <1>3, InvIsExact DEF MassKept

\* In a state of the invariant, a call that has returned stopped as its settings say.
LEMMA InvStops == PrIInv => IsPowerMethod /\ StopPolicy
<1> SUFFICES ASSUME PrIInv, Returned, NoDangling PROVE IsPowerMethod /\ StopPolicy
  BY DEF IsPowerMethod, StopPolicy
<1>1. PrTypeOK /\ Settings /\ IsText(rankMap1) /\ Stopped /\ pc = "idle"
  BY DEF PrIInv, Textual, Returned
<1>2. IsPowerMethod
  BY <1>1 DEF IsPowerMethod, IsText
<1>3. conv.iter = WantedIter /\ conv.thr = WantedThr
  BY <1>1 DEF Settings
<1>4. WantedIter # 0 => Made <= WantedIter
  <2>1. Made \in 0 .. Limit /\ Limit \in 1 .. MaxInt
    BY <1>1, TypesGive
  <2>2. conv.iter # 0 => Limit = conv.iter
    BY DEF Limit
  <2>3. QED
    BY <1>3, <2>1, <2>2
<1>5. Made = WantedIter \/ Near(Made)
  BY <1>1, <1>3 DEF Stopped
<1>6. \A k \in 1 .. Made - 1 : ~ Near(k)
  BY <1>1 DEF Stopped
<1>7. StopPolicy
  BY <1>3, <1>4, <1>5, <1>6 DEF StopPolicy, WantedIter, WantedThr, Near
<1>8. QED
  BY <1>2, <1>7

\* IsPowerMethod: whichever vector it was written to, a call hands back the result of the
\* power method.
THEOREM PowerMethod == PrSpec => []IsPowerMethod
<1>1. PrIInv => IsPowerMethod
  BY InvStops
<1>2. QED
  BY <1>1, PrInvariance, PTL

\* MassKept: no iteration makes rank, and none loses it to a division.
THEOREM RankIsKept == PrSpec => []MassKept
<1>1. PrIInv => MassKept
  BY InvKeepsMass
<1>2. QED
  BY <1>1, PrInvariance, PTL

\* StopPolicy: the loop ends at the first iteration below the threshold that the switches
\* ask for, or after as many as they ask for.
THEOREM LoopStops == PrSpec => []StopPolicy
<1>1. PrIInv => StopPolicy
  BY InvStops
<1>2. QED
  BY <1>1, PrInvariance, PTL

\* Contracts: the residual shrinks by the damping with every iteration.
THEOREM ResidualShrinks == PrSpec => Contracts
<1>1. PrIInv /\ [PrNext]_prVars => [pc = "loop" /\ Made > 0 => residual' * DampDen <= residual * DampNum]_prVars
  <2> SUFFICES ASSUME PrIInv, PrNext, pc = "loop", Made > 0
               PROVE  residual' * DampDen <= residual * DampNum
    OBVIOUS
  <2>1. Iterate
    BY DEF PrNext, SetConvergence, KbPpv, KbStatic, DgraphPpv, DgraphStatic, Start, Copy
  <2>2. residual' \in Nat /\ DampDen * residual' <= DampNum * residual
    BY <2>1, IterateContracts
  <2>3. residual \in Nat
    BY DEF PrIInv, PrTypeOK
  <2>4. \A w, x, y, z \in Nat : w * x <= y * z => x * w <= z * y
    OBVIOUS
  <2>5. QED
    BY <2>2, <2>3, <2>4, ConstantsOK
<1>2. QED
  BY <1>1, PrInvariance, PTL DEF PrSpec, Contracts

-----------------------------------------------------------------------------
(* The dictionary.  Every headword of the cache is counted, once.          *)

Counted == IsFiniteSet(DOMAIN cache) /\ heads = Cardinality(DOMAIN cache)

IsRhs(r)  == r = [items |-> r.items, ranges |-> r.ranges]
IsDict(d) == d = [h \in DOMAIN d |-> d[h]] /\ \A h \in DOMAIN d : IsRhs(d[h])

\* The dictionary has as many headwords as m_N says, and some.
Sized ==
  /\ IsDict(dict) /\ IsFiniteSet(DOMAIN dict)
  /\ size = Cardinality(DOMAIN dict) /\ size # 0

\* What has been written, and whether the alternate file has been read, by stages.
Stages ==
  /\ stage = "text" => written = NoDict /\ ~ altDone
  /\ stage = "alt" => altDone
  /\ altDone => opt.prog = "wsd"
  /\ stage = "ready" /\ written # NoDict => opt.prog = "wsd"
  /\ stage = "ready" /\ written = NoDict /\ ~ altDone => Sized
  /\ stage = "disk" => Sized /\ dict = written /\ ~ altDone

IInv == Counted /\ Stages /\ ImageKeeps

-----------------------------------------------------------------------------
(* Lines.                                                                  *)

\* A headword that enters the cache is counted if it is new, and one without concepts
\* neither enters nor counts (read_dictfile_1pass).
LEMMA ReadLineCounts ==
  ASSUME Counted, ReadLine
  PROVE  Counted'
<1>1. PICK l : l = Lines[line]
  OBVIOUS
<1>2. CASE UNCHANGED <<cache, heads>>
  BY <1>2 DEF Counted
<1>3. ASSUME DOMAIN cache' = DOMAIN cache \cup {l.word},
             heads' = IF l.word \in DOMAIN cache THEN heads ELSE heads + 1
      PROVE  Counted'
  <2>1. CASE l.word \in DOMAIN cache
    <3>1. DOMAIN cache' = DOMAIN cache
      BY <1>3, <2>1
    <3>2. QED
      BY <1>3, <2>1, <3>1 DEF Counted
  <2>2. CASE l.word \notin DOMAIN cache
    <3>1. IsFiniteSet(DOMAIN cache')
          /\ Cardinality(DOMAIN cache') = Cardinality(DOMAIN cache) + 1
      BY <1>3, <2>2, FS_AddElement DEF Counted
    <3>2. QED
      BY <1>3, <2>2, <3>1 DEF Counted
  <2>3. QED
    BY <2>1, <2>2
<1>4. UNCHANGED <<cache, heads>>
      \/ /\ DOMAIN cache' = DOMAIN cache \cup {l.word}
         /\ heads' = IF l.word \in DOMAIN cache THEN heads ELSE heads + 1
  BY <1>1 DEF ReadLine
<1>5. QED
  BY <1>2, <1>3, <1>4

\* An empty cache counts nothing.
LEMMA EmptyCounts ==
  /\ IsFiniteSet(DOMAIN NoDict)
  /\ Cardinality(DOMAIN NoDict) = 0
<1>1. DOMAIN NoDict = {}
  BY DEF NoDict
<1>2. QED
  BY <1>1, FS_EmptySet

\* The text becomes a dictionary with as many headwords as were counted, and a reader that
\* has counted none fails.
LEMMA EndTextSizes ==
  ASSUME IInv, EndText
  PROVE  IInv'
<1>1. Counted'
  BY DEF IInv, EndText, Counted
<1>2. written' = NoDict /\ ~ altDone'
  BY DEF IInv, Stages, EndText
<1>3. CASE heads = 0
  <2>1. stage' = "failed"
    BY <1>3 DEF EndText
  <2>2. QED
    BY <1>1, <1>2, <2>1 DEF IInv, Stages, ImageKeeps
<1>4. CASE heads # 0
  <2>1. PICK f \in Filled : dict' = [h \in DOMAIN f |-> Rhs(f[h])]
    BY <1>4 DEF EndText
  <2>2. DOMAIN f = DOMAIN cache
    BY DEF Filled
  <2>3. stage' = "ready" /\ size' = heads
    BY <1>4 DEF EndText
  <2>4. \A h \in DOMAIN f : IsRhs(Rhs(f[h]))
    BY DEF IsRhs, Rhs
  <2>5. DOMAIN dict' = DOMAIN f /\ \A h \in DOMAIN f : dict'[h] = Rhs(f[h])
    BY <2>1
  <2>6. IsDict(dict')
    BY <2>1, <2>4, <2>5 DEF IsDict
  <2>7. Sized'
    BY <1>4, <2>2, <2>3, <2>5, <2>6 DEF Sized, IsDict, IsRhs, IInv, Counted
  <2>8. QED
    BY <1>1, <1>2, <2>3, <2>7 DEF IInv, Stages, ImageKeeps
<1>5. QED
  BY <1>3, <1>4

-----------------------------------------------------------------------------
(* The image.                                                              *)

\* As many entries as there are, are all of them: nothing is lost from an image that is
\* whole (read_dict_from_stream).
LEMMA WholeImage ==
  ASSUME Sized, dict = written, NEW whole \in SUBSET DOMAIN dict,
         Cardinality(whole) = size, dict' = [h \in whole |-> dict[h]]
  PROVE  dict' = written
<1>1. whole = DOMAIN dict
  BY FS_Subset DEF Sized
<1>2. QED
  BY <1>1 DEF Sized, IsDict

\* What is read of an entry has none but its concepts.
LEMMA TornHas ==
  ASSUME NEW rhs, IsRhs(rhs), NEW torn \in Torn(rhs)
  PROVE  ToSet(torn.items) \subseteq ToSet(rhs.items) \cup {Garbage}
<1>1. CASE torn = NoEntry
  BY <1>1, NoElements DEF NoEntry
<1>2. CASE \E k \in 0 .. Len(rhs.items) :
             torn = [items |-> [j \in DOMAIN rhs.items |->
                                  IF j <= k THEN rhs.items[j] ELSE Garbage],
                     ranges |-> {}]
  BY <1>2 DEF ToSet
<1>3. CASE \E rs \in SUBSET rhs.ranges : torn = [rhs EXCEPT !.ranges = rs \cup {Garbage}]
  <2>1. torn.items = rhs.items
    BY <1>3 DEF IsRhs
  <2>2. QED
    BY <2>1
<1>4. QED
  BY <1>1, <1>2, <1>3 DEF Torn

\* What an image that is cut has under its true headwords, it has from what was written,
\* and only the entry in which it ends is not whole; other headwords are empty.
LEMMA CutImage ==
  ASSUME Sized, dict = written, UNCHANGED written, NEW known, NEW garbled, NEW t,
         DOMAIN known \subseteq DOMAIN dict, dict' = Insert(known, garbled),
         \A h \in DOMAIN known : h # t => known[h] = dict[h],
         \A h \in DOMAIN known : ToSet(known[h].items) \subseteq ToSet(dict[h].items) \cup {Garbage}
  PROVE  /\ Cardinality({h \in DOMAIN dict' : /\ dict'[h].items # <<>>
                                             /\ ~ (h \in DOMAIN written' /\ dict'[h] = written'[h])}) <= 1
         /\ \A h \in DOMAIN dict' :
              IF h \in DOMAIN written'
                THEN ToSet(dict'[h].items) \subseteq ToSet(written'[h].items) \cup {Garbage}
                ELSE dict'[h].items = <<>>
<1>1. /\ DOMAIN dict' = DOMAIN known \cup garbled
      /\ \A h \in DOMAIN dict' : dict'[h] = IF h \in DOMAIN known THEN known[h] ELSE NoEntry
  BY DEF Insert
<1>2. NoEntry.items = <<>>
  BY DEF NoEntry
<1> DEFINE torn == {h \in DOMAIN dict' : /\ dict'[h].items # <<>>
                                       /\ ~ (h \in DOMAIN written' /\ dict'[h] = written'[h])}
<1>3. torn = {} \/ torn = {t}
  BY <1>1, <1>2
<1>4. Cardinality(torn) <= 1
  <2> HIDE DEF torn
  <2>1. CASE torn = {}
    BY <2>1, FS_EmptySet
  <2>2. CASE torn = {t}
    <3>1. Cardinality({t}) = 1
      BY FS_Singleton
    <3>2. QED
      BY <2>2, <3>1
  <2>3. QED
    BY <1>3, <2>1, <2>2
<1>5. ASSUME NEW h \in DOMAIN dict'
      PROVE  IF h \in DOMAIN written'
               THEN ToSet(dict'[h].items) \subseteq ToSet(written'[h].items) \cup {Garbage}
               ELSE dict'[h].items = <<>>
  <2>1. CASE h \in DOMAIN known
    BY <1>1, <2>1
  <2>2. CASE h \notin DOMAIN known
    <3>1. dict'[h].items = <<>>
      BY <1>1, <1>2, <2>2
    <3>2. ToSet(dict'[h].items) = {}
      BY <3>1, NoElements
    <3>3. QED
      BY <3>1, <3>2
  <2>3. QED
    BY <2>1, <2>2
<1>6. QED
  BY <1>4, <1>5

\* Reading the image, cut or not, keeps ImageKeeps.
LEMMA LoadKeeps ==
  ASSUME IInv, LoadDict
  PROVE  IInv'
<1>1. Counted'
  BY DEF IInv, LoadDict, Counted
<1>2. Sized /\ dict = written /\ ~ altDone
  BY DEF IInv, Stages, LoadDict
<1>3. UNCHANGED <<written, altDone, cut>> /\ stage' = "ready" /\ opt'.prog = "wsd"
  BY WDictAssumption DEF LoadDict
<1>4. written # NoDict
  BY <1>2, EmptyCounts DEF Sized
<1> DEFINE kept == LET k(h) == h \in DOMAIN written /\ dict[h] = written[h] IN
         /\ Cardinality(DOMAIN dict) <= Cardinality(DOMAIN written)
         /\ Cardinality({h \in DOMAIN dict : dict[h].items # <<>> /\ ~ k(h)}) <= 1
         /\ \A h \in DOMAIN dict :
              IF h \in DOMAIN written
                THEN ToSet(dict[h].items) \subseteq ToSet(written[h].items) \cup {Garbage}
                ELSE dict[h].items = <<>>
<1>5. ASSUME cut, dict' = NoDict
      PROVE  kept'
  <2>1. DOMAIN dict' = {}
    BY <1>5 DEF NoDict
  <2>2. Cardinality(DOMAIN written) \in Nat /\ Cardinality({}) = 0
    BY <1>2, FS_CardinalityType, FS_EmptySet DEF Sized
  <2>3. {h \in DOMAIN dict' : dict'[h].items # <<>> /\ ~ (h \in DOMAIN written' /\ dict'[h] = written'[h])} = {}
    BY <2>1
  <2>4. QED
    BY <1>3, <2>1, <2>2, <2>3
<1>6. ASSUME cut, NEW whole \in SUBSET DOMAIN dict, NEW garbled \in SUBSET Noise,
             dict' = Insert([h \in whole |-> dict[h]], garbled), Cardinality(DOMAIN dict') <= size
      PROVE  kept'
  <2>1. PICK known : known = [h \in whole |-> dict[h]]
    OBVIOUS
  <2>2. PICK t : t = {}
    OBVIOUS
  <2>3. DOMAIN known \subseteq DOMAIN dict /\ \A h \in DOMAIN known : known[h] = dict[h]
    BY <2>1
  <2>4. QED
    BY <1>2, <1>3, <1>6, <2>1, <2>3, CutImage DEF Sized
<1>7. ASSUME cut, NEW whole \in SUBSET DOMAIN dict, NEW garbled \in SUBSET Noise,
             NEW t \in DOMAIN dict \ whole, NEW torn \in Torn(dict[t]),
             dict' = Insert([h \in whole \cup {t} |-> IF h = t THEN torn ELSE dict[h]], garbled),
             Cardinality(DOMAIN dict') <= size
      PROVE  kept'
  <2>1. PICK known : known = [h \in whole \cup {t} |-> IF h = t THEN torn ELSE dict[h]]
    OBVIOUS
  <2>2. DOMAIN known \subseteq DOMAIN dict /\ \A h \in DOMAIN known : h # t => known[h] = dict[h]
    BY <2>1
  <2>3. IsRhs(dict[t])
    BY <1>2 DEF Sized, IsDict
  <2>4. ToSet(torn.items) \subseteq ToSet(dict[t].items) \cup {Garbage}
    BY <2>3, TornHas
  <2>5. \A h \in DOMAIN known : ToSet(known[h].items) \subseteq ToSet(dict[h].items) \cup {Garbage}
    BY <2>1, <2>2, <2>4
  <2>6. QED
    BY <1>2, <1>3, <1>7, <2>1, <2>2, <2>5, CutImage DEF Sized
<1>8. ImageKeeps'
  <2>1. CASE cut
    <3>1. kept'
      BY <1>5, <1>6, <1>7, <2>1 DEF LoadDict
    <3>2. QED
      BY <1>3, <2>1, <3>1 DEF ImageKeeps
  <2>2. CASE ~ cut
    <3>1. PICK whole \in SUBSET DOMAIN dict :
            Cardinality(whole) = size /\ dict' = [h \in whole |-> dict[h]]
      BY <2>2 DEF LoadDict
    <3>2. dict' = written
      BY <1>2, <3>1, WholeImage
    <3>3. QED
      BY <1>3, <2>2, <3>2 DEF ImageKeeps
  <2>3. QED
    BY <2>1, <2>2
<1>9. Stages'
  BY <1>3, <1>4, <1>2 DEF Stages
<1>10. QED
  BY <1>1, <1>8, <1>9 DEF IInv

-----------------------------------------------------------------------------
(* All steps.                                                              *)

\* A walk leaves the dictionary alone.
LEMMA WalkLeavesDict ==
  ASSUME WalkStep
  PROVE  UNCHANGED dictVars /\ stage' \notin {"text", "alt", "ready", "disk"}
<1>1. CASE StartWalks
  BY <1>1 DEF StartWalks, WithBuckets, WithoutIntervals
<1>2. CASE NextContext
  BY <1>2 DEF NextContext, Begin
<1>3. CASE SampleAborts \/ Finish
  BY <1>3 DEF SampleAborts, Finish
<1>4. CASE Emit
  BY <1>4 DEF Emit
<1>5. CASE Move
  BY <1>5 DEF Move
<1>6. CASE EndContext
  BY <1>6 DEF EndContext
<1>7. QED
  BY <1>1, <1>2, <1>3, <1>4, <1>5, <1>6 DEF WalkStep

\* The count, the stages and the image go together from the first line to the last walk.
THEOREM Invariance == Spec => []IInv
<1>1. Init => IInv
  <2> SUFFICES ASSUME Init PROVE IInv
    OBVIOUS
  <2> QED
    BY EmptyCounts DEF Init, DictInit, IInv, Counted, Stages, ImageKeeps
<1>2. IInv /\ [Next]_vars => IInv'
  <2> SUFFICES ASSUME IInv, [Next]_vars PROVE IInv'
    OBVIOUS
  <2>1. CASE ReadLine
    <3>1. Counted'
      BY <2>1, ReadLineCounts DEF IInv
    <3>2. QED
      BY <2>1, <3>1 DEF IInv, Stages, Sized, ImageKeeps, ReadLine, Reading
  <2>2. CASE BadLine
    BY <2>2 DEF IInv, Counted, Stages, Sized, ImageKeeps, BadLine, Reading
  <2>3. CASE EndText
    BY <2>3, EndTextSizes
  <2>4. CASE StartAlt
    BY <2>4, EmptyCounts DEF IInv, Counted, Stages, ImageKeeps, StartAlt
  <2>5. CASE EndAlt
    BY <2>5 DEF IInv, Counted, Stages, ImageKeeps, EndAlt
  <2>6. CASE WriteDict
    BY <2>6 DEF IInv, Counted, Stages, Sized, ImageKeeps, WriteDict
  <2>7. CASE LoadDict
    BY <2>7, LoadKeeps
  <2>8. CASE LoadDictThrows
    BY <2>8 DEF IInv, Counted, Stages, ImageKeeps, LoadDictThrows, dictVars
  <2>9. CASE WalkStep
    BY <2>9, WalkLeavesDict DEF IInv, Counted, Stages, ImageKeeps, dictVars
  <2>10. CASE UNCHANGED vars
    BY <2>10 DEF IInv, Counted, Stages, Sized, ImageKeeps, vars, dictVars
  <2>11. QED
    BY <2>1, <2>2, <2>3, <2>4, <2>5, <2>6, <2>7, <2>8, <2>9, <2>10 DEF Next, DictNext
<1>3. QED
  BY <1>1, <1>2, PTL DEF Spec

\* A dictionary read from its image is the one that was written; an image that is cut off
\* gives no headword another one's concepts, and at most one has some but not all of its
\* own (read_dict_from_stream, write_dict_to_stream).
THEOREM ImageIsKept == Spec => []ImageKeeps
<1>1. IInv => ImageKeeps
  BY DEF IInv
<1>2. QED
  BY <1>1, Invariance, PTL

-----------------------------------------------------------------------------
(* The dictionary and its files.                                           *)

\* Entries of lines and items of headwords, with a number for a weight.
Entry == [c : DOMAIN Pos, w : Int]

\* Options of a setup.
OptOK == IsOptions(opt)

\* Counts are numbers.
LEMMA CountOK ==
  ASSUME OptOK, NEW e \in Entry
  PROVE  Count(e) \in Int /\ e.c \in DOMAIN Pos
BY DEF OptOK, IsOptions, Entry, Count

\* Items stay items.
LEMMA AddOK ==
  ASSUME OptOK, NEW q \in Seq(Entry), NEW e \in Entry
  PROVE  Add(q, e) \in Seq(Entry)
<1>1. [c |-> e.c, w |-> Count(e)] \in Entry
  BY CountOK DEF Entry
<1>2. Append(q, [c |-> e.c, w |-> Count(e)]) \in Seq(Entry)
  BY <1>1, AppendProperties
<1>3. QED
  BY <1>2 DEF Add

\* The items of a headword after each entry of a line.
Adds(f, b, q) == f[0] = b /\ \A k \in 1 .. Len(q) : f[k] = Add(f[k - 1], q[k])

\* The fold over a line is the step by step reading of it.
LEMMA NewItemsIs ==
  ASSUME OptOK, NEW b \in Seq(Entry), NEW q \in Seq(Entry)
  PROVE  \E f \in [0 .. Len(q) -> Seq(Entry)] : Adds(f, b, q) /\ NewItems(b, q) = f[Len(q)]
<1> DEFINE n == Len(q)
           T == Seq(Entry)
           H == [k \in 1 .. n |-> [x \in T |-> Add(x, q[k])]]
           E(fs) == fs = [S \in SUBSET (DOMAIN q) |-> IF S = {} THEN b ELSE Add(fs[S \ {Max(S)}], q[Max(S)])]
<1>1. n \in Nat /\ DOMAIN q = 1 .. n /\ \A k \in 1 .. n : q[k] \in Entry
  BY ElementsAreMembers
<1>2. H \in [1 .. n -> [T -> T]] /\ \A k \in 1 .. n : \A x \in T : H[k][x] = Add(x, q[k])
  BY <1>1, AddOK
<1> HIDE DEF n, T, H
<1>3. b \in T
  BY DEF T
<1>4. PICK fs \in [SUBSET (1 .. n) -> T] : Folds(fs, b, H, n)
  BY <1>1, <1>2, <1>3, FoldsExist
<1>5. E(fs)
  <2>1. ASSUME NEW S \in SUBSET (1 .. n), S # {} PROVE fs[S] = Add(fs[S \ {Max(S)}], q[Max(S)])
    <3>1. Max(S) \in 1 .. n /\ S \ {Max(S)} \in SUBSET (1 .. n)
      BY <1>1, <2>1, MaxOfSome
    <3>2. fs[S] = H[Max(S)][fs[S \ {Max(S)}]]
      BY <1>4, <2>1 DEF Folds
    <3>3. fs[S \ {Max(S)}] \in T
      BY <1>4, <3>1
    <3>4. QED
      BY <1>2, <3>1, <3>2, <3>3
  <2>2. fs[{}] = b
    BY <1>4 DEF Folds
  <2>3. fs = [S \in SUBSET (1 .. n) |-> fs[S]]
    BY <1>4
  <2>4. fs = [S \in SUBSET (1 .. n) |-> IF S = {} THEN b ELSE Add(fs[S \ {Max(S)}], q[Max(S)])]
    BY <2>1, <2>2, <2>3
  <2>5. QED
    BY <1>1, <2>4
<1>6. NewItems(b, q) = (CHOOSE f : E(f))[DOMAIN q]
  BY DEF NewItems, FoldLeft, MapThenFoldSet
<1>7. E(CHOOSE f : E(f))
  <2> HIDE DEF E
  <2> QED BY <1>5
<1>8. PICK d : E(d) /\ NewItems(b, q) = d[DOMAIN q]
  <2> HIDE DEF E
  <2> QED BY <1>6, <1>7
<1>9. \A S \in SUBSET (1 .. n) : d[S] = IF S = {} THEN b ELSE Add(d[S \ {Max(S)}], q[Max(S)])
  BY <1>1, <1>8
<1>10. PICK f \in [0 .. n -> T] : Applies(f, b, H, n)
  BY <1>1, <1>2, <1>3, AppliesExist
<1> DEFINE P == {k \in Nat : d[1 .. k] = f[k]}
<1>11. 0 \in P
  <2>1. 1 .. 0 = {} /\ {} \in SUBSET (1 .. n)
    OBVIOUS
  <2>2. QED
    BY <1>9, <1>10, <2>1 DEF Applies
<1>12. ASSUME NEW k \in 0 .. n - 1, k \in P PROVE k + 1 \in P
  <2>1. k + 1 \in 1 .. n /\ (k + 1) - 1 = k /\ k + 1 \in Nat /\ k \in 0 .. n
    BY <1>1
  <2>2. /\ Max(1 .. k + 1) = k + 1 /\ (1 .. k + 1) \ {k + 1} = 1 .. k
        /\ 1 .. k + 1 # {} /\ 1 .. k + 1 \in SUBSET (1 .. n)
    <3>1. (k + 1) - 1 = k
      BY <2>1
    <3>2. QED
      BY <1>1, <2>1, <3>1, MaxOfAll
  <2>3. d[1 .. k + 1] = Add(d[1 .. k], q[k + 1])
    BY <1>9, <2>2
  <2>4. f[k + 1] = H[k + 1][f[k]] /\ f[k] \in T
    BY <1>10, <2>1 DEF Applies
  <2>5. QED
    BY <1>2, <1>12, <2>1, <2>3, <2>4
<1>13. n \in P
  <2>1. n \in 0 .. n
    BY <1>1
  <2> HIDE DEF P
  <2> QED BY <1>1, <1>11, <1>12, <2>1, CountingUp
<1>14. NewItems(b, q) = f[n]
  BY <1>1, <1>8, <1>13
<1>15. Adds(f, b, q)
  <2>1. \A k \in 1 .. n : k - 1 \in 0 .. n
    BY <1>1
  <2>2. \A k \in 1 .. n : f[k] = Add(f[k - 1], q[k])
    BY <1>2, <1>10, <2>1 DEF Applies
  <2>3. QED
    BY <1>10, <2>2 DEF Adds, Applies, n
<1>16. QED
  BY <1>10, <1>14, <1>15 DEF n, T

\* What the first k of some entries say: of those that are not wrong, the first for each concept.
RightIn(q, k) == {p \in 1 .. k : ~ Wrong(q[p])}
FirstOf(q, k) ==
  {[c |-> q[p].c, w |-> Count(q[p])] :
     p \in {p \in RightIn(q, k) : \A j \in RightIn(q, k) : j < p => q[j].c # q[p].c}}

\* Items that are these, each once.
Distinct(items) == \A p, j \in 1 .. Len(items) : items[p].c = items[j].c => p = j
Holds(items, M) == items \in Seq(Entry) /\ Distinct(items) /\ ToSet(items) = M

\* A concept is in what they say if one of them that is not wrong has it.
LEMMA FirstHas ==
  ASSUME NEW q, NEW k \in Nat, NEW p \in RightIn(q, k)
  PROVE  \E x \in FirstOf(q, k) : x.c = q[p].c
<1> DEFINE S == {j \in RightIn(q, k) : q[j].c = q[p].c}
<1>1. S \in SUBSET Nat /\ S # {}
  BY DEF RightIn
<1>2. PICK m \in S : \A j \in S : m <= j
  <2> HIDE DEF S
  <2> QED BY <1>1, LeastNumber
<1>3. \A j \in RightIn(q, k) : j < m => q[j].c # q[m].c
  <2>1. m \in Nat /\ \A j \in RightIn(q, k) : j \in Nat
    BY <1>1, <1>2 DEF RightIn
  <2>2. \A j \in Nat : j < m => ~ (m <= j)
    BY <2>1
  <2>3. QED
    BY <1>2, <2>1, <2>2
<1>4. [c |-> q[m].c, w |-> Count(q[m])] \in FirstOf(q, k)
  BY <1>2, <1>3 DEF FirstOf
<1>5. QED
  BY <1>2, <1>4

\* And only then.
LEMMA FirstFrom ==
  ASSUME NEW q, NEW k \in Nat, NEW x \in FirstOf(q, k)
  PROVE  \E p \in RightIn(q, k) : x = [c |-> q[p].c, w |-> Count(q[p])] /\ x.c = q[p].c
BY DEF FirstOf

\* One entry more.
LEMMA FirstGrows ==
  ASSUME NEW q, NEW k \in Nat
  PROVE  FirstOf(q, k + 1) =
           IF Wrong(q[k + 1]) \/ \E x \in FirstOf(q, k) : x.c = q[k + 1].c THEN FirstOf(q, k)
           ELSE FirstOf(q, k) \cup {[c |-> q[k + 1].c, w |-> Count(q[k + 1])]}
<1> DEFINE A(p) == \A j \in RightIn(q, k) : j < p => q[j].c # q[p].c
           B(p) == \A j \in RightIn(q, k + 1) : j < p => q[j].c # q[p].c
           X(p) == [c |-> q[p].c, w |-> Count(q[p])]
<1>1. \A p \in 1 .. k : p \in 1 .. k + 1 /\ p # k + 1 /\ ~ (k + 1 < p) /\ p < k + 1
  OBVIOUS
<1>2. 1 .. k + 1 = (1 .. k) \cup {k + 1} /\ ~ (k + 1 < k + 1)
  OBVIOUS
<1>3. RightIn(q, k + 1) = RightIn(q, k) \cup (IF Wrong(q[k + 1]) THEN {} ELSE {k + 1})
  BY <1>1, <1>2 DEF RightIn
<1>4. \A p \in RightIn(q, k) : p \in 1 .. k
  BY DEF RightIn
<1>5. \A p \in RightIn(q, k) : B(p) <=> A(p)
  BY <1>1, <1>3, <1>4
<1>6. B(k + 1) <=> \A j \in RightIn(q, k) : q[j].c # q[k + 1].c
  BY <1>1, <1>2, <1>3, <1>4
<1>7. FirstOf(q, k) = {X(p) : p \in {p \in RightIn(q, k) : A(p)}}
  BY DEF FirstOf
<1>8. FirstOf(q, k + 1) = {X(p) : p \in {p \in RightIn(q, k + 1) : B(p)}}
  BY DEF FirstOf
<1>9. (\E x \in FirstOf(q, k) : x.c = q[k + 1].c) <=> ~ B(k + 1)
  BY <1>6, FirstHas, FirstFrom
<1> HIDE DEF A, B
<1>10. CASE Wrong(q[k + 1])
  BY <1>3, <1>5, <1>7, <1>8, <1>10
<1>11. CASE ~ Wrong(q[k + 1])
  <2>1. RightIn(q, k + 1) = RightIn(q, k) \cup {k + 1}
    BY <1>3, <1>11
  <2>2. CASE B(k + 1)
    <3>1. {p \in RightIn(q, k + 1) : B(p)} = {p \in RightIn(q, k) : A(p)} \cup {k + 1}
      BY <1>5, <2>1, <2>2
    <3>2. FirstOf(q, k + 1) = FirstOf(q, k) \cup {X(k + 1)}
      BY <1>7, <1>8, <3>1
    <3>3. QED
      BY <1>9, <1>11, <2>2, <3>2
  <2>3. CASE ~ B(k + 1)
    <3>1. {p \in RightIn(q, k + 1) : B(p)} = {p \in RightIn(q, k) : A(p)}
      BY <1>5, <2>1, <2>3
    <3>2. QED
      BY <1>7, <1>8, <1>9, <2>3, <3>1
  <2>4. QED
    BY <2>2, <2>3
<1>12. QED
  BY <1>10, <1>11

\* fill_concepts adds what it should add.
LEMMA AddHolds ==
  ASSUME OptOK, NEW q, NEW k \in Nat, q[k + 1] \in Entry, NEW items, Holds(items, FirstOf(q, k))
  PROVE  Holds(Add(items, q[k + 1]), FirstOf(q, k + 1))
<1> DEFINE e == q[k + 1]
           x == [c |-> e.c, w |-> Count(e)]
<1>1. items \in Seq(Entry) /\ Distinct(items) /\ ToSet(items) = FirstOf(q, k)
  BY DEF Holds
<1>2. DOMAIN items = 1 .. Len(items) /\ Len(items) \in Nat
  BY <1>1, ElementsAreMembers
<1>3. (\E p \in DOMAIN items : items[p].c = e.c) <=> \E y \in FirstOf(q, k) : y.c = e.c
  BY <1>1 DEF ToSet
<1>4. CASE Wrong(e) \/ \E p \in DOMAIN items : items[p].c = e.c
  <2>1. Add(items, e) = items
    BY <1>4 DEF Add
  <2>2. FirstOf(q, k + 1) = FirstOf(q, k)
    BY <1>3, <1>4, FirstGrows
  <2>3. QED
    BY <1>1, <2>1, <2>2 DEF Holds
<1>5. CASE ~ Wrong(e) /\ \A p \in DOMAIN items : items[p].c # e.c
  <2>1. Add(items, e) = Append(items, x)
    BY <1>5 DEF Add
  <2>2. FirstOf(q, k + 1) = FirstOf(q, k) \cup {x}
    BY <1>3, <1>5, FirstGrows
  <2>3. x \in Entry /\ x.c = e.c
    BY CountOK DEF Entry
  <2> HIDE DEF x
  <2>4. PICK r : r = Append(items, x)
    OBVIOUS
  <2>5. /\ r \in Seq(Entry) /\ Len(r) = Len(items) + 1 /\ ToSet(r) = ToSet(items) \cup {x}
        /\ (\A p \in 1 .. Len(items) : r[p] = items[p]) /\ r[Len(items) + 1] = x
    BY <1>1, <2>3, <2>4, ElementsOfAppend
  <2>6. \A p \in 1 .. Len(r) : p \in 1 .. Len(items) \/ p = Len(items) + 1
    BY <1>2, <2>5
  <2>7. ASSUME NEW p \in 1 .. Len(r), NEW j \in 1 .. Len(r), r[p].c = r[j].c PROVE p = j
    BY <1>1, <1>2, <1>5, <2>3, <2>5, <2>6, <2>7 DEF Distinct
  <2>8. QED
    BY <1>1, <2>1, <2>2, <2>4, <2>5, <2>7 DEF Holds, Distinct
<1>6. QED
  BY <1>4, <1>5

\* And so do all of a line.
LEMMA NewItemsHold ==
  ASSUME OptOK, NEW q \in Seq(Entry), NEW cs \in Seq(Entry), NEW items, Holds(items, FirstOf(q, Len(q)))
  PROVE  Holds(NewItems(items, cs), FirstOf(q \o cs, Len(q \o cs)))
<1>1. PICK d : d = q \o cs
  OBVIOUS
<1>2. PICK l, n \in Nat : l = Len(q) /\ n = Len(cs)
  BY ElementsAreMembers
<1>3. /\ Len(d) = l + n /\ (\A p \in 1 .. l : d[p] = q[p]) /\ (\A p \in 1 .. n : d[l + p] = cs[p])
  BY <1>1, <1>2, Concatenated
<1>4. \A p \in 1 .. n : cs[p] \in Entry
  BY <1>2, ElementsAreMembers
<1>5. PICK f \in [0 .. n -> Seq(Entry)] : Adds(f, items, cs) /\ NewItems(items, cs) = f[n]
  <2>1. items \in Seq(Entry)
    BY DEF Holds
  <2>2. QED
    BY <1>2, <2>1, NewItemsIs
<1> DEFINE P == {k \in Nat : Holds(f[k], FirstOf(d, l + k))}
<1>6. 0 \in P
  <2>1. RightIn(d, l) = RightIn(q, l)
    BY <1>3 DEF RightIn, Wrong, Count
  <2>2. \A p \in RightIn(q, l) : d[p] = q[p]
    BY <1>3 DEF RightIn
  <2>3. FirstOf(d, l) = FirstOf(q, l)
    BY <2>1, <2>2 DEF FirstOf
  <2>4. l + 0 = l /\ f[0] = items
    BY <1>5 DEF Adds
  <2>5. QED
    BY <1>2, <2>3, <2>4
<1>7. ASSUME NEW k \in 0 .. n - 1, k \in P PROVE k + 1 \in P
  <2>1. k + 1 \in 1 .. n /\ (k + 1) - 1 = k /\ l + (k + 1) = (l + k) + 1 /\ k + 1 \in Nat /\ l + k \in Nat
    OBVIOUS
  <2>2. f[k + 1] = Add(f[k], cs[k + 1]) /\ d[(l + k) + 1] = cs[k + 1] /\ cs[k + 1] \in Entry
    BY <1>2, <1>3, <1>4, <1>5, <2>1 DEF Adds
  <2>3. Holds(f[k], FirstOf(d, l + k))
    BY <1>7
  <2>4. Holds(Add(f[k], d[(l + k) + 1]), FirstOf(d, (l + k) + 1))
    BY <2>1, <2>2, <2>3, AddHolds
  <2>5. QED
    BY <2>1, <2>2, <2>4
<1>8. n \in P
  <2>1. n \in 0 .. n
    OBVIOUS
  <2> HIDE DEF P
  <2> QED BY <1>6, <1>7, <2>1, CountingUp
<1>9. QED
  BY <1>1, <1>3, <1>5, <1>8

\* A function on the first numbers.
LEMMA FunctionAsSeq ==
  ASSUME NEW S, NEW n \in Nat, NEW s \in [1 .. n -> S]
  PROVE  s \in Seq(S) /\ Len(s) = n
<1>1. s \in Seq(S)
  BY SeqDef
<1>2. Len(s) \in Nat /\ DOMAIN s = 1 .. Len(s)
  BY <1>1, LenProperties
<1>3. 1 .. Len(s) = 1 .. n
  BY <1>2
<1>4. ASSUME NEW m \in Nat, 1 .. m = 1 .. n PROVE m = n
  <2>1. (m = 0 \/ m \in 1 .. m) /\ (n = 0 \/ n \in 1 .. n)
    OBVIOUS
  <2>2. (m = 0 \/ m \in 1 .. n) /\ (n = 0 \/ n \in 1 .. m)
    BY <1>4, <2>1
  <2>3. QED
    BY <2>2
<1>5. QED
  BY <1>1, <1>2, <1>3, <1>4

\* A finite set in some order.
LEMMA AnyOrder ==
  ASSUME NEW S, IsFiniteSet(S), NEW s \in SetToSeqs(S)
  PROVE  s \in Seq(S) /\ ToSet(s) = S /\ IsInjective(s) /\ Len(s) = Cardinality(S)
<1>1. PICK n \in Nat : n = Cardinality(S)
  BY FS_CardinalityType
<1>2. s \in [1 .. n -> S] /\ \A p, j \in 1 .. n : p # j => s[p] # s[j]
  BY <1>1 DEF SetToSeqs
<1>3. s \in Seq(S) /\ Len(s) = n
  BY <1>2, FunctionAsSeq
<1>5. IsInjective(s)
  BY <1>2 DEF IsInjective
<1>6. s \in Injection(1 .. n, S)
  BY <1>2, <1>5 DEF Injection
<1>7. Cardinality(1 .. n) = n
  BY FS_Interval
<1>8. s \in Surjection(1 .. n, S)
  BY <1>1, <1>6, <1>7, FS_Injection
<1>9. ToSet(s) = S
  BY <1>2, <1>8 DEF Surjection, ToSet
<1>10. QED
  BY <1>1, <1>3, <1>5, <1>9

\* The elements of a sequence are finitely many.
LEMMA ElementsFinite ==
  ASSUME NEW V, NEW q \in Seq(V)
  PROVE  IsFiniteSet(ToSet(q))
<1>1. DOMAIN q = 1 .. Len(q) /\ Len(q) \in Nat
  BY ElementsAreMembers
<1>2. q \in Surjection(1 .. Len(q), ToSet(q))
  BY <1>1, LenProperties DEF Surjection, ToSet
<1>3. IsFiniteSet(1 .. Len(q))
  BY <1>1, FS_Interval
<1>4. QED
  BY <1>2, <1>3, FS_Surjection

-----------------------------------------------------------------------------
(* Ranges by parts of speech.                                              *)

\* Orders are those of parts of speech.
LEMMA OrderIs ==
  ASSUME opt.pos, NEW c \in DOMAIN Pos, NEW d \in DOMAIN Pos
  PROVE  Order(c) \in Nat /\ Order(d) \in Nat /\ (Order(c) = Order(d) <=> PosOf(c) = PosOf(d))
<1>1. DOMAIN PosOrder = 1 .. Len(PosOrder) /\ Len(PosOrder) \in Nat
  BY WDictAssumption, ElementsAreMembers
<1>2. ASSUME NEW x \in DOMAIN Pos PROVE Order(x) \in DOMAIN PosOrder /\ PosOrder[Order(x)] = PosOf(x)
  <2>1. PosOf(x) \in ToSet(PosOrder)
    BY WDictAssumption DEF PosOf
  <2>2. \E p \in DOMAIN PosOrder : PosOrder[p] = PosOf(x)
    BY <2>1, Zenon DEF ToSet
  <2>3. QED
    BY <2>2, Zenon DEF Order
<1>3. PosOf(c) = PosOf(d) => Order(c) = Order(d)
  BY DEF Order
<1>4. QED
  BY <1>1, <1>2, <1>3

\* Items by their parts of speech.
Sorted(s) == \A p, j \in 1 .. Len(s) : p < j => Order(s[p].c) <= Order(s[j].c)

\* What lies between two of the same part of speech has it too.
LEMMA BetweenSame ==
  ASSUME opt.pos, NEW s \in Seq(Entry), Sorted(s), NEW p \in 1 .. Len(s), NEW j \in 1 .. Len(s),
         PosOf(s[p].c) = PosOf(s[j].c), NEW k \in p .. j
  PROVE  k \in 1 .. Len(s) /\ PosOf(s[k].c) = PosOf(s[p].c)
<1>1. Len(s) \in Nat /\ \A x \in 1 .. Len(s) : s[x].c \in DOMAIN Pos
  <2>1. Len(s) \in Nat /\ \A x \in 1 .. Len(s) : s[x] \in Entry
    BY ElementsAreMembers
  <2>2. \A x \in Entry : x.c \in DOMAIN Pos
    BY DEF Entry
  <2>3. QED
    BY <2>1, <2>2
<1>2. k \in 1 .. Len(s) /\ p <= k /\ k <= j
  BY <1>1
<1>3. CASE k = p \/ k = j
  BY <1>2, <1>3
<1>4. CASE k # p /\ k # j
  <2>1. p < k /\ k < j
    BY <1>2, <1>4
  <2>2. Order(s[p].c) <= Order(s[k].c) /\ Order(s[k].c) <= Order(s[j].c)
    BY <1>2, <2>1 DEF Sorted
  <2>3. Order(s[p].c) = Order(s[j].c) /\ Order(s[p].c) \in Nat /\ Order(s[k].c) \in Nat
    BY <1>1, <1>2, OrderIs
  <2>4. Order(s[p].c) = Order(s[k].c)
    BY <2>2, <2>3
  <2>5. QED
    BY <1>1, <1>2, <2>4, OrderIs
<1>5. QED
  BY <1>3, <1>4

\* A run of places, maximal.
IsRun(s, a, b) ==
  /\ a \in 1 .. Len(s) /\ b \in 1 .. Len(s) /\ a <= b
  /\ \A k \in a .. b : PosOf(s[a].c) = PosOf(s[k].c)
  /\ a > 1 => PosOf(s[a].c) # PosOf(s[a - 1].c)
  /\ b < Len(s) => PosOf(s[b].c) # PosOf(s[b + 1].c)

\* The ranges are the maximal runs.
LEMMA RangesAre ==
  ASSUME NEW s \in Seq(Entry)
  PROVE  /\ \A r \in Ranges(s) : \E a, b \in 1 .. Len(s) :
              IsRun(s, a, b) /\ r = [pos |-> PosOf(s[a].c), left |-> a, right |-> b]
         /\ \A a, b \in 1 .. Len(s) :
              IsRun(s, a, b) => [pos |-> PosOf(s[a].c), left |-> a, right |-> b] \in Ranges(s)
<1> DEFINE same(p, j) == PosOf(s[p].c) = PosOf(s[j].c)
           D == 1 .. Len(s)
           Is(r) == /\ r[1] <= r[2] /\ \A k \in r[1] .. r[2] : same(r[1], k)
                    /\ r[1] > 1 => ~ same(r[1], r[1] - 1)
                    /\ r[2] < Len(s) => ~ same(r[2], r[2] + 1)
           R(r) == [pos |-> PosOf(s[r[1]].c), left |-> r[1], right |-> r[2]]
<1>1. DOMAIN s = 1 .. Len(s)
  BY ElementsAreMembers
<1>2. Ranges(s) = {R(r) : r \in {r \in D \X D : Is(r)}}
  BY <1>1 DEF Ranges
<1>3. \A a, b \in D : Is(<<a, b>>) <=> IsRun(s, a, b)
  BY DEF IsRun
<1>4. \A a, b \in D : R(<<a, b>>) = [pos |-> PosOf(s[a].c), left |-> a, right |-> b]
  OBVIOUS
<1>5. \A r \in D \X D : \E a, b \in D : r = <<a, b>>
  OBVIOUS
<1>6. \A a, b \in D : <<a, b>> \in D \X D
  OBVIOUS
<1> HIDE DEF Is, R, D
<1>7. \A r \in Ranges(s) : \E a, b \in D :
        IsRun(s, a, b) /\ r = [pos |-> PosOf(s[a].c), left |-> a, right |-> b]
  <2> TAKE r \in Ranges(s)
  <2>1. PICK t \in D \X D : Is(t) /\ r = R(t)
    BY <1>2
  <2>2. PICK a, b \in D : t = <<a, b>>
    BY <1>5
  <2>3. QED
    BY <1>3, <1>4, <2>1, <2>2
<1>8. \A a, b \in D : IsRun(s, a, b) => [pos |-> PosOf(s[a].c), left |-> a, right |-> b] \in Ranges(s)
  BY <1>2, <1>3, <1>4, <1>6
<1>9. QED
  BY <1>7, <1>8 DEF D

\* A range has the places of its part of speech, all of them.
LEMMA RangeHas ==
  ASSUME opt.pos, NEW s \in Seq(Entry), Sorted(s), NEW a, NEW b, IsRun(s, a, b),
         NEW k \in 1 .. Len(s)
  PROVE  k \in a .. b <=> PosOf(s[k].c) = PosOf(s[a].c)
<1>1. Len(s) \in Nat /\ a \in 1 .. Len(s) /\ b \in 1 .. Len(s) /\ a <= b
  BY ElementsAreMembers DEF IsRun
<1>2. k \in a .. b => PosOf(s[k].c) = PosOf(s[a].c)
  BY DEF IsRun
<1>3. ASSUME k < a, PosOf(s[k].c) = PosOf(s[a].c) PROVE FALSE
  <2>1. a - 1 \in k .. a /\ a > 1
    BY <1>1, <1>3
  <2>2. PosOf(s[a - 1].c) = PosOf(s[k].c)
    BY <1>1, <1>3, <2>1, BetweenSame
  <2>3. QED
    BY <1>3, <2>1, <2>2 DEF IsRun
<1>4. ASSUME k > b, PosOf(s[k].c) = PosOf(s[a].c) PROVE FALSE
  <2>1. b + 1 \in b .. k /\ b < Len(s) /\ b \in a .. b
    BY <1>1, <1>4
  <2>2. PosOf(s[b].c) = PosOf(s[a].c)
    BY <2>1 DEF IsRun
  <2>3. PosOf(s[b + 1].c) = PosOf(s[b].c)
    BY <1>1, <1>4, <2>1, <2>2, BetweenSame
  <2>4. QED
    BY <2>1, <2>3 DEF IsRun
<1>5. k \in a .. b \/ k < a \/ k > b
  BY <1>1
<1>6. QED
  BY <1>2, <1>3, <1>4, <1>5

\* Every place is in a range.
LEMMA RangeExists ==
  ASSUME NEW s \in Seq(Entry), NEW p \in 1 .. Len(s)
  PROVE  \E a, b \in 1 .. Len(s) : IsRun(s, a, b) /\ PosOf(s[a].c) = PosOf(s[p].c)
<1> DEFINE A == {j \in 1 .. p : \A k \in j .. p : PosOf(s[k].c) = PosOf(s[p].c)}
           B == {j \in p .. Len(s) : \A k \in p .. j : PosOf(s[k].c) = PosOf(s[p].c)}
<1>1. Len(s) \in Nat
  BY ElementsAreMembers
<1>2. PICK a \in A : \A j \in A : a <= j
  <2>1. p \in A /\ A \in SUBSET Nat
    OBVIOUS
  <2> HIDE DEF A
  <2>2. QED
    BY <2>1, LeastNumber
<1>3. PICK b \in B : \A j \in B : j <= b
  <2>1. p \in B /\ B \in SUBSET Nat /\ \A x \in B : x <= Len(s)
    BY <1>1
  <2> HIDE DEF B
  <2>2. QED
    BY <1>1, <2>1, GreatestNumber
<1>4. a \in 1 .. Len(s) /\ b \in 1 .. Len(s) /\ a <= p /\ p <= b /\ a <= b
  BY <1>1, <1>2, <1>3
<1>5. PosOf(s[a].c) = PosOf(s[p].c) /\ PosOf(s[b].c) = PosOf(s[p].c)
  BY <1>2, <1>3, <1>4
<1>6. \A k \in a .. b : PosOf(s[k].c) = PosOf(s[p].c)
  <2> TAKE k \in a .. b
  <2>1. k \in a .. p \/ k \in p .. b
    BY <1>4
  <2>2. QED
    BY <1>2, <1>3, <2>1
<1>7. ASSUME a > 1, PosOf(s[a].c) = PosOf(s[a - 1].c) PROVE FALSE
  <2>1. \A k \in a - 1 .. p : k = a - 1 \/ k \in a .. p
    BY <1>4
  <2>2. \A k \in a - 1 .. p : PosOf(s[k].c) = PosOf(s[p].c)
    BY <1>2, <1>5, <1>7, <2>1
  <2>3. a - 1 \in 1 .. p /\ ~ (a <= a - 1)
    BY <1>4, <1>7
  <2>4. QED
    BY <1>2, <2>2, <2>3
<1>8. ASSUME b < Len(s), PosOf(s[b].c) = PosOf(s[b + 1].c) PROVE FALSE
  <2>1. \A k \in p .. b + 1 : k = b + 1 \/ k \in p .. b
    BY <1>4
  <2>2. \A k \in p .. b + 1 : PosOf(s[k].c) = PosOf(s[p].c)
    BY <1>3, <1>5, <1>8, <2>1
  <2>3. b + 1 \in p .. Len(s) /\ ~ (b + 1 <= b)
    BY <1>4, <1>8
  <2>4. QED
    BY <1>3, <2>2, <2>3
<1>9. QED
  BY <1>4, <1>5, <1>6, <1>7, <1>8 DEF IsRun

\* What an order of the items keeps.
LEMMA SortedHold ==
  ASSUME NEW items, NEW M, Holds(items, M), NEW s \in SortedItems(items)
  PROVE  Holds(s, M) /\ Sorted(s)
<1>1. items \in Seq(Entry) /\ Distinct(items) /\ ToSet(items) = M
  BY DEF Holds
<1>2. IsFiniteSet(M) /\ M \subseteq Entry
  BY <1>1, ElementsFinite, ElementsAreMembers
<1>3. s \in SetToSeqs(M) /\ \A p, j \in DOMAIN s : p < j => Order(s[p].c) <= Order(s[j].c)
  BY <1>1 DEF SortedItems
<1>4. s \in Seq(M) /\ ToSet(s) = M /\ IsInjective(s)
  BY <1>2, <1>3, AnyOrder
<1>5. s \in Seq(Entry)
  BY <1>2, <1>4, SeqMonotonic
<1>6. DOMAIN s = 1 .. Len(s) /\ \A p \in 1 .. Len(s) : s[p] \in M
  BY <1>4, ElementsAreMembers
<1>7. \A x \in M : \E p \in 1 .. Len(items) : items[p] = x
  BY <1>1, ElementsAreMembers DEF ToSet
<1>8. ASSUME NEW p \in 1 .. Len(s), NEW j \in 1 .. Len(s), s[p].c = s[j].c PROVE p = j
  <2>1. PICK p1, j1 \in 1 .. Len(items) : items[p1] = s[p] /\ items[j1] = s[j]
    BY <1>6, <1>7
  <2>2. p1 = j1
    BY <1>1, <1>8, <2>1 DEF Distinct
  <2>3. s[p] = s[j]
    BY <2>1, <2>2
  <2>4. QED
    BY <1>4, <1>6, <2>3 DEF IsInjective
<1>9. Distinct(s)
  BY <1>8 DEF Distinct
<1>10. Sorted(s)
  BY <1>3, <1>6 DEF Sorted
<1>11. QED
  BY <1>4, <1>5, <1>9, <1>10 DEF Holds

\* An entry of the dictionary that has some items.
RhsSays(r, M) == \E s : r = Rhs(s) /\ Holds(s, M) /\ Sorted(s)

\* A part of a sequence.
LEMMA PartOf ==
  ASSUME NEW V, NEW s \in Seq(V), NEW a \in 1 .. Len(s), NEW b \in 1 .. Len(s), a <= b
  PROVE  /\ SubSeq(s, a, b) \in Seq(V) /\ DOMAIN SubSeq(s, a, b) = 1 .. b - a + 1
         /\ \A p \in 1 .. b - a + 1 : SubSeq(s, a, b)[p] = s[a + p - 1] /\ a + p - 1 \in a .. b
         /\ ToSet(SubSeq(s, a, b)) = {s[k] : k \in a .. b}
<1>1. Len(s) \in Nat /\ a \in Int /\ b \in Int /\ \A p \in a .. b : p \in 1 .. Len(s)
  BY ElementsAreMembers
<1>2. \A p \in a .. b : s[p] \in V
  BY <1>1, ElementsAreMembers
<1>3. PICK t : t = SubSeq(s, a, b)
  OBVIOUS
<1>4. t \in Seq(V) /\ Len(t) = b - a + 1 /\ \A p \in 1 .. b - a + 1 : t[p] = s[a + p - 1]
  <2>1. /\ SubSeq(s, a, b) \in Seq(V)
        /\ Len(SubSeq(s, a, b)) = IF a <= b THEN b - a + 1 ELSE 0
        /\ \A p \in 1 .. b - a + 1 : SubSeq(s, a, b)[p] = s[a + p - 1]
    BY <1>1, <1>2, SubSeqProperties
  <2>2. QED
    BY <1>3, <2>1
<1>5. DOMAIN t = 1 .. b - a + 1
  BY <1>4, ElementsAreMembers
<1>6. \A p \in 1 .. b - a + 1 : a + p - 1 \in a .. b
  BY <1>1
<1>7. \A k \in a .. b : k - a + 1 \in 1 .. b - a + 1 /\ a + (k - a + 1) - 1 = k
  BY <1>1
<1>8. ToSet(t) = {t[p] : p \in 1 .. b - a + 1}
  BY <1>5 DEF ToSet
<1>9. ToSet(t) \subseteq {s[k] : k \in a .. b}
  BY <1>4, <1>6, <1>8
<1>10. {s[k] : k \in a .. b} \subseteq ToSet(t)
  <2>1. \A k \in a .. b : s[k] = t[k - a + 1]
    BY <1>4, <1>7
  <2>2. QED
    BY <1>7, <1>8, <2>1
<1>11. QED
  BY <1>3, <1>4, <1>5, <1>6, <1>9, <1>10

\* get_entries gives the items with a part of speech, each once.
LEMMA EntriesAre ==
  ASSUME OptOK, NEW h \in DOMAIN dict, NEW M, RhsSays(dict[h], M), NEW pos
  PROVE  /\ ToSet(Entries(h, pos)) = {x \in M : pos = "#" \/ PosOf(x.c) = pos}
         /\ IsInjective(Entries(h, pos))
<1>1. PICK s : dict[h] = Rhs(s) /\ Holds(s, M) /\ Sorted(s)
  BY DEF RhsSays
<1>2. s \in Seq(Entry) /\ Distinct(s) /\ ToSet(s) = M
  BY <1>1 DEF Holds
<1>3. /\ DOMAIN s = 1 .. Len(s) /\ Len(s) \in Nat /\ \A p \in 1 .. Len(s) : s[p] \in M
  BY <1>2, ElementsAreMembers
<1>4. \A x \in M : \E p \in 1 .. Len(s) : s[p] = x
  BY <1>2, <1>3 DEF ToSet
<1>5. IsInjective(s)
  BY <1>2, <1>3 DEF Distinct, IsInjective
<1>6. dict[h].items = s /\ dict[h].ranges = Ranges(s)
  BY <1>1 DEF Rhs
<1>7. CASE pos = "#"
  <2>1. Entries(h, pos) = s
    BY <1>6, <1>7 DEF Entries
  <2>2. QED
    BY <1>2, <1>5, <1>7, <2>1
<1>8. CASE pos # "#"
  <2> DEFINE rs == {r \in Ranges(s) : r.pos = pos}
  <2>1. Entries(h, pos) = IF rs = {} THEN <<>>
                          ELSE LET r == CHOOSE r \in rs : \A x \in rs : r.left <= x.left
                               IN SubSeq(s, r.left, r.right)
    BY <1>6, <1>8 DEF Entries
  <2>2. \A r \in Ranges(s) : \E a, b \in 1 .. Len(s) :
          IsRun(s, a, b) /\ r = [pos |-> PosOf(s[a].c), left |-> a, right |-> b]
    BY <1>2, RangesAre
  <2>3. \A a, b \in 1 .. Len(s) :
          IsRun(s, a, b) => [pos |-> PosOf(s[a].c), left |-> a, right |-> b] \in Ranges(s)
    BY <1>2, RangesAre
  <2>4. ASSUME NEW r \in rs
        PROVE  \E a, b \in 1 .. Len(s) : IsRun(s, a, b) /\ r.left = a /\ r.right = b /\ PosOf(s[a].c) = pos
    BY <2>2, <2>4
  <2>5. CASE rs = {}
    <3>1. \A x \in M : PosOf(x.c) # pos
      <4>1. SUFFICES ASSUME NEW x \in M, PosOf(x.c) = pos PROVE FALSE
        OBVIOUS
      <4>2. PICK p \in 1 .. Len(s) : s[p] = x
        BY <1>4
      <4>3. PICK a, b \in 1 .. Len(s) : IsRun(s, a, b) /\ PosOf(s[a].c) = PosOf(s[p].c)
        BY <1>2, RangeExists
      <4>4. [pos |-> PosOf(s[a].c), left |-> a, right |-> b] \in rs
        BY <2>3, <4>1, <4>2, <4>3
      <4>5. QED
        BY <2>5, <4>4
    <3>2. Entries(h, pos) = <<>>
      BY <2>1, <2>5
    <3>3. ToSet(<<>>) = {} /\ IsInjective(<<>>)
      BY DEF ToSet, IsInjective
    <3>4. QED
      BY <1>8, <3>1, <3>2, <3>3
  <2>6. CASE rs # {}
    <3>1. opt.pos
      <4>1. SUFFICES ASSUME ~ opt.pos PROVE FALSE
        OBVIOUS
      <4>2. PICK r \in rs : TRUE
        BY <2>6
      <4>3. \E a : PosOf(s[a].c) = pos
        BY <2>4, <4>2
      <4>4. QED
        BY <1>8, <4>1, <4>3 DEF PosOf
    <3>2. \E r \in rs : \A x \in rs : r.left <= x.left
      <4> DEFINE L == {r.left : r \in rs}
      <4>1. L # {} /\ L \in SUBSET Nat
        BY <2>4, <2>6
      <4>2. PICK m \in L : \A k \in L : m <= k
        <5> HIDE DEF L
        <5> QED BY <4>1, LeastNumber
      <4>3. PICK r \in rs : r.left = m
        BY <4>2
      <4>4. QED
        BY <4>2, <4>3
    <3>3. PICK r \in rs : Entries(h, pos) = SubSeq(s, r.left, r.right)
      <4> HIDE DEF rs
      <4>1. (CHOOSE r \in rs : \A x \in rs : r.left <= x.left) \in rs
        BY <3>2, Zenon
      <4>2. QED
        BY <2>1, <2>6, <4>1
    <3>4. PICK a, b \in 1 .. Len(s) : IsRun(s, a, b) /\ r.left = a /\ r.right = b /\ PosOf(s[a].c) = pos
      BY <2>4
    <3>5. a <= b /\ Entries(h, pos) = SubSeq(s, a, b)
      BY <3>3, <3>4 DEF IsRun
    <3>6. PICK t : t = SubSeq(s, a, b)
      OBVIOUS
    <3>7. /\ t \in Seq(Entry) /\ DOMAIN t = 1 .. b - a + 1
          /\ \A p \in 1 .. b - a + 1 : t[p] = s[a + p - 1] /\ a + p - 1 \in a .. b
          /\ ToSet(t) = {s[k] : k \in a .. b}
      BY <1>2, <3>4, <3>5, <3>6, PartOf
    <3>8. \A k \in 1 .. Len(s) : k \in a .. b <=> PosOf(s[k].c) = pos
      BY <1>1, <1>2, <3>1, <3>4, RangeHas
    <3>9. \A k \in a .. b : k \in 1 .. Len(s)
      BY <1>3, <3>4
    <3>10. ToSet(t) = {x \in M : PosOf(x.c) = pos}
      <4>1. ToSet(t) = {s[k] : k \in a .. b}
        BY <3>7
      <4>2. ASSUME NEW k \in a .. b PROVE s[k] \in M /\ PosOf(s[k].c) = pos
        BY <1>3, <3>8, <3>9
      <4>3. ASSUME NEW x \in M, PosOf(x.c) = pos PROVE \E k \in a .. b : s[k] = x
        BY <1>4, <3>8, <4>3
      <4>4. QED
        BY <4>1, <4>2, <4>3
    <3>11. IsInjective(t)
      <4>1. ASSUME NEW p \in 1 .. b - a + 1, NEW j \in 1 .. b - a + 1, t[p] = t[j] PROVE p = j
        <5>1. a + p - 1 = a + j - 1
          BY <1>3, <1>5, <3>7, <3>9, <4>1 DEF IsInjective
        <5>2. QED
          BY <1>3, <3>4, <5>1
      <4>2. QED
        BY <3>7, <4>1 DEF IsInjective
    <3>12. QED
      BY <1>8, <3>5, <3>6, <3>10, <3>11
  <2>7. QED
    BY <2>5, <2>6
<1>9. QED
  BY <1>7, <1>8

-----------------------------------------------------------------------------
(* What the lines of a file say.                                           *)

\* Lines that have entries.
IsLines(f) == Len(f) \in Nat /\ \A p \in 1 .. Len(f) : f[p].cs \in Seq(Entry)

\* The entries of a headword in the first n lines, and what they say.
About(f, h, p) == IF f[p].word = h THEN f[p].cs ELSE <<>>
Told(f, h, n) == FlattenSeq([p \in 1 .. n |-> About(f, h, p)])
Says(f, h, n) == FirstOf(Told(f, h, n), Len(Told(f, h, n)))

\* Files are lines of entries.
LEMMA FilesAreLines ==
  ASSUME NEW f, IsFile(f)
  PROVE  IsLines(f) /\ DOMAIN f = 1 .. Len(f)
<1>1. /\ DOMAIN f = 1 .. Len(f) /\ Len(f) \in Nat /\ \A p \in 1 .. Len(f) : f[p] \in ToSet(f)
  BY ElementsAreMembers DEF IsFile
<1>2. QED
  BY <1>1 DEF IsFile, IsLines, Entry

\* The entries of a headword, line by line.
LEMMA AboutLines ==
  ASSUME NEW f, IsLines(f), NEW h, NEW n \in 0 .. Len(f)
  PROVE  /\ [p \in 1 .. n |-> About(f, h, p)] \in Seq(Seq(Entry))
         /\ Len([p \in 1 .. n |-> About(f, h, p)]) = n
<1>1. n \in Nat /\ \A p \in 1 .. n : p \in 1 .. Len(f)
  BY DEF IsLines
<1>2. <<>> \in Seq(Entry)
  BY EmptySeq
<1>3. \A p \in 1 .. n : About(f, h, p) \in Seq(Entry)
  BY <1>1, <1>2 DEF IsLines, About
<1>4. PICK q : q = [p \in 1 .. n |-> About(f, h, p)]
  OBVIOUS
<1>5. q \in [1 .. n -> Seq(Entry)]
  BY <1>3, <1>4
<1>6. q \in Seq(Seq(Entry)) /\ Len(q) = n
  BY <1>1, <1>5, FunctionAsSeq
<1>7. QED
  BY <1>4, <1>6

\* The next line.
LEMMA ToldMore ==
  ASSUME NEW f, IsLines(f), NEW h, NEW n \in 0 .. Len(f) - 1
  PROVE  Told(f, h, n + 1) = Told(f, h, n) \o About(f, h, n + 1)
<1>1. n \in Nat /\ n \in 0 .. Len(f) /\ n + 1 \in 0 .. Len(f) /\ n + 1 \in 1 .. n + 1
  BY DEF IsLines
<1>2. PICK ss : ss = [p \in 1 .. n + 1 |-> About(f, h, p)]
  OBVIOUS
<1>3. PICK rs : rs = [p \in 1 .. n |-> About(f, h, p)]
  OBVIOUS
<1>4. ss \in Seq(Seq(Entry)) /\ Len(ss) = n + 1
  BY <1>1, <1>2, AboutLines
<1>5. rs \in Seq(Seq(Entry)) /\ Len(rs) = n
  BY <1>1, <1>3, AboutLines
<1>6. \A p \in 1 .. n : rs[p] = ss[p]
  BY <1>1, <1>2, <1>3
<1>7. FlattenSeq(ss) = FlattenSeq(rs) \o ss[n + 1]
  BY <1>1, <1>4, <1>5, <1>6, FlattenMore
<1>8. ss[n + 1] = About(f, h, n + 1)
  BY <1>1, <1>2
<1>9. QED
  BY <1>2, <1>3, <1>7, <1>8 DEF Told

\* Before the first line nothing is said.
LEMMA ToldNothing ==
  ASSUME NEW f, NEW h
  PROVE  Told(f, h, 0) = <<>> /\ Says(f, h, 0) = {}
<1>1. Told(f, h, 0) = <<>>
  <2>1. [p \in 1 .. 0 |-> About(f, h, p)] = <<>>
    OBVIOUS
  <2>2. FlattenSeq(<<>>) = <<>>
    BY DEF FlattenSeq
  <2>3. QED
    BY <2>1, <2>2 DEF Told
<1>2. Len(<<>>) = 0 /\ FirstOf(<<>>, 0) = {}
  BY DEF FirstOf, RightIn
<1>3. QED
  BY <1>1, <1>2 DEF Says

\* Entries, and none of a headword that has no line.
LEMMA ToldIs ==
  ASSUME NEW f, IsLines(f), NEW h, NEW n \in 0 .. Len(f)
  PROVE  /\ Told(f, h, n) \in Seq(Entry)
         /\ Told(f, h, n) # <<>> => \E p \in 1 .. n : f[p].word = h
<1> DEFINE P == {m \in Nat : /\ Told(f, h, m) \in Seq(Entry)
                             /\ Told(f, h, m) # <<>> => \E p \in 1 .. m : f[p].word = h}
<1>1. 0 \in P
  BY ToldNothing, EmptySeq
<1>2. ASSUME NEW m \in 0 .. n - 1, m \in P PROVE m + 1 \in P
  <2>1. m \in 0 .. Len(f) - 1 /\ m + 1 \in 1 .. Len(f) /\ m + 1 \in 1 .. m + 1 /\ m + 1 \in Nat
        /\ \A p \in 1 .. m : p \in 1 .. m + 1
    BY DEF IsLines
  <2>2. Told(f, h, m + 1) = Told(f, h, m) \o About(f, h, m + 1)
    BY <2>1, ToldMore
  <2>3. CASE f[m + 1].word = h
    <3>1. About(f, h, m + 1) \in Seq(Entry)
      BY <2>1, <2>3 DEF About, IsLines
    <3>2. Told(f, h, m) \o About(f, h, m + 1) \in Seq(Entry)
      BY <1>2, <3>1, ConcatProperties
    <3>3. QED
      BY <2>1, <2>2, <2>3, <3>2
  <2>4. CASE f[m + 1].word # h
    <3>1. Told(f, h, m) \o <<>> = Told(f, h, m)
      BY <1>2, ConcatEmptySeq
    <3>2. Told(f, h, m + 1) = Told(f, h, m)
      BY <2>2, <2>4, <3>1 DEF About
    <3>3. QED
      BY <1>2, <2>1, <3>2
  <2>5. QED
    BY <2>3, <2>4
<1>3. n \in P
  <2>1. n \in Nat /\ n \in 0 .. n
    BY DEF IsLines
  <2> HIDE DEF P
  <2> QED BY <1>1, <1>2, <2>1, CountingUp
<1>4. QED
  BY <1>3

\* A line of another headword, or one without entries, says nothing more.
LEMMA SaysSame ==
  ASSUME NEW f, IsLines(f), NEW h, NEW n \in 0 .. Len(f) - 1, About(f, h, n + 1) = <<>>
  PROVE  Says(f, h, n + 1) = Says(f, h, n)
<1>1. Told(f, h, n) \in Seq(Entry)
  <2>1. n \in 0 .. Len(f)
    BY DEF IsLines
  <2>2. QED
    BY <2>1, ToldIs
<1>2. Told(f, h, n) \o <<>> = Told(f, h, n)
  BY <1>1, ConcatEmptySeq
<1>3. QED
  BY <1>2, ToldMore DEF Says

\* All lines say what is meant.
LEMMA MeantIsSaid ==
  ASSUME NEW f, IsFile(f), NEW h
  PROVE  Meant(f, h) = Says(f, h, Len(f))
<1>1. IsLines(f) /\ DOMAIN f = 1 .. Len(f)
  BY FilesAreLines
<1>2. PICK said : said = Told(f, h, Len(f))
  OBVIOUS
<1>3. said = FlattenSeq([p \in DOMAIN f |-> IF f[p].word = h THEN f[p].cs ELSE <<>>])
  BY <1>1, <1>2 DEF Told, About
<1>4. DOMAIN said = 1 .. Len(said)
  <2>1. Len(f) \in 0 .. Len(f)
    BY <1>1 DEF IsLines
  <2>2. said \in Seq(Entry)
    BY <1>1, <1>2, <2>1, ToldIs
  <2>3. QED
    BY <2>2, ElementsAreMembers
<1>5. {p \in DOMAIN said : ~ Wrong(said[p])} = RightIn(said, Len(said))
  BY <1>4 DEF RightIn
<1>6. Meant(f, h) = FirstOf(said, Len(said))
  BY <1>3, <1>5 DEF Meant, FirstOf
<1>7. QED
  BY <1>2, <1>6 DEF Says

\* A headword has a line.
LEMMA HeadwordsSaid ==
  ASSUME NEW f, IsFile(f)
  PROVE  \A h : h \in Headwords(f) <=> Meant(f, h) # {}
<1>1. SUFFICES ASSUME NEW h, Meant(f, h) # {} PROVE h \in {f[p].word : p \in DOMAIN f}
  BY DEF Headwords
<1>2. IsLines(f) /\ DOMAIN f = 1 .. Len(f) /\ Len(f) \in 0 .. Len(f)
  BY FilesAreLines DEF IsLines
<1>3. Told(f, h, Len(f)) # <<>>
  <2>1. SUFFICES ASSUME Told(f, h, Len(f)) = <<>> PROVE FALSE
    OBVIOUS
  <2>2. Len(<<>>) = 0 /\ FirstOf(<<>>, 0) = {}
    BY DEF FirstOf, RightIn
  <2>3. QED
    BY <1>1, <2>1, <2>2, MeantIsSaid DEF Says
<1>4. QED
  BY <1>2, <1>3, ToldIs

-----------------------------------------------------------------------------
(* The cache.                                                              *)

\* The cache has what the first n lines say.
Cached(f, n) ==
  \A h : /\ h \in DOMAIN cache <=> Says(f, h, n) # {}
         /\ h \in DOMAIN cache => Holds(cache[h], Says(f, h, n))

\* What lines say depends on the options only.
LEMMA SaysKept ==
  ASSUME UNCHANGED opt, NEW CONSTANT f, NEW CONSTANT h, NEW CONSTANT n
  PROVE  Says(f, h, n)' = Says(f, h, n)
BY DEF Says, Told, About, FirstOf, RightIn, Wrong, Count

\* Nothing before the first line.
LEMMA CachedNothing ==
  ASSUME NEW f, cache = NoDict
  PROVE  Cached(f, 0)
BY ToldNothing DEF Cached, NoDict

\* read_dictfile_1pass reads a line into the cache.
LEMMA LineCached ==
  ASSUME OptOK, NEW CONSTANT f, IsLines(f), NEW CONSTANT n \in 0 .. Len(f) - 1, Cached(f, n), UNCHANGED opt,
         LET l     == f[n + 1]
             known == IF l.word \in DOMAIN cache THEN cache[l.word] ELSE <<>>
             items == NewItems(known, l.cs)
         IN IF items = <<>> THEN UNCHANGED cache
            ELSE cache' = [h \in DOMAIN cache \cup {l.word} |->
                             IF h = l.word THEN items ELSE cache[h]]
  PROVE  Cached(f, n + 1)'
<1>1. PICK l : l = f[n + 1]
  OBVIOUS
<1>2. PICK w : w = l.word
  OBVIOUS
<1>3. PICK known : known = IF w \in DOMAIN cache THEN cache[w] ELSE <<>>
  OBVIOUS
<1>4. PICK items : items = NewItems(known, l.cs)
  OBVIOUS
<1>5. IF items = <<>> THEN UNCHANGED cache
      ELSE cache' = [h \in DOMAIN cache \cup {w} |-> IF h = w THEN items ELSE cache[h]]
  BY <1>1, <1>2, <1>3, <1>4
<1>6. PICK q : q = Told(f, w, n)
  OBVIOUS
<1>7. n \in 0 .. Len(f) /\ n + 1 \in 1 .. Len(f)
  BY DEF IsLines
<1>8. q \in Seq(Entry) /\ l.cs \in Seq(Entry)
  BY <1>1, <1>6, <1>7, ToldIs DEF IsLines
<1>9. Says(f, w, n) = FirstOf(q, Len(q))
  BY <1>6 DEF Says
<1>10. Says(f, w, n + 1) = FirstOf(q \o l.cs, Len(q \o l.cs))
  <2>1. Told(f, w, n + 1) = Told(f, w, n) \o About(f, w, n + 1)
    BY <1>7, ToldMore
  <2>2. About(f, w, n + 1) = l.cs
    BY <1>1, <1>2 DEF About
  <2>3. Told(f, w, n + 1) = q \o l.cs
    BY <1>6, <2>1, <2>2
  <2>4. QED
    BY <2>3 DEF Says
<1>11. Holds(known, Says(f, w, n))
  <2>1. Holds(<<>>, {})
    BY EmptySeq DEF Holds, Distinct, ToSet
  <2>2. /\ w \in DOMAIN cache => Holds(cache[w], Says(f, w, n))
        /\ w \notin DOMAIN cache => Says(f, w, n) = {}
    BY Zenon DEF Cached
  <2>3. CASE w \in DOMAIN cache
    BY <1>3, <2>2, <2>3
  <2>4. CASE w \notin DOMAIN cache
    BY <1>3, <2>1, <2>2, <2>4
  <2>5. QED
    BY <2>3, <2>4
<1>12. Holds(items, Says(f, w, n + 1))
  <2>1. PICK cs \in Seq(Entry) : cs = l.cs
    BY <1>8
  <2>2. Holds(NewItems(known, cs), FirstOf(q \o cs, Len(q \o cs)))
    BY <1>8, <1>9, <1>11, NewItemsHold
  <2>3. QED
    BY <1>4, <1>10, <2>1, <2>2
<1>13. Says(f, w, n + 1) = {} <=> items = <<>>
  <2>1. items \in Seq(Entry) /\ ToSet(items) = Says(f, w, n + 1)
    BY <1>12 DEF Holds
  <2>2. items # <<>> <=> Len(items) > 0
    BY <2>1, ElementsAreMembers
  <2>3. DOMAIN items = 1 .. Len(items) /\ Len(items) \in Nat
    BY <2>1, ElementsAreMembers
  <2>4. DOMAIN items = {} <=> items = <<>>
    <3>1. \A m \in Nat : m > 0 => 1 \in 1 .. m
      OBVIOUS
    <3>2. \A m \in Nat : ~ (m > 0) => 1 .. m = {}
      OBVIOUS
    <3>3. QED
      BY <2>2, <2>3, <3>1, <3>2
  <2>5. ToSet(items) = {} <=> DOMAIN items = {}
    BY NoElements
  <2>6. QED
    BY <2>1, <2>4, <2>5
<1>14. Says(f, w, n) # {} => Says(f, w, n + 1) # {}
  <2>1. SUFFICES ASSUME Says(f, w, n) # {} PROVE Says(f, w, n + 1) # {}
    OBVIOUS
  <2>2. PICK d : d = q \o l.cs
    OBVIOUS
  <2>3. Len(q) \in Nat /\ Len(d) \in Nat /\ Len(q) <= Len(d) /\ \A p \in 1 .. Len(q) : d[p] = q[p]
    BY <1>8, <2>2, Concatenated
  <2>4. PICK p \in RightIn(q, Len(q)) : TRUE
    BY <1>9, <2>1, <2>3, FirstFrom
  <2>5. p \in RightIn(d, Len(d))
    BY <2>3, <2>4 DEF RightIn
  <2>6. QED
    BY <1>10, <2>2, <2>3, <2>5, FirstHas
<1>15. \A h : h # w => Says(f, h, n + 1) = Says(f, h, n)
  BY <1>1, <1>2, SaysSame DEF About
<1>16. \A h : /\ h \in DOMAIN cache' <=> Says(f, h, n + 1) # {}
              /\ h \in DOMAIN cache' => Holds(cache'[h], Says(f, h, n + 1))
  <2>1. \A h : /\ h \in DOMAIN cache <=> Says(f, h, n) # {}
               /\ h \in DOMAIN cache => Holds(cache[h], Says(f, h, n))
    BY DEF Cached
  <2>2. CASE items = <<>>
    <3>1. cache' = cache
      BY <1>5, <2>2
    <3>2. w \notin DOMAIN cache
      BY <1>13, <1>14, <2>1, <2>2
    <3>3. QED
      BY <1>13, <1>15, <2>1, <2>2, <3>1, <3>2
  <2>3. CASE items # <<>>
    <3>1. cache' = [h \in DOMAIN cache \cup {w} |-> IF h = w THEN items ELSE cache[h]]
      BY <1>5, <2>3
    <3>2. DOMAIN cache' = DOMAIN cache \cup {w} /\ cache'[w] = items
          /\ \A h \in DOMAIN cache : h # w => cache'[h] = cache[h]
      BY <3>1
    <3>3. QED
      BY <1>12, <1>13, <1>15, <2>1, <2>3, <3>2
  <2>4. QED
    BY <2>2, <2>3
<1>17. \A h : Says(f, h, n + 1)' = Says(f, h, n + 1)
  BY SaysKept
<1>18. QED
  BY <1>16, <1>17 DEF Cached, Holds, Distinct

\* A line without entries.
LEMMA EmptyLineCached ==
  ASSUME NEW CONSTANT f, IsLines(f), NEW CONSTANT n \in 0 .. Len(f) - 1, Cached(f, n), UNCHANGED <<opt, cache>>,
         f[n + 1].cs = <<>>
  PROVE  Cached(f, n + 1)'
<1>1. \A h : Says(f, h, n + 1) = Says(f, h, n)
  BY SaysSame DEF About
<1>2. \A h : Says(f, h, n + 1)' = Says(f, h, n + 1)
  BY SaysKept
<1>3. QED
  BY <1>1, <1>2 DEF Cached, Holds, Distinct

-----------------------------------------------------------------------------
(* The dictionary.                                                         *)

\* The dictionary is what two files say, the second before the first, if it counts; or the
\* image, once there is one, instead of the first.
DictHas(d, text, image, alt, both) ==
  LET alts == IF both THEN Headwords(alt) ELSE {} IN
  /\ DOMAIN d = (IF image = NoDict THEN Headwords(text) ELSE DOMAIN image) \cup alts
  /\ \A h \in DOMAIN d :
       IF h \in alts THEN RhsSays(d[h], Meant(alt, h))
       ELSE IF image = NoDict THEN RhsSays(d[h], Meant(text, h))
       ELSE d[h] = image[h]

\* fill_wdict_hw makes a dictionary of the cache.
LEMMA FilledHas ==
  ASSUME NEW f, IsFile(f), Cached(f, Len(f)), NEW F \in Filled
  PROVE  /\ DOMAIN F = DOMAIN cache /\ DOMAIN F = Headwords(f)
         /\ \A h \in DOMAIN F : RhsSays(Rhs(F[h]), Meant(f, h))
<1>1. DOMAIN F = DOMAIN cache /\ \A h \in DOMAIN cache : F[h] \in SortedItems(cache[h])
  BY DEF Filled
<1>2. \A h : h \in DOMAIN cache <=> h \in Headwords(f)
  BY HeadwordsSaid, MeantIsSaid DEF Cached
<1>3. DOMAIN cache = Headwords(f)
  <2>1. Headwords(f) = {h \in Headwords(f) : TRUE}
    OBVIOUS
  <2>2. QED
    BY <1>2
<1>4. \A h \in DOMAIN F : Holds(cache[h], Meant(f, h))
  BY <1>1, MeantIsSaid DEF Cached
<1>5. \A h \in DOMAIN F : RhsSays(Rhs(F[h]), Meant(f, h))
  BY <1>1, <1>4, SortedHold DEF RhsSays
<1>6. QED
  BY <1>1, <1>3, <1>5

\* So does what a file means,
LEMMA MeantKept ==
  ASSUME UNCHANGED opt, NEW CONSTANT f, NEW CONSTANT h
  PROVE  Meant(f, h)' = Meant(f, h) /\ Headwords(f)' = Headwords(f)
BY DEF Meant, Headwords, Wrong, Count

\* and so do the ranges and the order of items.
LEMMA RhsKept ==
  ASSUME UNCHANGED opt, NEW CONSTANT s
  PROVE  Rhs(s)' = Rhs(s) /\ (Sorted(s) => Sorted(s)')
BY DEF Sorted, Order, Rhs, Ranges, PosOf

\* and with them what an entry says.
LEMMA SaysKeptRhs ==
  ASSUME UNCHANGED opt, NEW CONSTANT x, NEW CONSTANT f, NEW CONSTANT h, RhsSays(x, Meant(f, h))
  PROVE  RhsSays(x, Meant(f, h))'
<1>1. PICK s : x = Rhs(s) /\ Holds(s, Meant(f, h)) /\ Sorted(s)
  BY DEF RhsSays
<1>2. Meant(f, h)' = Meant(f, h)
  BY MeantKept
<1>3. Rhs(s)' = Rhs(s) /\ Sorted(s)'
  BY <1>1, RhsKept
<1>4. x = Rhs(s)' /\ Holds(s, Meant(f, h)') /\ Sorted(s)'
  BY <1>1, <1>2, <1>3
<1>5. QED
  BY <1>4 DEF RhsSays, Holds

\* It stays that when the files and options do.
LEMMA DictHasKept ==
  ASSUME UNCHANGED opt, NEW CONSTANT d, NEW CONSTANT text, NEW CONSTANT image, NEW CONSTANT alt,
         NEW CONSTANT both, DictHas(d, text, image, alt, both)
  PROVE  DictHas(d, text, image, alt, both)'
<1>1. \A f : Headwords(f)' = Headwords(f)
  BY MeantKept
<1>2. PICK alts : alts = IF both THEN Headwords(alt) ELSE {}
  OBVIOUS
<1>3. alts = (IF both THEN Headwords(alt) ELSE {})'
  BY <1>1, <1>2
<1>4. DOMAIN d = (IF image = NoDict THEN Headwords(text)' ELSE DOMAIN image) \cup alts
  BY <1>1, <1>2 DEF DictHas
<1>5. ASSUME NEW CONSTANT h \in DOMAIN d
      PROVE  IF h \in alts THEN RhsSays(d[h], Meant(alt, h))'
             ELSE IF image = NoDict THEN RhsSays(d[h], Meant(text, h))'
             ELSE d[h] = image[h]
  <2>1. PICK x : x = d[h]
    OBVIOUS
  <2>2. IF h \in alts THEN RhsSays(x, Meant(alt, h))
        ELSE IF image = NoDict THEN RhsSays(x, Meant(text, h))
        ELSE x = image[h]
    BY <1>2, <2>1 DEF DictHas
  <2>3. \A f : RhsSays(x, Meant(f, h)) => RhsSays(x, Meant(f, h))'
    <3> TAKE f
    <3> HAVE RhsSays(x, Meant(f, h))
    <3> QED BY SaysKeptRhs
  <2>4. QED
    BY <2>1, <2>2, <2>3
<1>6. NoDict' = NoDict
  BY DEF NoDict
<1>7. QED
  BY <1>3, <1>4, <1>5, <1>6 DEF DictHas

-----------------------------------------------------------------------------
(* All steps.                                                              *)

\* The lines that have been read are in the cache, and the dictionary, once there is one and
\* unless its image is cut off, is what the files say that have been read to their ends, or
\* its image and the alternate file.
DictRight(s, n, d, both) ==
  /\ files = s.files /\ line = n + 1 /\ dict = d
  /\ (opt = s.opt \/ (opt \in Loaders /\ written # NoDict))
  /\ both = (altDone /\ stage # "alt")
  /\ stage = "text" => n <= Len(s.files.text) /\ Cached(s.files.text, n)
  /\ stage = "alt" => n <= Len(s.files.alt) /\ Cached(s.files.alt, n)
  /\ stage \notin {"text", "failed"} /\ ~ cut =>
       /\ DictHas(d, s.files.text, written, s.files.alt, both)
       /\ IsFiniteSet(DOMAIN d) /\ size = Cardinality(DOMAIN d)
  /\ cut => written # NoDict

DictInv == \E s \in Setups, n \in Nat, both \in BOOLEAN : \E d : DictRight(s, n, d, both)

\* Setups have files and options.
LEMMA SetupOK ==
  ASSUME NEW CONSTANT s \in Setups, opt = s.opt \/ opt \in Loaders
  PROVE  /\ OptOK /\ IsFile(s.files.text) /\ IsFile(s.files.alt)
         /\ IsLines(s.files.text) /\ IsLines(s.files.alt)
<1>1. IsFile(s.files.text) /\ IsFile(s.files.alt) /\ IsOptions(opt)
  BY WDictAssumption
<1>2. QED
  BY <1>1, FilesAreLines DEF OptOK

\* Lines of either file (read_dictfile_1pass).
LEMMA ReadLineRight ==
  ASSUME DictInv, ReadLine \/ BadLine
  PROVE  DictInv'
<1>1. PICK s \in Setups, n \in Nat, both \in BOOLEAN : \E d : DictRight(s, n, d, both)
  BY DEF DictInv
<1>2. PICK d : DictRight(s, n, d, both)
  BY <1>1
<1>3. /\ stage \in {"text", "alt"} /\ line <= Len(Lines) /\ line' = line + 1
      /\ UNCHANGED <<files, opt, dict, size, altDone, cut, written>>
  BY DEF ReadLine, BadLine, Reading
<1>4. PICK f : f = IF stage = "alt" THEN s.files.alt ELSE s.files.text
  OBVIOUS
<1>5. files = s.files /\ (opt = s.opt \/ opt \in Loaders) /\ line = n + 1 /\ dict = d
  BY <1>2 DEF DictRight
<1>6. Lines = f
  BY <1>4, <1>5 DEF Lines
<1>7. OptOK /\ IsLines(f)
  BY <1>4, <1>5, SetupOK
<1>8. n \in 0 .. Len(f) - 1 /\ n + 1 <= Len(f) /\ line' = (n + 1) + 1 /\ n + 1 \in Nat
  BY <1>3, <1>5, <1>6, <1>7 DEF IsLines
<1>9. Cached(f, n)
  BY <1>2, <1>3, <1>4 DEF DictRight
<1>10. CASE ReadLine
  <2>1. stage' = stage
    BY <1>10 DEF ReadLine
  <2>2. LET l     == f[n + 1]
            known == IF l.word \in DOMAIN cache THEN cache[l.word] ELSE <<>>
            items == NewItems(known, l.cs)
        IN IF items = <<>> THEN UNCHANGED cache
           ELSE cache' = [h \in DOMAIN cache \cup {l.word} |->
                            IF h = l.word THEN items ELSE cache[h]]
    BY <1>5, <1>6, <1>10 DEF ReadLine
  <2>3. Cached(f, n + 1)'
    BY <1>3, <1>7, <1>8, <1>9, <2>2, LineCached
  <2>4. \A w : DictHas(d, s.files.text, w, s.files.alt, both) => DictHas(d, s.files.text, w, s.files.alt, both)'
    BY <1>3, DictHasKept
  <2>5. DictRight(s, n + 1, d, both)'
    BY <1>2, <1>3, <1>4, <1>8, <2>1, <2>3, <2>4 DEF DictRight
  <2>6. QED
    BY <1>8, <2>5 DEF DictInv
<1>11. CASE BadLine
  <2>1. UNCHANGED cache /\ stage' = IF opt.strict THEN "failed" ELSE stage
    BY <1>11 DEF BadLine
  <2>2. CASE opt.strict
    <3>1. stage' = "failed"
      BY <2>1, <2>2
    <3>2. PICK b \in BOOLEAN : b = (altDone' /\ stage' # "alt")
      OBVIOUS
    <3>3. DictRight(s, n + 1, d, b)'
      BY <1>2, <1>3, <1>8, <3>1, <3>2 DEF DictRight
    <3>4. QED
      BY <1>8, <3>3 DEF DictInv
  <2>3. CASE ~ opt.strict
    <3>1. f[n + 1].cs = <<>> /\ stage' = stage
      BY <1>5, <1>6, <1>11, <2>1, <2>3 DEF BadLine
    <3>2. Cached(f, n + 1)'
      BY <1>3, <1>7, <1>8, <1>9, <2>1, <3>1, EmptyLineCached
    <3>3. \A w : DictHas(d, s.files.text, w, s.files.alt, both) => DictHas(d, s.files.text, w, s.files.alt, both)'
      BY <1>3, DictHasKept
    <3>4. DictRight(s, n + 1, d, both)'
      BY <1>2, <1>3, <1>4, <1>8, <3>1, <3>2, <3>3 DEF DictRight
    <3>5. QED
      BY <1>8, <3>4 DEF DictInv
  <2>4. QED
    BY <2>2, <2>3
<1>12. QED
  BY <1>10, <1>11

\* The end of the text.
LEMMA EndTextRight ==
  ASSUME IInv, DictInv, EndText
  PROVE  DictInv'
<1>1. PICK s \in Setups, n \in Nat, both \in BOOLEAN : \E d : DictRight(s, n, d, both)
  BY DEF DictInv
<1>2. PICK d : DictRight(s, n, d, both)
  BY <1>1
<1>3. stage = "text" /\ line > Len(Lines) /\ UNCHANGED <<files, opt, line, altDone, cut, written>>
  BY DEF EndText, ReadAll
<1>4. files = s.files /\ opt = s.opt /\ line = n + 1 /\ written = NoDict
  BY <1>2, <1>3 DEF IInv, Stages, DictRight
<1>5. PICK f : f = s.files.text
  OBVIOUS
<1>6. OptOK /\ IsFile(f) /\ IsLines(f) /\ Lines = f
  BY <1>3, <1>4, <1>5, SetupOK DEF Lines
<1>7. n = Len(f) /\ Cached(f, n)
  BY <1>2, <1>3, <1>4, <1>5, <1>6 DEF DictRight, IsLines
<1>8. ~ altDone
  BY <1>3 DEF IInv, Stages
<1>9. PICK D : D = dict'
  OBVIOUS
<1>10. CASE heads = 0
  <2>1. stage' = "failed"
    BY <1>10 DEF EndText
  <2>2. DictRight(s, n, D, FALSE)'
    BY <1>2, <1>3, <1>8, <1>9, <2>1 DEF DictRight
  <2>3. QED
    BY <2>2 DEF DictInv
<1>11. CASE heads # 0
  <2>1. stage' = "ready" /\ size' = heads
    BY <1>11 DEF EndText
  <2>2. PICK F \in Filled : dict' = [h \in DOMAIN F |-> Rhs(F[h])]
    BY <1>11 DEF EndText
  <2>3. /\ DOMAIN F = DOMAIN cache /\ DOMAIN F = Headwords(f)
        /\ \A h \in DOMAIN F : RhsSays(Rhs(F[h]), Meant(f, h))
    BY <1>6, <1>7, FilledHas
  <2>4. DOMAIN D = DOMAIN F /\ \A h \in DOMAIN D : D[h] = Rhs(F[h])
    BY <1>9, <2>2
  <2>5. DictHas(D, f, NoDict, s.files.alt, FALSE)
    BY <2>3, <2>4 DEF DictHas
  <2>6. DictHas(D, f, NoDict, s.files.alt, FALSE)'
    BY <1>3, <2>5, DictHasKept
  <2>7. IsFiniteSet(DOMAIN D) /\ size' = Cardinality(DOMAIN D)
    BY <2>1, <2>3, <2>4 DEF IInv, Counted
  <2>8. DictRight(s, n, D, FALSE)'
    BY <1>2, <1>3, <1>4, <1>5, <1>8, <1>9, <2>1, <2>6, <2>7 DEF DictRight, NoDict
  <2>9. QED
    BY <2>8 DEF DictInv
<1>12. QED
  BY <1>10, <1>11

\* The end of the alternate file.
LEMMA EndAltRight ==
  ASSUME IInv, DictInv, EndAlt
  PROVE  DictInv'
<1>1. PICK s \in Setups, n \in Nat, both \in BOOLEAN : \E d : DictRight(s, n, d, both)
  BY DEF DictInv
<1>2. PICK d : DictRight(s, n, d, both)
  BY <1>1
<1>3. /\ stage = "alt" /\ line > Len(Lines) /\ UNCHANGED <<files, opt, line, altDone, cut, written>>
      /\ stage' = "ready" /\ size' = size + Cardinality(DOMAIN cache \ DOMAIN dict)
  BY DEF EndAlt, ReadAll
<1>4. files = s.files /\ (opt = s.opt \/ opt \in Loaders) /\ line = n + 1 /\ dict = d /\ both = FALSE
  BY <1>2, <1>3 DEF DictRight
<1>5. PICK f : f = s.files.alt
  OBVIOUS
<1>6. PICK t, w : t = s.files.text /\ w = written
  OBVIOUS
<1>7. OptOK /\ IsFile(f) /\ IsLines(f) /\ Lines = f
  BY <1>3, <1>4, <1>5, SetupOK DEF Lines
<1>8. n = Len(f) /\ Cached(f, n)
  BY <1>2, <1>3, <1>4, <1>5, <1>7 DEF DictRight, IsLines
<1>9. altDone
  BY <1>3 DEF IInv, Stages
<1>10. PICK D : D = dict'
  OBVIOUS
<1>11. PICK F \in Filled :
         dict' = [h \in DOMAIN dict \cup DOMAIN F |-> IF h \in DOMAIN F THEN Rhs(F[h]) ELSE dict[h]]
  BY DEF EndAlt
<1>12. /\ DOMAIN F = DOMAIN cache /\ DOMAIN F = Headwords(f)
       /\ \A h \in DOMAIN F : RhsSays(Rhs(F[h]), Meant(f, h))
  BY <1>7, <1>8, FilledHas
<1>13. /\ DOMAIN D = DOMAIN d \cup DOMAIN F
       /\ \A h \in DOMAIN D : D[h] = IF h \in DOMAIN F THEN Rhs(F[h]) ELSE d[h]
  BY <1>4, <1>10, <1>11
<1>14. CASE cut
  <2>1. DictRight(s, n, D, TRUE)'
    BY <1>2, <1>3, <1>9, <1>10, <1>14 DEF DictRight
  <2>2. QED
    BY <2>1 DEF DictInv
<1>15. CASE ~ cut
  <2>1. DictHas(d, t, w, f, FALSE) /\ IsFiniteSet(DOMAIN d) /\ size = Cardinality(DOMAIN d)
    BY <1>2, <1>3, <1>4, <1>5, <1>6, <1>15 DEF DictRight
  <2>2. /\ DOMAIN d = IF w = NoDict THEN Headwords(t) ELSE DOMAIN w
        /\ \A h \in DOMAIN d : IF w = NoDict THEN RhsSays(d[h], Meant(t, h)) ELSE d[h] = w[h]
    BY <2>1 DEF DictHas
  <2>3. DOMAIN D = (IF w = NoDict THEN Headwords(t) ELSE DOMAIN w) \cup Headwords(f)
    BY <1>12, <1>13, <2>2
  <2>4. ASSUME NEW h \in DOMAIN D
        PROVE  IF h \in Headwords(f) THEN RhsSays(D[h], Meant(f, h))
               ELSE IF w = NoDict THEN RhsSays(D[h], Meant(t, h))
               ELSE D[h] = w[h]
    <3>1. CASE h \in Headwords(f)
      BY <1>12, <1>13, <3>1
    <3>2. CASE h \notin Headwords(f)
      <4>1. h \in DOMAIN d /\ D[h] = d[h]
        BY <1>12, <1>13, <3>2
      <4>2. QED
        BY <2>2, <3>2, <4>1
    <3>3. QED
      BY <3>1, <3>2
  <2>5. DictHas(D, t, w, f, TRUE)
    BY <2>3, <2>4 DEF DictHas
  <2>6. DictHas(D, t, w, f, TRUE)'
    BY <1>3, <2>5, DictHasKept
  <2>7. IsFiniteSet(DOMAIN D) /\ size' = Cardinality(DOMAIN D)
    <3> DEFINE more == DOMAIN F \ DOMAIN d
    <3>1. IsFiniteSet(more)
      BY <1>12, FS_Difference DEF IInv, Counted
    <3>2. DOMAIN D = DOMAIN d \cup more /\ DOMAIN d \cap more = {}
      BY <1>13
    <3>3. Cardinality({}) = 0
      BY FS_EmptySet
    <3> HIDE DEF more
    <3>4. /\ IsFiniteSet(DOMAIN d \cup more)
          /\ Cardinality(DOMAIN d \cup more) = Cardinality(DOMAIN d) + Cardinality(more) - Cardinality(DOMAIN d \cap more)
      BY <2>1, <3>1, FS_Union
    <3>5. Cardinality(DOMAIN d) \in Nat /\ Cardinality(more) \in Nat
      BY <2>1, <3>1, FS_CardinalityType
    <3>6. Cardinality(DOMAIN D) = Cardinality(DOMAIN d) + Cardinality(more)
      <4>1. PICK a, b \in Nat : a = Cardinality(DOMAIN d) /\ b = Cardinality(more)
        BY <3>5
      <4>2. Cardinality(DOMAIN D) = a + b - 0
        BY <3>2, <3>3, <3>4, <4>1
      <4>3. a + b - 0 = a + b
        OBVIOUS
      <4>4. QED
        BY <4>1, <4>2, <4>3
    <3>7. QED
      BY <1>3, <1>4, <1>12, <2>1, <3>2, <3>4, <3>6 DEF more
  <2>8. DictRight(s, n, D, TRUE)'
    BY <1>2, <1>3, <1>5, <1>6, <1>9, <1>10, <2>6, <2>7 DEF DictRight
  <2>9. QED
    BY <2>8 DEF DictInv
<1>16. QED
  BY <1>14, <1>15

\* Steps that leave the dictionary and the files alone, and do not end or begin reading.
LEMMA QuietRight ==
  ASSUME DictInv, UNCHANGED <<files, opt, line, dict, size, altDone, cut, written>>,
         stage \notin {"text", "alt", "failed"}, stage' \notin {"text", "alt"}
  PROVE  DictInv'
<1>1. PICK s \in Setups, n \in Nat, both \in BOOLEAN : \E d : DictRight(s, n, d, both)
  BY DEF DictInv
<1>2. PICK d : DictRight(s, n, d, both)
  BY <1>1
<1>3. \A w : DictHas(d, s.files.text, w, s.files.alt, both) => DictHas(d, s.files.text, w, s.files.alt, both)'
  BY DictHasKept
<1>4. DictRight(s, n, d, both)'
  BY <1>2, <1>3 DEF DictRight
<1>5. QED
  BY <1>4 DEF DictInv

\* The image is written while there are headwords.
LEMMA WriteRight ==
  ASSUME IInv, DictInv, WriteDict
  PROVE  DictInv'
<1>1. PICK s \in Setups, n \in Nat, both \in BOOLEAN : \E d : DictRight(s, n, d, both)
  BY DEF DictInv
<1>2. PICK d : DictRight(s, n, d, both)
  BY <1>1
<1>3. /\ stage = "ready" /\ written' = dict /\ stage' = "disk"
      /\ UNCHANGED <<files, opt, line, dict, size, altDone>>
  BY DEF WriteDict
<1>4. ~ altDone /\ written = NoDict
  BY DEF IInv, Stages, WriteDict
<1>5. Sized
  BY <1>3, <1>4 DEF IInv, Stages
<1>6. written' # NoDict
  BY <1>3, <1>5, EmptyCounts DEF Sized
<1>7. DictHas(d, s.files.text, d, s.files.alt, FALSE)'
  BY <1>2, <1>3, <1>6 DEF DictHas, DictRight, NoDict
<1>8. DictRight(s, n, d, FALSE)'
  BY <1>2, <1>3, <1>4, <1>5, <1>6, <1>7 DEF DictRight, Sized
<1>9. QED
  BY <1>8 DEF DictInv

\* An image that is whole is the dictionary that was written.
LEMMA LoadRight ==
  ASSUME IInv, DictInv, LoadDict
  PROVE  DictInv'
<1>1. PICK s \in Setups, n \in Nat, both \in BOOLEAN : \E d : DictRight(s, n, d, both)
  BY DEF DictInv
<1>2. PICK d : DictRight(s, n, d, both)
  BY <1>1
<1>3. /\ stage = "disk" /\ stage' = "ready" /\ opt' \in Loaders
      /\ UNCHANGED <<files, line, altDone, cut, written>>
  BY DEF LoadDict
<1>4. Sized /\ dict = written /\ ~ altDone
  BY <1>3 DEF IInv, Stages
<1>5. written # NoDict
  BY <1>4, EmptyCounts DEF Sized
<1>6. PICK D : D = dict'
  OBVIOUS
<1>7. CASE cut
  <2>1. DictRight(s, n, D, FALSE)'
    BY <1>2, <1>3, <1>4, <1>5, <1>6, <1>7 DEF DictRight
  <2>2. QED
    BY <2>1 DEF DictInv
<1>8. CASE ~ cut
  <2>1. PICK whole \in SUBSET DOMAIN dict : Cardinality(whole) = size /\ dict' = [h \in whole |-> dict[h]] /\ size' = size
    BY <1>8 DEF LoadDict
  <2>2. dict' = written
    BY <1>4, <2>1, WholeImage
  <2>3. DictHas(D, s.files.text, D, s.files.alt, FALSE)'
    BY <1>4, <1>5, <1>6, <2>2 DEF DictHas, NoDict
  <2>4. IsFiniteSet(DOMAIN D) /\ size' = Cardinality(DOMAIN D) /\ written' = D
    BY <1>3, <1>4, <1>6, <2>1, <2>2 DEF Sized
  <2>5. DictRight(s, n, D, FALSE)'
    BY <1>2, <1>3, <1>4, <1>5, <1>6, <1>8, <2>3, <2>4 DEF DictRight
  <2>6. QED
    BY <2>5 DEF DictInv
<1>9. QED
  BY <1>7, <1>8

\* Walks begin when the dictionary is ready.
LEMMA WalkStages ==
  ASSUME WalkStep
  PROVE  stage \in {"ready", "pick", "toss", "move"} /\ UNCHANGED dictVars
         /\ stage' \notin {"text", "alt", "ready", "disk"}
<1>1. stage \in {"ready", "pick", "toss", "move"}
  BY DEF WalkStep, StartWalks, NextContext, SampleAborts, Finish, Emit, Move, EndContext
<1>2. QED
  BY <1>1, WalkLeavesDict

\* Every step keeps the invariant.
LEMMA DictStep == IInv /\ DictInv /\ [Next]_vars => DictInv'
<1> SUFFICES ASSUME IInv, DictInv, [Next]_vars PROVE DictInv'
  OBVIOUS
<1>1. CASE ReadLine \/ BadLine
  BY <1>1, ReadLineRight
<1>2. CASE EndText
  BY <1>2, EndTextRight
<1>3. CASE StartAlt
  <2>1. PICK s \in Setups, n \in Nat, both \in BOOLEAN : \E d : DictRight(s, n, d, both)
    BY DEF DictInv
  <2>2. PICK d : DictRight(s, n, d, both)
    BY <2>1
  <2>3. /\ stage = "ready" /\ ~ altDone /\ stage' = "alt" /\ altDone' = TRUE /\ line' = 1 /\ cache' = NoDict
        /\ UNCHANGED <<files, opt, dict, size, cut, written>>
    BY <1>3 DEF StartAlt
  <2>4. \A w : DictHas(d, s.files.text, w, s.files.alt, both) => DictHas(d, s.files.text, w, s.files.alt, both)'
    BY <2>3, DictHasKept
  <2>5. IsLines(s.files.alt)
    BY <2>2, SetupOK DEF DictRight
  <2>6. Cached(s.files.alt, 0)'
    <3>1. \A f, h : Says(f, h, 0)' = Says(f, h, 0)
      BY <2>3, SaysKept
    <3>2. PICK f : f = s.files.alt
      OBVIOUS
    <3>3. \A h : Says(f, h, 0)' = {}
      BY <3>1, ToldNothing
    <3>4. DOMAIN cache' = {}
      BY <2>3 DEF NoDict
    <3>5. Cached(f, 0)'
      BY <3>3, <3>4 DEF Cached
    <3>6. QED
      BY <3>2, <3>5
  <2>7. DictRight(s, 0, d, both)'
    BY <2>2, <2>3, <2>4, <2>5, <2>6 DEF DictRight, IsLines
  <2>8. QED
    BY <2>7 DEF DictInv
<1>4. CASE EndAlt
  BY <1>4, EndAltRight
<1>5. CASE WriteDict
  BY <1>5, WriteRight
<1>6. CASE LoadDict
  BY <1>6, LoadRight
<1>7. CASE LoadDictThrows
  BY <1>7, QuietRight DEF LoadDictThrows, dictVars
<1>8. CASE WalkStep
  BY <1>8, WalkStages, QuietRight DEF dictVars
<1>9. CASE UNCHANGED vars
  <2>1. UNCHANGED <<files, opt, line, dict, size, altDone, cut, written, stage, cache>>
    BY <1>9 DEF vars, dictVars
  <2>2. PICK s \in Setups, n \in Nat, both \in BOOLEAN : \E d : DictRight(s, n, d, both)
    BY DEF DictInv
  <2>3. PICK d : DictRight(s, n, d, both)
    BY <2>2
  <2>4. \A w : DictHas(d, s.files.text, w, s.files.alt, both) => DictHas(d, s.files.text, w, s.files.alt, both)'
    BY <2>1, DictHasKept
  <2>5. \A f, k : Cached(f, k) => Cached(f, k)'
    <3>1. \A f, h, k : Says(f, h, k)' = Says(f, h, k)
      BY <2>1, SaysKept
    <3>2. QED
      BY <2>1, <3>1 DEF Cached, Holds, Distinct
  <2>6. DictRight(s, n, d, both)'
    BY <2>1, <2>3, <2>4, <2>5 DEF DictRight
  <2>7. QED
    BY <2>6 DEF DictInv
<1>10. QED
  BY <1>1, <1>2, <1>3, <1>4, <1>5, <1>6, <1>7, <1>8, <1>9 DEF Next, DictNext

\* What the files say so far is in the cache or in the dictionary, from the first line to the last walk.
THEOREM DictInvariance == Spec => []DictInv
<1>1. Init => DictInv
  <2> SUFFICES ASSUME Init PROVE DictInv
    OBVIOUS
  <2>1. PICK s \in Setups : files = s.files /\ opt = s.opt
    BY DEF Init, DictInit
  <2>2. PICK d : d = dict
    OBVIOUS
  <2>3. stage = "text" /\ line = 0 + 1 /\ cache = NoDict /\ ~ altDone /\ ~ cut
    BY DEF Init, DictInit
  <2>4. IsLines(s.files.text)
    BY <2>1, SetupOK
  <2>5. Cached(s.files.text, 0)
    BY <2>3, CachedNothing
  <2>6. DictRight(s, 0, d, FALSE)
    BY <2>1, <2>2, <2>3, <2>4, <2>5 DEF DictRight, IsLines
  <2>7. QED
    BY <2>6 DEF DictInv
<1>2. QED
  BY <1>1, DictStep, Invariance, PTL DEF Spec

\* The invariant has what the property says.
LEMMA InvIsFiles == DictInv => DictIsFiles
<1> SUFFICES ASSUME DictInv, stage = "ready", ~ cut
             PROVE  LET alts  == IF altDone THEN Headwords(files.alt) ELSE {}
                        known == IF written = NoDict THEN Headwords(files.text) ELSE DOMAIN written
                    IN /\ DOMAIN dict = known \cup alts
                       /\ size = Cardinality(DOMAIN dict)
                       /\ \A h \in DOMAIN dict :
                            IF h \in alts THEN Answers(h, Meant(files.alt, h))
                            ELSE IF written = NoDict THEN Answers(h, Meant(files.text, h))
                            ELSE dict[h] = written[h]
  BY DEF DictIsFiles
<1>1. PICK s \in Setups, n \in Nat, both \in BOOLEAN : \E d : DictRight(s, n, d, both)
  BY DEF DictInv
<1>2. PICK d : DictRight(s, n, d, both)
  BY <1>1
<1>3. /\ DictHas(d, files.text, written, files.alt, both) /\ size = Cardinality(DOMAIN dict)
      /\ OptOK /\ d = dict
  BY <1>2, SetupOK DEF DictRight
<1>4. both <=> altDone
  BY <1>2 DEF DictRight
<1>5. PICK alts : alts = IF altDone THEN Headwords(files.alt) ELSE {}
  OBVIOUS
<1>6. alts = IF both THEN Headwords(files.alt) ELSE {}
  BY <1>4, <1>5
<1>7. /\ DOMAIN dict = (IF written = NoDict THEN Headwords(files.text) ELSE DOMAIN written) \cup alts
      /\ \A h \in DOMAIN dict :
           IF h \in alts THEN RhsSays(dict[h], Meant(files.alt, h))
           ELSE IF written = NoDict THEN RhsSays(dict[h], Meant(files.text, h))
           ELSE dict[h] = written[h]
  BY <1>3, <1>6 DEF DictHas
<1>8. ASSUME NEW h \in DOMAIN dict, NEW M, RhsSays(dict[h], M)
      PROVE  Answers(h, M)
  <2>1. ASSUME NEW pos
        PROVE  /\ ToSet(Entries(h, pos)) = {x \in M : pos = "#" \/ PosOf(x.c) = pos}
               /\ IsInjective(Entries(h, pos))
    BY <1>3, <1>8, EntriesAre
  <2>2. QED
    BY <2>1 DEF Answers
<1>9. ASSUME NEW h \in DOMAIN dict
      PROVE  IF h \in alts THEN Answers(h, Meant(files.alt, h))
             ELSE IF written = NoDict THEN Answers(h, Meant(files.text, h))
             ELSE dict[h] = written[h]
  BY <1>7, <1>8
<1>10. QED
  BY <1>3, <1>5, <1>7, <1>9

\* The dictionary is what its files say (wdict.cc).
THEOREM DictFromFiles == Spec => []DictIsFiles
BY InvIsFiles, DictInvariance, PTL

-----------------------------------------------------------------------------
(* Walks over the dictionary and the graph.                                 *)

\* A function that folds as long as the values are from T.
FoldsIn(d, b, H, n, T) ==
  /\ d[{}] = b
  /\ \A S \in SUBSET (1 .. n) :
       S # {} /\ d[S \ {Max(S)}] \in T => d[S] = H[Max(S)][d[S \ {Max(S)}]]

\* It does what f did in the end.
Agrees(d, f, n) == d[1 .. n] = f[n]

\* A fold from the greatest place down is the functions one after the other.
LEMMA FoldIsApplied ==
  ASSUME NEW T, NEW b \in T, NEW n \in Nat, NEW H \in [1 .. n -> [T -> T]], NEW d, FoldsIn(d, b, H, n, T),
         NEW f \in [0 .. n -> T], Applies(f, b, H, n)
  PROVE  Agrees(d, f, n)
<1> DEFINE P == {k \in Nat : d[1 .. k] = f[k]}
<1>1. 0 \in P
  <2>1. 1 .. 0 = {}
    OBVIOUS
  <2>2. QED
    BY <2>1 DEF Applies, FoldsIn
<1>2. ASSUME NEW k \in 0 .. n - 1, k \in P PROVE k + 1 \in P
  <2>1. k + 1 \in 1 .. n /\ (k + 1) - 1 = k /\ k + 1 \in Nat /\ k \in 0 .. n
    OBVIOUS
  <2>2. /\ Max(1 .. k + 1) = k + 1 /\ (1 .. k + 1) \ {k + 1} = 1 .. k
        /\ 1 .. k + 1 # {} /\ 1 .. k + 1 \in SUBSET (1 .. n)
    BY <2>1, MaxOfAll
  <2>3. d[1 .. k] = f[k] /\ f[k] \in T
    BY <1>2, <2>1
  <2>4. d[1 .. k + 1] = H[k + 1][d[1 .. k]]
    BY <2>2, <2>3 DEF FoldsIn
  <2>5. f[k + 1] = H[k + 1][f[k]]
    BY <2>1 DEF Applies
  <2>6. QED
    BY <2>1, <2>3, <2>4, <2>5
<1>3. n \in P
  <2>1. n \in 0 .. n
    OBVIOUS
  <2> HIDE DEF P
  <2> QED BY <1>1, <1>2, <2>1, CountingUp
<1>4. QED
  BY <1>3 DEF Agrees

-----------------------------------------------------------------------------
(* Sums of sequences.                                                      *)

\* The sum of a sequence.
Added(q) == FoldLeft(LAMBDA a, x : a + x, 0, q)

\* Sums after each element.
SumsAlong(f, q) == f[0] = 0 /\ \A k \in 1 .. Len(q) : f[k] = f[k - 1] + q[k]

\* It is the last of the sums after each element.
LEMMA AddedIs ==
  ASSUME NEW q \in Seq(Nat)
  PROVE  \E f \in [0 .. Len(q) -> Nat] : SumsAlong(f, q) /\ Added(q) = f[Len(q)]
<1> DEFINE n == Len(q)
           H == [k \in 1 .. n |-> [x \in Nat |-> x + q[k]]]
           E(fs) == fs = [S \in SUBSET (DOMAIN q) |-> IF S = {} THEN 0 ELSE fs[S \ {Max(S)}] + q[Max(S)]]
<1>1. n \in Nat /\ DOMAIN q = 1 .. n /\ \A k \in 1 .. n : q[k] \in Nat
  BY ElementsAreMembers
<1>2. H \in [1 .. n -> [Nat -> Nat]] /\ \A k \in 1 .. n : \A x \in Nat : H[k][x] = x + q[k]
  BY <1>1
<1> HIDE DEF n, H
<1>3. PICK fs \in [SUBSET (1 .. n) -> Nat] : Folds(fs, 0, H, n)
  BY <1>1, <1>2, FoldsExist
<1>4. E(fs)
  <2>1. ASSUME NEW S \in SUBSET (1 .. n), S # {} PROVE fs[S] = fs[S \ {Max(S)}] + q[Max(S)]
    <3>1. Max(S) \in 1 .. n /\ S \ {Max(S)} \in SUBSET (1 .. n)
      BY <1>1, <2>1, MaxOfSome
    <3>2. fs[S] = H[Max(S)][fs[S \ {Max(S)}]]
      BY <1>3, <2>1 DEF Folds
    <3>3. fs[S \ {Max(S)}] \in Nat
      BY <1>3, <3>1
    <3>4. QED
      BY <1>2, <3>1, <3>2, <3>3
  <2>2. fs[{}] = 0
    BY <1>3 DEF Folds
  <2>3. fs = [S \in SUBSET (1 .. n) |-> fs[S]]
    BY <1>3
  <2>4. fs = [S \in SUBSET (1 .. n) |-> IF S = {} THEN 0 ELSE fs[S \ {Max(S)}] + q[Max(S)]]
    BY <2>1, <2>2, <2>3
  <2>5. QED
    BY <1>1, <2>4
<1>5. Added(q) = (CHOOSE f : E(f))[DOMAIN q]
  BY DEF Added, FoldLeft, MapThenFoldSet
<1>6. E(CHOOSE f : E(f))
  <2> HIDE DEF E
  <2> QED BY <1>4
<1>7. PICK d : E(d) /\ Added(q) = d[DOMAIN q]
  <2> HIDE DEF E
  <2> QED BY <1>5, <1>6
<1>8. \A S \in SUBSET (1 .. n) : d[S] = IF S = {} THEN 0 ELSE d[S \ {Max(S)}] + q[Max(S)]
  BY <1>1, <1>7
<1>9. d[{}] = 0
  BY <1>8
<1>10. ASSUME NEW S \in SUBSET (1 .. n), S # {}, d[S \ {Max(S)}] \in Nat
       PROVE  d[S] = H[Max(S)][d[S \ {Max(S)}]]
  BY <1>1, <1>2, <1>8, <1>10, MaxOfSome
<1>11. PICK f \in [0 .. n -> Nat] : Applies(f, 0, H, n)
  BY <1>1, <1>2, AppliesExist
<1>12. d[1 .. n] = f[n]
  <2>1. FoldsIn(d, 0, H, n, Nat)
    BY <1>9, <1>10 DEF FoldsIn
  <2>2. n \in Nat /\ 0 \in Nat
    BY <1>1
  <2> HIDE DEF E
  <2>3. H \in [1 .. n -> [Nat -> Nat]]
    BY <1>2
  <2>4. Agrees(d, f, n)
    BY <1>11, <2>1, <2>2, <2>3, FoldIsApplied
  <2>5. QED
    BY <2>4 DEF Agrees
<1>13. SumsAlong(f, q)
  <2>1. \A k \in 1 .. n : k - 1 \in 0 .. n
    BY <1>1
  <2>2. \A k \in 1 .. n : f[k] = f[k - 1] + q[k]
    BY <1>2, <1>11, <2>1 DEF Applies
  <2>3. QED
    BY <1>11, <2>2 DEF SumsAlong, Applies, n
<1>14. QED
  BY <1>1, <1>7, <1>11, <1>12, <1>13 DEF n

\* SumTo adds one element after the other.
LEMMA SumToIs ==
  ASSUME NEW w \in Seq(Nat)
  PROVE  /\ \A k \in 0 .. Len(w) : SumTo(w, k) \in Nat
         /\ SumTo(w, 0) = 0
         /\ \A k \in 1 .. Len(w) : SumTo(w, k) = SumTo(w, k - 1) + w[k]
<1>1. Len(w) \in Nat /\ \A k \in 1 .. Len(w) : w[k] \in Nat
  BY ElementsAreMembers
<1>2. PICK f \in [0 .. Len(w) -> Nat] : SumsAlong(f, w)
  BY AddedIs
<1>3. ASSUME NEW m \in 0 .. Len(w) PROVE SumTo(w, m) = f[m]
  <2>1. PICK q : q = SubSeq(w, 1, m)
    OBVIOUS
  <2>2. m \in Nat /\ \A k \in 1 .. m : k \in 1 .. Len(w)
    BY <1>1
  <2>3. q \in Seq(Nat) /\ Len(q) = m /\ \A k \in 1 .. m : q[k] = w[k]
    <3>1. 1 \in Int /\ m \in Int /\ \A k \in 1 .. m : w[k] \in Nat
      BY <1>1, <2>2
    <3>2. /\ SubSeq(w, 1, m) \in Seq(Nat)
          /\ Len(SubSeq(w, 1, m)) = IF 1 <= m THEN m - 1 + 1 ELSE 0
          /\ \A k \in 1 .. m - 1 + 1 : SubSeq(w, 1, m)[k] = w[1 + k - 1]
      BY <3>1, SubSeqProperties
    <3>3. m - 1 + 1 = m /\ (1 <= m \/ m = 0) /\ \A k \in 1 .. m : 1 + k - 1 = k
      BY <2>2
    <3>4. QED
      BY <2>1, <3>2, <3>3
  <2>4. PICK h \in [0 .. m -> Nat] : SumsAlong(h, q) /\ Added(q) = h[m]
    BY <2>3, AddedIs
  <2> DEFINE P == {k \in Nat : h[k] = f[k]}
  <2>5. 0 \in P
    BY <1>2, <2>4 DEF SumsAlong
  <2>6. ASSUME NEW k \in 0 .. m - 1, k \in P PROVE k + 1 \in P
    <3>1. k + 1 \in 1 .. m /\ k + 1 \in 1 .. Len(w) /\ (k + 1) - 1 = k /\ k + 1 \in Nat
      BY <1>1, <2>2
    <3>2. h[k + 1] = h[k] + w[k + 1] /\ f[k + 1] = f[k] + w[k + 1]
      BY <1>2, <2>3, <2>4, <3>1 DEF SumsAlong
    <3>3. QED
      BY <2>6, <3>1, <3>2
  <2>7. m \in P
    <3>1. m \in 0 .. m
      BY <2>2
    <3> HIDE DEF P
    <3> QED BY <2>2, <2>5, <2>6, <3>1, CountingUp
  <2>8. SumTo(w, m) = Added(q)
    BY <2>1 DEF SumTo, Added
  <2>9. QED
    BY <2>4, <2>7, <2>8
<1>4. \A k \in 1 .. Len(w) : k - 1 \in 0 .. Len(w) /\ k \in 0 .. Len(w)
  BY <1>1
<1>5. 0 \in 0 .. Len(w)
  BY <1>1
<1>6. QED
  BY <1>2, <1>3, <1>4, <1>5 DEF SumsAlong

\* Sums of more elements are not less.
LEMMA SumToGrows ==
  ASSUME NEW w \in Seq(Nat), NEW j \in 0 .. Len(w), NEW k \in 0 .. Len(w), j <= k
  PROVE  SumTo(w, j) <= SumTo(w, k)
<1>1. PICK m \in Nat : m = Len(w)
  BY ElementsAreMembers
<1>2. \A x \in 1 .. m : w[x] \in Nat
  BY <1>1, ElementsAreMembers
<1> DEFINE P == {x \in Nat : SumTo(w, j) <= SumTo(w, j + x)}
<1>3. 0 \in P
  <2>1. SumTo(w, j) \in Nat /\ j + 0 = j
    BY SumToIs
  <2>2. QED
    BY <2>1
<1>4. ASSUME NEW x \in 0 .. (k - j) - 1, x \in P PROVE x + 1 \in P
  <2>1. j + (x + 1) \in 1 .. m /\ (j + (x + 1)) - 1 = j + x /\ j + x \in 0 .. m /\ x + 1 \in Nat
    BY <1>1
  <2>2. SumTo(w, j + (x + 1)) = SumTo(w, j + x) + w[j + (x + 1)]
    BY <1>1, <2>1, SumToIs
  <2>3. SumTo(w, j) \in Nat /\ SumTo(w, j + x) \in Nat /\ w[j + (x + 1)] \in Nat
    BY <1>1, <1>2, <2>1, SumToIs
  <2>4. SumTo(w, j) <= SumTo(w, j + x)
    BY <1>4
  <2>5. QED
    BY <2>1, <2>2, <2>3, <2>4
<1>5. k - j \in P
  <2>1. k - j \in Nat /\ k - j \in 0 .. k - j
    BY <1>1
  <2> HIDE DEF P
  <2> QED BY <1>3, <1>4, <2>1, CountingUp
<1>6. j + (k - j) = k
  BY <1>1
<1>7. QED
  BY <1>5, <1>6

\* The smaller of two numbers.
LEMMA LessOf ==
  ASSUME NEW x \in Nat, NEW y \in Nat, x <= y
  PROVE  Min({x, y}) = x
<1>1. x \in {x, y} /\ \A z \in {x, y} : x <= z
  OBVIOUS
<1>2. Min({x, y}) \in {x, y} /\ \A z \in {x, y} : Min({x, y}) <= z
  BY <1>1, Zenon DEF Min
<1>3. QED
  BY <1>2

\* With the sum of all for a total, every outcome owns its weight.
LEMMA ShareIsWeight ==
  ASSUME NEW w \in Seq(Nat), NEW total, total = SumTo(w, Len(w)), NEW k \in DOMAIN w
  PROVE  Share(w, total, k) = w[k] /\ Share(w, total, k) * SumTo(w, Len(w)) = w[k] * total
<1>1. PICK m \in Nat : m = Len(w) /\ DOMAIN w = 1 .. m
  BY ElementsAreMembers
<1>2. k \in 1 .. m /\ k \in 0 .. m /\ k - 1 \in 0 .. m /\ m \in 0 .. m /\ k <= m /\ k - 1 <= m
  BY <1>1
<1>3. /\ SumTo(w, k) = SumTo(w, k - 1) + w[k]
      /\ SumTo(w, k) \in Nat /\ SumTo(w, k - 1) \in Nat /\ SumTo(w, m) \in Nat
  BY <1>1, <1>2, SumToIs
<1>4. SumTo(w, k) <= SumTo(w, m) /\ SumTo(w, k - 1) <= SumTo(w, m)
  BY <1>1, <1>2, SumToGrows
<1>5. Min({SumTo(w, k), total}) = SumTo(w, k) /\ Min({SumTo(w, k - 1), total}) = SumTo(w, k - 1)
  BY <1>1, <1>3, <1>4, LessOf
<1>6. w[k] \in Nat
  BY <1>1, <1>2, ElementsAreMembers
<1>7. Share(w, total, k) = (IF k = m THEN total ELSE SumTo(w, k)) - SumTo(w, k - 1)
  BY <1>1, <1>5 DEF Share
<1>8. Share(w, total, k) = SumTo(w, k) - SumTo(w, k - 1)
  BY <1>1, <1>7
<1>9. \A x, y, z \in Nat : x = y + z => x - y = z
  OBVIOUS
<1>10. Share(w, total, k) = w[k]
  BY <1>3, <1>6, <1>8, <1>9
<1>11. QED
  BY <1>10

\* The image of a finite set under a function is finite.
LEMMA ImageFinite ==
  ASSUME NEW S, IsFiniteSet(S), NEW f, NEW T, T \subseteq {f[x] : x \in S}
  PROVE  IsFiniteSet(T)
<1> DEFINE h == [x \in S |-> f[x]]
           U == {h[x] : x \in S}
<1>1. h \in Surjection(S, U)
  BY DEF Surjection
<1>2. U = {f[x] : x \in S}
  OBVIOUS
<1> HIDE DEF h, U
<1>3. IsFiniteSet(U)
  BY <1>1, FS_Surjection
<1>4. QED
  BY <1>2, <1>3, FS_Subset

-----------------------------------------------------------------------------
(* Words of a vertex.                                                      *)

\* A walk has the text alone, and all of it.
WalkDict ==
  /\ stage \notin {"text", "alt", "ready", "disk", "failed"} => opt.prog = "walk"
  /\ opt.prog = "walk" => ~ altDone /\ ~ cut /\ written = NoDict

\* Only the daemon has the other file or an image.
LEMMA WalkDictKept == WalkDict /\ [Next]_vars => WalkDict'
<1> SUFFICES ASSUME WalkDict, [Next]_vars PROVE WalkDict'
  OBVIOUS
<1>1. CASE ReadLine \/ BadLine
  BY <1>1 DEF ReadLine, BadLine, Reading, WalkDict
<1>2. CASE EndText
  BY <1>2 DEF EndText, WalkDict
<1>3. CASE StartAlt \/ EndAlt
  BY <1>3 DEF StartAlt, EndAlt, WalkDict
<1>4. CASE WriteDict
  BY <1>4 DEF WriteDict, WalkDict
<1>5. CASE LoadDict
  BY <1>5, WDictAssumption DEF LoadDict, WalkDict
<1>6. CASE LoadDictThrows
  BY <1>6 DEF LoadDictThrows, dictVars, WalkDict
<1>7. CASE StartWalks
  BY <1>7 DEF StartWalks, dictVars, WalkDict
<1>8. CASE WalkStep /\ ~ StartWalks
  <2>1. stage \in {"pick", "toss", "move"} /\ UNCHANGED dictVars
    BY <1>8, WalkLeavesDict DEF WalkStep, NextContext, SampleAborts, Finish, Emit, Move, EndContext
  <2>2. QED
    BY <2>1 DEF dictVars, WalkDict
<1>9. CASE UNCHANGED vars
  BY <1>9 DEF vars, dictVars, WalkDict
<1>10. QED
  BY <1>1, <1>2, <1>3, <1>4, <1>5, <1>6, <1>7, <1>8, <1>9 DEF Next, DictNext

\* The first lines of a file have entries from where its lines have them from.
LEMMA ToldFrom ==
  ASSUME NEW f, IsLines(f), NEW h, NEW n \in 0 .. Len(f), NEW V, \A p \in 1 .. Len(f) : f[p].cs \in Seq(V)
  PROVE  Told(f, h, n) \in Seq(V)
<1> DEFINE P == {m \in Nat : Told(f, h, m) \in Seq(V)}
<1>1. 0 \in P
  BY ToldNothing, EmptySeq
<1>2. ASSUME NEW m \in 0 .. n - 1, m \in P PROVE m + 1 \in P
  <2>1. m \in 0 .. Len(f) - 1 /\ m + 1 \in 1 .. Len(f) /\ m + 1 \in Nat
    BY DEF IsLines
  <2>2. Told(f, h, m + 1) = Told(f, h, m) \o About(f, h, m + 1)
    BY <2>1, ToldMore
  <2>3. <<>> \in Seq(V)
    BY EmptySeq
  <2>4. About(f, h, m + 1) \in Seq(V)
    BY <2>1, <2>3 DEF About
  <2>5. PICK a \in Seq(V), b \in Seq(V) : a = Told(f, h, m) /\ b = About(f, h, m + 1)
    BY <1>2, <2>4
  <2>6. a \o b \in Seq(V)
    BY Concatenated
  <2>7. QED
    BY <2>1, <2>2, <2>5, <2>6
<1>3. n \in P
  <2>1. n \in Nat /\ n \in 0 .. n
    BY DEF IsLines
  <2> HIDE DEF P
  <2> QED BY <1>1, <1>2, <2>1, CountingUp
<1>4. QED
  BY <1>3

\* Items with weights that are not zero.
Weighted == [c : Concepts, w : Nat \ {0}]

\* The concepts of a headword are from the knowledge base, with weights that are not zero.
LEMMA MeantWeighted ==
  ASSUME NEW s \in Setups, files = s.files, opt = s.opt, opt.prog = "walk", NEW h
  PROVE  Meant(files.text, h) \subseteq Weighted
<1>1. PICK f : f = files.text
  OBVIOUS
<1> DEFINE V == [c : DOMAIN Pos, w : Nat]
<1>2. opt.smooth \in Nat /\ \A l \in ToSet(f) : l.cs \in Seq(V)
  BY <1>1, WalkAssumption
<1>3. IsFile(f) /\ IsLines(f) /\ OptOK
  BY <1>1, SetupOK
<1>4. \A p \in 1 .. Len(f) : f[p] \in ToSet(f)
  BY <1>3, ElementsAreMembers DEF IsFile
<1>5. \A p \in 1 .. Len(f) : f[p].cs \in Seq(V)
  BY <1>2, <1>4
<1>6. PICK q : q = Told(f, h, Len(f))
  OBVIOUS
<1>7. q \in Seq(V)
  <2>1. Len(f) \in 0 .. Len(f)
    BY <1>3 DEF IsLines
  <2> HIDE DEF V
  <2>2. QED
    BY <1>3, <1>5, <1>6, <2>1, ToldFrom
<1>8. \A p \in 1 .. Len(q) : q[p] \in V
  <2> HIDE DEF V
  <2> QED BY <1>7, ElementsAreMembers
<1>9. ASSUME NEW p \in RightIn(q, Len(q)) PROVE [c |-> q[p].c, w |-> Count(q[p])] \in Weighted
  <2>1. p \in 1 .. Len(q) /\ q[p].c \in Concepts /\ Count(q[p]) # 0
    BY <1>9 DEF RightIn, Wrong
  <2>2. q[p].w \in Nat
    BY <1>8, <2>1
  <2>3. Count(q[p]) \in Nat
    BY <1>2, <2>2 DEF Count
  <2>4. QED
    BY <2>1, <2>3 DEF Weighted
<1>10. Meant(f, h) = FirstOf(q, Len(q))
  BY <1>3, <1>6, MeantIsSaid DEF Says
<1>11. QED
  BY <1>1, <1>9, <1>10 DEF FirstOf

\* The items of a walk's dictionary.
LEMMA ItemsMeant ==
  ASSUME DictInv, WalkDict, opt.prog = "walk", stage \notin {"text", "failed"}
  PROVE  /\ IsFiniteSet(DOMAIN dict) /\ DOMAIN dict = Headwords(files.text)
         /\ \A h \in DOMAIN dict :
              /\ dict[h].items \in Seq(Entry)
              /\ ToSet(dict[h].items) = Meant(files.text, h) /\ Meant(files.text, h) \subseteq Weighted
<1>1. PICK s \in Setups, n \in Nat, both \in BOOLEAN : \E d : DictRight(s, n, d, both)
  BY DEF DictInv
<1>2. PICK d : DictRight(s, n, d, both)
  BY <1>1
<1>3. ~ cut /\ both = FALSE /\ files = s.files /\ opt = s.opt /\ d = dict
  BY <1>2 DEF WalkDict, DictRight
<1>4. DictHas(dict, files.text, NoDict, files.alt, FALSE) /\ IsFiniteSet(DOMAIN dict)
  BY <1>2, <1>3 DEF DictRight, WalkDict
<1>5. /\ DOMAIN dict = Headwords(files.text)
      /\ \A h \in DOMAIN dict : RhsSays(dict[h], Meant(files.text, h))
  BY <1>4 DEF DictHas
<1>6. ASSUME NEW h \in DOMAIN dict
      PROVE  dict[h].items \in Seq(Entry) /\ ToSet(dict[h].items) = Meant(files.text, h)
  <2>1. PICK t : dict[h] = Rhs(t) /\ Holds(t, Meant(files.text, h))
    BY <1>5 DEF RhsSays
  <2>2. QED
    BY <2>1 DEF Rhs, Holds
<1>7. \A h \in DOMAIN dict : Meant(files.text, h) \subseteq Weighted
  BY <1>3, MeantWeighted
<1>8. QED
  BY <1>4, <1>5, <1>6, <1>7

\* The words of a vertex are finitely many, each linked to it by a line.
LEMMA WordsMeant ==
  ASSUME DictInv, WalkDict, opt.prog = "walk", stage \notin {"text", "failed"}, NEW c
  PROVE  /\ IsFiniteSet(WordsOf(c))
         /\ \A x \in WordsOf(c) : x.w \in Nat \ {0} /\ \E m \in Meant(files.text, x.word) : m.c = c
<1>1. /\ IsFiniteSet(DOMAIN dict)
      /\ \A h \in DOMAIN dict :
              /\ dict[h].items \in Seq(Entry)
              /\ ToSet(dict[h].items) = Meant(files.text, h) /\ Meant(files.text, h) \subseteq Weighted
  BY ItemsMeant
<1> DEFINE W(h) == {[word |-> h, w |-> x.w] : x \in {x \in ToSet(dict[h].items) : x.c = c}}
<1>2. WordsOf(c) = UNION {W(h) : h \in DOMAIN dict}
  BY DEF WordsOf
<1>3. ASSUME NEW h \in DOMAIN dict
      PROVE  IsFiniteSet(W(h)) /\ \A x \in W(h) : x.w \in Nat \ {0} /\ \E m \in Meant(files.text, x.word) : m.c = c
  <2>1. IsFiniteSet(ToSet(dict[h].items))
    BY <1>1, ElementsFinite
  <2> DEFINE f == [x \in ToSet(dict[h].items) |-> [word |-> h, w |-> x.w]]
  <2>2. W(h) \subseteq {f[x] : x \in ToSet(dict[h].items)}
    OBVIOUS
  <2>3. IsFiniteSet(W(h))
    <3> HIDE DEF f, W
    <3> QED BY <2>1, <2>2, ImageFinite
  <2>4. ASSUME NEW x \in W(h) PROVE x.w \in Nat \ {0} /\ \E m \in Meant(files.text, x.word) : m.c = c
    <3>1. PICK y \in ToSet(dict[h].items) : y.c = c /\ x = [word |-> h, w |-> y.w]
      BY <2>4
    <3>2. y \in Weighted /\ y \in Meant(files.text, h) /\ x.word = h /\ x.w = y.w
      BY <1>1, <3>1
    <3>3. y.w \in Nat \ {0}
      BY <3>2 DEF Weighted
    <3>4. QED
      BY <3>1, <3>2, <3>3
  <2>5. QED
    BY <2>3, <2>4
<1> HIDE DEF W
<1>4. IsFiniteSet(WordsOf(c))
  <2> DEFINE F == [h \in DOMAIN dict |-> W(h)]
             S == {F[h] : h \in DOMAIN dict}
  <2>1. IsFiniteSet(S)
    <3>1. S \subseteq {F[h] : h \in DOMAIN dict}
      OBVIOUS
    <3> HIDE DEF F, S
    <3> QED BY <1>1, <3>1, ImageFinite
  <2>2. S = {W(h) : h \in DOMAIN dict}
    OBVIOUS
  <2>3. \A T \in S : IsFiniteSet(T)
    BY <1>3, <2>2
  <2> HIDE DEF S
  <2>4. IsFiniteSet(UNION S)
    BY <2>1, <2>3, FS_UNION
  <2>5. QED
    BY <1>2, <2>2, <2>4
<1>5. QED
  BY <1>2, <1>3, <1>4

-----------------------------------------------------------------------------
(* Draws.                                                                  *)

\* Equal weights add up to as many times one of them.
LEMMA SumOfEqual ==
  ASSUME NEW w \in Seq(Nat), NEW a \in Nat, \A k \in 1 .. Len(w) : w[k] = a
  PROVE  SumTo(w, Len(w)) = Len(w) * a
<1>1. PICK m \in Nat : m = Len(w)
  BY ElementsAreMembers
<1> DEFINE P == {k \in Nat : SumTo(w, k) = k * a}
<1>2. 0 \in P
  <2>1. 0 * a = 0
    OBVIOUS
  <2>2. QED
    BY <2>1, SumToIs
<1>3. ASSUME NEW k \in 0 .. m - 1, k \in P PROVE k + 1 \in P
  <2>1. k + 1 \in 1 .. m /\ (k + 1) - 1 = k /\ k + 1 \in Nat
    BY <1>1
  <2>2. SumTo(w, k + 1) = SumTo(w, k) + a
    BY <1>1, <2>1, SumToIs
  <2>3. k * a + a = (k + 1) * a
    OBVIOUS
  <2>4. QED
    BY <1>3, <2>1, <2>2, <2>3
<1>4. m \in P
  <2>1. m \in 0 .. m
    BY <1>1
  <2> HIDE DEF P
  <2> QED BY <1>1, <1>2, <1>3, <2>1, CountingUp
<1>5. QED
  BY <1>1, <1>4

\* The concepts are finitely many.
LEMMA ConceptsFinite == IsFiniteSet(Concepts) /\ Names \in Seq(Concepts) /\ ToSet(Names) = Concepts
<1>1. Names \in Seq(Concepts) /\ ToSet(Names) = Concepts
  BY WDictAssumption DEF Concepts
<1>2. IsFiniteSet(ToSet(Names))
  BY <1>1, ElementsFinite
<1>3. QED
  BY <1>1, <1>2

\* The weights of the edges of a vertex.
LEMMA EdgesWeigh ==
  ASSUME NEW v \in Concepts
  PROVE  /\ EdgeWeights(v) \in Seq(Nat) /\ Len(EdgeWeights(v)) = Len(Rows[v])
         /\ DOMAIN EdgeWeights(v) = 1 .. Len(Rows[v]) /\ Len(Rows[v]) \in Nat
         /\ \A k \in 1 .. Len(Rows[v]) : Rows[v][k] \in Concepts
         /\ ~ wo.indeg => \A k \in 1 .. Len(Rows[v]) : EdgeWeights(v)[k] = 1
<1>1. Rows[v] \in Seq(Concepts)
  BY WalkAssumption
<1>2. PICK m \in Nat : /\ m = Len(Rows[v]) /\ DOMAIN Rows[v] = 1 .. m
                       /\ \A k \in 1 .. m : Rows[v][k] \in Concepts
  BY <1>1, ElementsAreMembers
<1>3. \A x : InDegree(x) \in Nat
  <2> TAKE x
  <2>1. IsFiniteSet({c \in Concepts : x \in ToSet(Rows[c])})
    BY ConceptsFinite, FS_Subset
  <2>2. QED
    BY <2>1, FS_CardinalityType DEF InDegree
<1>4. PICK w : w = EdgeWeights(v)
  OBVIOUS
<1>5. w \in [1 .. m -> Nat] /\ (~ wo.indeg => \A k \in 1 .. m : w[k] = 1)
  BY <1>2, <1>3, <1>4 DEF EdgeWeights
<1>6. w \in Seq(Nat) /\ Len(w) = m
  BY <1>5, FunctionAsSeq
<1>7. QED
  BY <1>2, <1>4, <1>5, <1>6

\* Edges are drawn by their weights.
LEMMA EdgesByWeight ==
  ASSUME NEW v \in Concepts, NEW k \in DOMAIN EdgeWeights(v)
  PROVE  Share(EdgeWeights(v), EdgeTotal(v), k) * SumTo(EdgeWeights(v), Len(EdgeWeights(v)))
           = EdgeWeights(v)[k] * EdgeTotal(v)
<1>1. PICK w : w = EdgeWeights(v)
  OBVIOUS
<1>2. PICK m \in Nat : /\ m = Len(Rows[v]) /\ w \in Seq(Nat) /\ Len(w) = m /\ DOMAIN w = 1 .. m
                       /\ ~ wo.indeg => \A x \in 1 .. m : w[x] = 1
  BY <1>1, EdgesWeigh
<1>3. EdgeTotal(v) = SumTo(w, m)
  <2>1. CASE wo.indeg
    BY <1>1, <1>2, <2>1 DEF EdgeTotal
  <2>2. CASE ~ wo.indeg
    <3>1. SumTo(w, m) = m * 1
      BY <1>2, <2>2, SumOfEqual
    <3>2. QED
      BY <1>2, <2>2, <3>1 DEF EdgeTotal
  <2>3. QED
    BY <2>1, <2>2
<1>4. k \in DOMAIN w
  BY <1>1
<1>5. Share(w, EdgeTotal(v), k) * SumTo(w, Len(w)) = w[k] * EdgeTotal(v)
  BY <1>2, <1>3, <1>4, ShareIsWeight
<1>6. QED
  BY <1>1, <1>5

\* What words are drawn from.
LEMMA DrawsAre ==
  ASSUME DictInv, WalkDict, opt.prog = "walk", stage \notin {"text", "failed"}, NEW c,
         NEW d \in WordDraws(c)
  PROVE  \E s : /\ d = <<s, IF wo.multi THEN Sum(s) ELSE WordTotal(s)>>
                /\ s \in Seq(WordsOf(c))
                /\ WordWeights(s) \in Seq(Nat) /\ Len(WordWeights(s)) = Len(s)
                /\ DOMAIN WordWeights(s) = DOMAIN s
<1>0. PICK words \in Selections(WordsOf(c)) :
        \E s \in WordSeqs(words) : d = <<s, IF wo.multi THEN Sum(s) ELSE WordTotal(s)>>
  BY DEF WordDraws
<1>1. PICK s \in WordSeqs(words) : d = <<s, IF wo.multi THEN Sum(s) ELSE WordTotal(s)>>
  BY <1>0
<1>2. words \subseteq WordsOf(c)
  BY DEF Selections
<1>3. IsFiniteSet(words) /\ \A x \in words : x.w \in Nat \ {0}
  BY <1>2, WordsMeant, FS_Subset
<1>4. s \in Seq(words)
  BY <1>3, AnyOrder DEF WordSeqs
<1>5. s \in Seq(WordsOf(c))
  BY <1>2, <1>4, SeqMonotonic
<1>6. PICK m \in Nat : m = Len(s) /\ DOMAIN s = 1 .. m /\ \A k \in 1 .. m : s[k] \in words
  BY <1>4, ElementsAreMembers
<1>7. WordWeights(s) \in [1 .. m -> Nat]
  BY <1>3, <1>6 DEF WordWeights
<1>8. WordWeights(s) \in Seq(Nat) /\ Len(WordWeights(s)) = m
  BY <1>7, FunctionAsSeq
<1>9. QED
  BY <1>1, <1>5, <1>6, <1>7, <1>8

\* Words are drawn by their weights, if weights are used or there are several languages.
LEMMA WordsByWeight ==
  ASSUME DictInv, WalkDict, opt.prog = "walk", stage \notin {"text", "failed"}, NEW c,
         NEW d \in WordDraws(c), opt.weight \/ wo.multi, NEW k \in DOMAIN WordWeights(d[1])
  PROVE  Share(WordWeights(d[1]), d[2], k) * SumTo(WordWeights(d[1]), Len(WordWeights(d[1])))
           = WordWeights(d[1])[k] * d[2]
<1>1. PICK s : /\ d = <<s, IF wo.multi THEN Sum(s) ELSE WordTotal(s)>>
               /\ WordWeights(s) \in Seq(Nat) /\ Len(WordWeights(s)) = Len(s)
  BY DrawsAre
<1>2. d[1] = s /\ d[2] = Sum(s)
  BY <1>1 DEF WordTotal
<1>3. PICK w : w = WordWeights(s)
  OBVIOUS
<1>4. d[2] = SumTo(w, Len(w)) /\ w \in Seq(Nat) /\ k \in DOMAIN w
  BY <1>1, <1>2, <1>3 DEF Sum
<1>5. Share(w, d[2], k) * SumTo(w, Len(w)) = w[k] * d[2]
  BY <1>4, ShareIsWeight
<1>6. QED
  BY <1>2, <1>3, <1>5

\* A word that is drawn is linked to the vertex.
LEMMA TokenMeant ==
  ASSUME DictInv, WalkDict, opt.prog = "walk", stage \notin {"text", "failed"}, NEW c,
         NEW d \in WordDraws(c), NEW k \in Outcomes(WordWeights(d[1]), d[2])
  PROVE  \E m \in Meant(files.text, d[1][k].word) : m.c = c
<1>1. PICK s : d = <<s, IF wo.multi THEN Sum(s) ELSE WordTotal(s)>> /\ s \in Seq(WordsOf(c))
               /\ DOMAIN WordWeights(s) = DOMAIN s
  BY DrawsAre
<1>2. d[1] = s /\ k \in DOMAIN s
  BY <1>1 DEF Outcomes
<1>3. s[k] \in WordsOf(c)
  BY <1>1, <1>2, ElementsAreMembers
<1>4. QED
  BY <1>2, <1>3, WordsMeant

-----------------------------------------------------------------------------
(* Strong components.                                                      *)

\* The concepts are as many as their numbers.
LEMMA ConceptsMany == N \in Nat \ {0} /\ Cardinality(Concepts) = N /\ DOMAIN Names = 1 .. N
<1>1. N \in Nat \ {0} /\ DOMAIN Names = 1 .. N /\ \A k \in 1 .. N : Names[k] \in Concepts
  BY ConceptsFinite, ElementsAreMembers, WalkAssumption DEF N
<1>2. \A p, j \in 1 .. N : Names[p] = Names[j] => p = j
  BY <1>1, WDictAssumption DEF IsInjective
<1>3. Names \in [1 .. N -> Concepts]
  BY <1>1, ConceptsFinite, SeqDef, LenProperties
<1>4. \A c \in Concepts : \E k \in 1 .. N : Names[k] = c
  BY <1>1, ConceptsFinite DEF ToSet
<1>5. Names \in Bijection(1 .. N, Concepts)
  BY <1>2, <1>3, <1>4 DEF Bijection, Injection, Surjection, IsInjective
<1>6. ExistsBijection(1 .. N, Concepts)
  BY <1>5 DEF ExistsBijection
<1>7. Cardinality(Concepts) = N
  BY <1>1, <1>6, FS_CountingElements
<1>8. QED
  BY <1>1, <1>7

\* What one edge more reaches.
Further(S) == S \cup UNION {ToSet(Rows[u]) : u \in S}

\* No edge leaves the set.
Closed(S) == \A u \in S : ToSet(Rows[u]) \subseteq S

\* It stays where it is when no edge leaves it.
LEMMA FurtherIn ==
  ASSUME NEW S \in SUBSET Concepts
  PROVE  /\ Further(S) \in SUBSET Concepts /\ S \subseteq Further(S)
         /\ Closed(S) <=> Further(S) = S
<1>1. \A u \in S : ToSet(Rows[u]) \subseteq Concepts
  <2> TAKE u \in S
  <2>1. Rows[u] \in Seq(Concepts)
    BY WalkAssumption
  <2>2. QED
    BY <2>1, ElementsAreMembers
<1>2. \A x : x \in Further(S) <=> x \in S \/ \E u \in S : x \in ToSet(Rows[u])
  BY DEF Further
<1>3. QED
  BY <1>1, <1>2 DEF Closed

\* The sets that Reached goes through, one edge further each.
LEMMA ReachedUnfolds ==
  ASSUME NEW v \in Concepts
  PROVE  \E f \in [0 .. N -> SUBSET Concepts] :
           /\ f[0] = {v} /\ \A k \in 1 .. N : f[k] = Further(f[k - 1])
           /\ Reached(v) = f[N]
<1> DEFINE h == [S \in SUBSET Concepts |-> Further(S)]
           E(f) == f = [k \in 0 .. N |-> IF k = 0 THEN {v}
                                         ELSE f[k - 1] \cup UNION {ToSet(Rows[u]) : u \in f[k - 1]}]
<1>1. h \in [SUBSET Concepts -> SUBSET Concepts]
  BY FurtherIn
<1>2. {v} \in SUBSET Concepts /\ N \in Nat
  BY ConceptsMany
<1>3. PICK f \in [0 .. N -> SUBSET Concepts] : Repeats(f, {v}, h, N)
  <2> HIDE DEF h
  <2> QED BY <1>1, <1>2, Iterates
<1>4. E(f)
  <2>1. \A k \in 0 .. N : k # 0 => k \in 1 .. N /\ k - 1 \in 0 .. N
    BY <1>2
  <2>2. \A k \in 0 .. N : k # 0 => f[k] = Further(f[k - 1])
    BY <1>3, <2>1 DEF Repeats
  <2>3. f[0] = {v}
    BY <1>3 DEF Repeats
  <2>4. f = [k \in 0 .. N |-> f[k]]
    BY <1>3
  <2>5. QED
    BY <2>2, <2>3, <2>4 DEF Further
<1>5. Reached(v) = (CHOOSE f0 : E(f0))[N]
  BY DEF Reached
<1>6. E(CHOOSE f0 : E(f0))
  <2> HIDE DEF E
  <2> QED BY <1>4
<1>7. PICK d : E(d) /\ Reached(v) = d[N]
  <2> HIDE DEF E
  <2> QED BY <1>5, <1>6
<1>8. 0 \in 0 .. N /\ \A k \in 1 .. N : k \in 0 .. N /\ k # 0 /\ k - 1 \in 0 .. N - 1 /\ k - 1 \in 0 .. N
  BY <1>2
<1>9. d[0] = {v} /\ \A k \in 1 .. N : d[k] = Further(d[k - 1])
  BY <1>7, <1>8 DEF Further
<1>10. d \in [0 .. N -> SUBSET Concepts]
  <2> DEFINE P == {k \in Nat : d[k] \in SUBSET Concepts}
  <2>1. 0 \in P
    BY <1>2, <1>9
  <2>2. ASSUME NEW k \in 0 .. N - 1, k \in P PROVE k + 1 \in P
    <3>1. k + 1 \in 1 .. N /\ (k + 1) - 1 = k /\ k + 1 \in Nat
      BY <1>2
    <3>2. QED
      BY <1>9, <2>2, <3>1, FurtherIn
  <2>3. 0 .. N \subseteq P
    <3> HIDE DEF P
    <3> QED BY <1>2, <2>1, <2>2, CountingUp
  <2>4. d = [k \in 0 .. N |-> d[k]]
    BY <1>7
  <2>5. QED
    BY <2>3, <2>4
<1>11. QED
  BY <1>7, <1>9, <1>10

\* As many steps as there are concepts are enough: no edge leaves what is reached, and
\* nothing is reached that a set without such an edge does not have.
LEMMA ReachedIs ==
  ASSUME NEW v \in Concepts
  PROVE  /\ Reached(v) \in SUBSET Concepts /\ v \in Reached(v) /\ Closed(Reached(v))
         /\ \A S \in SUBSET Concepts : v \in S /\ Closed(S) => Reached(v) \subseteq S
<1>1. PICK f \in [0 .. N -> SUBSET Concepts] :
        /\ f[0] = {v} /\ \A k \in 1 .. N : f[k] = Further(f[k - 1])
        /\ Reached(v) = f[N]
  BY ReachedUnfolds
<1>2. N \in Nat /\ N \in 0 .. N /\ Cardinality(Concepts) = N /\ IsFiniteSet(Concepts)
  BY ConceptsMany, ConceptsFinite
<1>3. ASSUME NEW k \in 0 .. N - 1
      PROVE  k + 1 \in 1 .. N /\ k + 1 \in Nat /\ k \in 0 .. N /\ k + 1 \in 0 .. N /\ f[k + 1] = Further(f[k])
  <2>1. k + 1 \in 1 .. N /\ (k + 1) - 1 = k /\ k + 1 \in Nat /\ k \in 0 .. N /\ k + 1 \in 0 .. N
    BY <1>2
  <2>2. QED
    BY <1>1, <2>1
<1>4. v \in f[N]
  <2> DEFINE P == {k \in Nat : v \in f[k]}
  <2>1. 0 \in P
    BY <1>1
  <2>2. ASSUME NEW k \in 0 .. N - 1, k \in P PROVE k + 1 \in P
    BY <1>1, <1>3, <2>2, FurtherIn
  <2> HIDE DEF P
  <2>3. N \in P
    BY <1>2, <2>1, <2>2, CountingUp
  <2>4. QED
    BY <2>3 DEF P
<1>5. Closed(f[N])
  <2> DEFINE P == {k \in Nat : Closed(f[k]) \/ Cardinality(f[k]) > k}
  <2>1. 0 \in P
    <3>1. Cardinality(f[0]) = 1
      <4>1. Cardinality({v}) = 1
        BY FS_Singleton
      <4>2. QED
        BY <1>1, <4>1
    <3>2. Cardinality(f[0]) > 0
      BY <3>1
    <3>3. QED
      BY <3>2
  <2>2. ASSUME NEW k \in 0 .. N - 1, k \in P PROVE k + 1 \in P
    <3>1. f[k] \in SUBSET Concepts /\ f[k + 1] = Further(f[k]) /\ f[k + 1] \in SUBSET Concepts
      BY <1>1, <1>3
    <3>2. CASE Closed(f[k])
      <4>1. f[k + 1] = f[k]
        BY <3>1, <3>2, FurtherIn
      <4>2. QED
        BY <1>3, <3>2, <4>1
    <3>3. CASE ~ Closed(f[k])
      <4>1. f[k] \subseteq f[k + 1] /\ f[k] # f[k + 1]
        BY <3>1, <3>3, FurtherIn
      <4>2. IsFiniteSet(f[k + 1])
        BY <1>2, <3>1, FS_Subset
      <4>3. IsFiniteSet(f[k]) /\ Cardinality(f[k]) <= Cardinality(f[k + 1]) /\ Cardinality(f[k]) # Cardinality(f[k + 1])
        BY <4>1, <4>2, FS_Subset
      <4>5. Cardinality(f[k]) \in Nat /\ Cardinality(f[k + 1]) \in Nat
        BY <4>2, <4>3, FS_CardinalityType
      <4>6. Cardinality(f[k]) > k
        BY <2>2, <3>3
      <4>7. Cardinality(f[k + 1]) > k + 1
        BY <4>3, <4>5, <4>6
      <4>8. QED
        BY <1>3, <4>7
    <3>4. QED
      BY <3>2, <3>3
  <2>3. N \in P
    <3> HIDE DEF P
    <3> QED BY <1>2, <2>1, <2>2, CountingUp
  <2>4. f[N] \in SUBSET Concepts
    BY <1>1, <1>2
  <2>5. Cardinality(f[N]) <= N /\ Cardinality(f[N]) \in Nat
    BY <1>2, <2>4, FS_Subset, FS_CardinalityType
  <2>6. QED
    BY <1>2, <2>3, <2>5
<1>6. ASSUME NEW S \in SUBSET Concepts, v \in S, Closed(S) PROVE f[N] \subseteq S
  <2> DEFINE P == {k \in Nat : f[k] \subseteq S}
  <2>1. 0 \in P
    BY <1>1, <1>6
  <2>2. ASSUME NEW k \in 0 .. N - 1, k \in P PROVE k + 1 \in P
    <3>1. f[k + 1] \subseteq S
      BY <1>3, <1>6, <2>2 DEF Further, Closed
    <3>2. QED
      BY <1>3, <3>1
  <2>3. N \in P
    <3> HIDE DEF P
    <3> QED BY <1>2, <2>1, <2>2, CountingUp
  <2>4. QED
    BY <2>3
<1>7. QED
  BY <1>1, <1>2, <1>4, <1>5, <1>6

\* Whatever reaches a vertex reaches what that one does.
LEMMA ReachedOn ==
  ASSUME NEW v \in Concepts, NEW u \in Reached(v)
  PROVE  u \in Concepts /\ Reached(u) \subseteq Reached(v)
<1>1. u \in Concepts /\ Reached(v) \in SUBSET Concepts /\ Closed(Reached(v))
  BY ReachedIs
<1>2. QED
  BY <1>1, ReachedIs

\* Strong components are not empty and have no vertex in common, and every vertex is in one.
LEMMA ComponentsPart ==
  /\ IsFiniteSet(Components) /\ Components # {}
  /\ \A C \in Components : C \in SUBSET Concepts /\ IsFiniteSet(C) /\ C # {}
  /\ \A C, D \in Components : C = D \/ C \cap D = {}
  /\ \A c \in Concepts : \E C \in Components : c \in C
<1>1. \A v \in Concepts : Component(v) \in SUBSET Concepts /\ v \in Component(v)
  BY ReachedIs DEF Component
<1>2. \A v \in Concepts : \A u \in Component(v) : Component(u) = Component(v)
  <2> TAKE v \in Concepts
  <2> TAKE u \in Component(v)
  <2>1. u \in Reached(v) /\ v \in Reached(u) /\ u \in Concepts
    BY <1>1 DEF Component
  <2>2. Reached(u) = Reached(v)
    BY <2>1, ReachedOn
  <2>3. \A x \in Reached(u) : u \in Reached(x) <=> v \in Reached(x)
    BY <2>1, ReachedOn
  <2>4. QED
    BY <2>2, <2>3 DEF Component
<1>3. \A C, D \in Components : C = D \/ C \cap D = {}
  <2> TAKE C, D \in Components
  <2>1. PICK v \in Concepts, u \in Concepts : C = Component(v) /\ D = Component(u)
    BY DEF Components
  <2>2. QED
    BY <1>2, <2>1
<1>4. IsFiniteSet(Components)
  <2>1. IsFiniteSet(SUBSET Concepts)
    BY ConceptsFinite, FS_SUBSET
  <2>2. Components \subseteq SUBSET Concepts
    BY <1>1 DEF Components
  <2>3. QED
    BY <2>1, <2>2, FS_Subset
<1>5. \A C \in Components : C \in SUBSET Concepts /\ IsFiniteSet(C) /\ C # {}
  BY <1>1, ConceptsFinite, FS_Subset DEF Components
<1>6. \A c \in Concepts : \E C \in Components : c \in C
  BY <1>1 DEF Components
<1>7. Components # {}
  <2>1. 1 \in 1 .. N
    BY ConceptsMany
  <2>2. Names[1] \in Concepts
    BY <2>1, ConceptsFinite, ConceptsMany, ElementsAreMembers DEF N
  <2>3. QED
    BY <1>6, <2>2
<1>8. QED
  BY <1>3, <1>4, <1>5, <1>6, <1>7

-----------------------------------------------------------------------------
(* Sequences one after the other.                                          *)

\* The lengths of sequences.
LengthsOf(lens, qs) == lens \in Seq(Nat) /\ Len(lens) = Len(qs) /\ \A k \in 1 .. Len(qs) : lens[k] = Len(qs[k])

\* The first m of them lie in F behind each other.
Joined(F, qs, lens, m) ==
  /\ Len(F) = SumTo(lens, m)
  /\ \A k \in 1 .. m : \A p \in 1 .. Len(qs[k]) : F[SumTo(lens, k - 1) + p] = qs[k][p]

\* All of them do in the flat sequence, and nothing else.
LEMMA FlattenJoins ==
  ASSUME NEW V, NEW qs \in Seq(Seq(V)), NEW lens, LengthsOf(lens, qs)
  PROVE  FlattenSeq(qs) \in Seq(V) /\ Joined(FlattenSeq(qs), qs, lens, Len(qs))
<1>1. PICK n \in Nat : n = Len(qs) /\ DOMAIN qs = 1 .. n /\ \A k \in 1 .. n : qs[k] \in Seq(V)
  BY ElementsAreMembers
<1>2. lens \in Seq(Nat) /\ Len(lens) = n /\ \A k \in 1 .. n : lens[k] = Len(qs[k])
  BY <1>1 DEF LengthsOf
<1> DEFINE R(m) == [k \in 1 .. m |-> qs[k]]
           P == {m \in Nat : FlattenSeq(R(m)) \in Seq(V) /\ Joined(FlattenSeq(R(m)), qs, lens, m)}
<1>3. ASSUME NEW m \in 0 .. n PROVE R(m) \in Seq(Seq(V)) /\ Len(R(m)) = m /\ \A k \in 1 .. m : R(m)[k] = qs[k]
  <2>1. m \in Nat /\ \A k \in 1 .. m : k \in 1 .. n
    BY <1>1
  <2>2. R(m) \in [1 .. m -> Seq(V)]
    BY <1>1, <2>1
  <2>3. \A k \in 1 .. m : R(m)[k] = qs[k]
    OBVIOUS
  <2> HIDE DEF R
  <2>4. R(m) \in Seq(Seq(V)) /\ Len(R(m)) = m
    BY <2>1, <2>2, FunctionAsSeq
  <2>5. QED
    BY <2>3, <2>4
<1>4. 0 \in P
  <2>1. R(0) \in Seq(Seq(V)) /\ Len(R(0)) = 0
    BY <1>1, <1>3
  <2>2. R(0) = <<>>
    BY <2>1, EmptySeq
  <2>3. FlattenSeq(<<>>) = <<>>
    BY DEF FlattenSeq
  <2>4. <<>> \in Seq(V) /\ Len(<<>>) = 0
    BY EmptySeq
  <2>5. SumTo(lens, 0) = 0
    BY <1>2, SumToIs
  <2>6. Joined(<<>>, qs, lens, 0)
    BY <2>4, <2>5 DEF Joined
  <2>7. QED
    BY <2>2, <2>3, <2>4, <2>6
<1>5. ASSUME NEW m \in 0 .. n - 1, m \in P PROVE m + 1 \in P
  <2>1. m \in Nat /\ m \in 0 .. n /\ m + 1 \in Nat /\ m + 1 \in 0 .. n /\ m + 1 \in 1 .. n /\ (m + 1) - 1 = m
    BY <1>1
  <2>2. PICK a : a = FlattenSeq(R(m)) /\ a \in Seq(V) /\ Joined(a, qs, lens, m)
    BY <1>5
  <2>3. R(m) \in Seq(Seq(V)) /\ Len(R(m)) = m /\ \A k \in 1 .. m : R(m)[k] = qs[k]
    BY <1>3, <2>1
  <2>4. R(m + 1) \in Seq(Seq(V)) /\ Len(R(m + 1)) = m + 1 /\ \A k \in 1 .. m + 1 : R(m + 1)[k] = qs[k]
    BY <1>3, <2>1
  <2>4a. m + 1 \in 1 .. m + 1
    BY <2>1
  <2>5. \A k \in 1 .. m : R(m)[k] = R(m + 1)[k]
    <3>1. \A k \in 1 .. m : k \in 1 .. m + 1
      BY <2>1
    <3>2. QED
      BY <2>3, <2>4, <3>1
  <2>6. PICK rs \in Seq(Seq(V)), ss \in Seq(Seq(V)) : rs = R(m) /\ ss = R(m + 1)
    BY <2>3, <2>4
  <2> HIDE DEF R
  <2>7. FlattenSeq(ss) = FlattenSeq(rs) \o ss[m + 1]
    BY <2>1, <2>3, <2>4, <2>5, <2>6, FlattenMore
  <2>8. ss[m + 1] = qs[m + 1]
    BY <2>4, <2>6, <2>4a
  <2>9. PICK q \in Seq(V) : q = qs[m + 1]
    BY <1>1, <2>1
  <2>10. FlattenSeq(R(m + 1)) = a \o q
    BY <2>2, <2>6, <2>7, <2>8, <2>9
  <2>11. /\ a \o q \in Seq(V) /\ Len(a \o q) = Len(a) + Len(q) /\ Len(a) \in Nat /\ Len(q) \in Nat
         /\ \A p \in 1 .. Len(a) : (a \o q)[p] = a[p]
         /\ \A p \in 1 .. Len(q) : (a \o q)[Len(a) + p] = q[p]
    BY <2>2, Concatenated
  <2>12. Len(a) = SumTo(lens, m)
    BY <2>2 DEF Joined
  <2>13. SumTo(lens, m + 1) = SumTo(lens, m) + Len(q)
    <3>1. SumTo(lens, m + 1) = SumTo(lens, m) + lens[m + 1]
      BY <1>2, <2>1, SumToIs
    <3>2. QED
      BY <1>2, <2>1, <2>9, <3>1
  <2>14. ASSUME NEW k \in 1 .. m + 1, NEW p \in 1 .. Len(qs[k]) PROVE (a \o q)[SumTo(lens, k - 1) + p] = qs[k][p]
    <3>1. CASE k = m + 1
      BY <2>1, <2>9, <2>11, <2>12, <2>14, <3>1
    <3>2. CASE k # m + 1
      <4>1. k \in 1 .. m /\ k \in 1 .. n /\ k - 1 \in 0 .. n /\ k \in 0 .. n /\ k <= m
        BY <2>1, <3>2
      <4>2. SumTo(lens, k) = SumTo(lens, k - 1) + Len(qs[k])
        <5>1. SumTo(lens, k) = SumTo(lens, k - 1) + lens[k]
          BY <1>2, <4>1, SumToIs
        <5>2. QED
          BY <1>2, <4>1, <5>1
      <4>3. SumTo(lens, k - 1) \in Nat /\ SumTo(lens, k) \in Nat /\ SumTo(lens, m) \in Nat
        BY <1>2, <2>1, <4>1, SumToIs
      <4>4. SumTo(lens, k) <= SumTo(lens, m)
        BY <1>2, <2>1, <4>1, SumToGrows
      <4>5. Len(qs[k]) \in Nat
        BY <1>1, <4>1, ElementsAreMembers
      <4>6. SumTo(lens, k - 1) + p \in 1 .. Len(a)
        <5>1. PICK s \in Nat, l \in Nat, z \in Nat : s = SumTo(lens, k - 1) /\ l = Len(qs[k]) /\ z = Len(a)
          BY <2>11, <4>3, <4>5
        <5>2. s + l <= z /\ p \in 1 .. l
          BY <2>12, <2>14, <4>2, <4>4, <5>1
        <5>3. s + p \in 1 .. z
          BY <5>2
        <5>4. QED
          BY <5>1, <5>3
      <4>7. a[SumTo(lens, k - 1) + p] = qs[k][p]
        BY <2>2, <2>14, <4>1 DEF Joined
      <4>8. QED
        BY <2>11, <4>6, <4>7
    <3>3. QED
      BY <3>1, <3>2
  <2>15. Joined(a \o q, qs, lens, m + 1)
    BY <2>11, <2>12, <2>13, <2>14 DEF Joined
  <2>16. QED
    BY <2>1, <2>10, <2>11, <2>15
<1>6. n \in P
  <2>1. n \in 0 .. n
    BY <1>1
  <2> HIDE DEF P
  <2> QED BY <1>1, <1>4, <1>5, <2>1, CountingUp
<1>7. R(n) = qs
  <2>1. qs = [k \in 1 .. n |-> qs[k]]
    <3>1. qs \in [1 .. n -> Seq(V)]
      BY <1>1, SeqDef, LenProperties
    <3>2. QED
      BY <3>1
  <2>2. QED
    BY <2>1
<1>8. QED
  BY <1>1, <1>6, <1>7

\* A part of a sequence has what lies in it.
LEMMA PieceHas ==
  ASSUME NEW V, NEW F \in Seq(V), NEW a \in Nat, NEW q \in Seq(V), a + Len(q) <= Len(F),
         \A p \in 1 .. Len(q) : F[a + p] = q[p]
  PROVE  ToSet(SubSeq(F, a + 1, a + Len(q))) = ToSet(q)
<1>1. PICK m \in Nat : m = Len(q) /\ DOMAIN q = 1 .. m
  BY ElementsAreMembers
<1>2. PICK n \in Nat : n = Len(F) /\ DOMAIN F = 1 .. n /\ \A p \in 1 .. n : F[p] \in V
  BY ElementsAreMembers
<1>3. \A p \in a + 1 .. a + m : F[p] \in V
  BY <1>1, <1>2
<1>5. PICK t : t = SubSeq(F, a + 1, a + m)
  OBVIOUS
<1>6. Len(t) = m /\ t \in Seq(V) /\ \A p \in 1 .. m : t[p] = F[a + p]
  <2>1. /\ SubSeq(F, a + 1, a + m) \in Seq(V)
        /\ Len(SubSeq(F, a + 1, a + m)) = IF a + 1 <= a + m THEN (a + m) - (a + 1) + 1 ELSE 0
        /\ \A p \in 1 .. (a + m) - (a + 1) + 1 : SubSeq(F, a + 1, a + m)[p] = F[(a + 1) + p - 1]
    <3>1. PICK lo \in Int, hi \in Int : lo = a + 1 /\ hi = a + m
      BY <1>1
    <3>2. \A p \in lo .. hi : F[p] \in V
      BY <1>3, <3>1
    <3>3. /\ SubSeq(F, lo, hi) \in Seq(V)
          /\ Len(SubSeq(F, lo, hi)) = IF lo <= hi THEN hi - lo + 1 ELSE 0
          /\ \A p \in 1 .. hi - lo + 1 : SubSeq(F, lo, hi)[p] = F[lo + p - 1]
      BY <3>2, SubSeqProperties
    <3>4. QED
      BY <3>1, <3>3
  <2>2. (a + m) - (a + 1) + 1 = m /\ (a + 1 <= a + m <=> 1 <= m) /\ (~ (1 <= m) => m = 0)
    BY <1>1
  <2>3. \A p \in 1 .. m : (a + 1) + p - 1 = a + p
    BY <1>1
  <2>4. QED
    BY <1>5, <2>1, <2>2, <2>3
<1>7. DOMAIN t = 1 .. m
  BY <1>6, ElementsAreMembers
<1>8. \A p \in 1 .. m : t[p] = q[p]
  BY <1>1, <1>6
<1>9. QED
  BY <1>1, <1>5, <1>7, <1>8 DEF ToSet

-----------------------------------------------------------------------------
(* The sampler over strong components.                                     *)

Interval == [left : Nat, right : Nat, share : Nat]

\* The intervals divide an order of all concepts.
Divided(o, iv) ==
  /\ o \in Seq(Concepts) /\ ToSet(o) = Concepts /\ Len(o) = N
  /\ iv \in Seq(Interval) /\ iv # <<>>
  /\ iv[1].left = 0 /\ iv[Len(iv)].right = N
  /\ \A k \in 1 .. Len(iv) - 1 : iv[k].right = iv[k + 1].left

\* What the intervals have and their shares.
Drawn(o, iv) == {<<ToSet(SubSeq(o, x.left + 1, x.right)), x.share>> : x \in ToSet(iv)}

\* The sizes of components, one after the other.
SizesOf(sizes, cs) == sizes \in Seq(Nat) /\ Len(sizes) = Len(cs) /\ \A k \in 1 .. Len(cs) : sizes[k] = Cardinality(cs[k])

\* The sizes add up to the number of concepts.
LEMMA SizesAddUp ==
  ASSUME NEW cs \in SetToSeqs(Components), NEW sizes, SizesOf(sizes, cs)
  PROVE  SumTo(sizes, Len(cs)) = N
<1>1. cs \in Seq(Components) /\ ToSet(cs) = Components /\ IsInjective(cs)
  BY ComponentsPart, AnyOrder
<1>2. PICK n \in Nat : n = Len(cs) /\ DOMAIN cs = 1 .. n /\ \A k \in 1 .. n : cs[k] \in Components
  BY <1>1, ElementsAreMembers
<1>3. sizes \in Seq(Nat) /\ Len(sizes) = n /\ \A k \in 1 .. n : sizes[k] = Cardinality(cs[k])
  BY <1>2 DEF SizesOf
<1> DEFINE U(m) == UNION {cs[k] : k \in 1 .. m}
           P == {m \in Nat : IsFiniteSet(U(m)) /\ Cardinality(U(m)) = SumTo(sizes, m)}
<1>4. 0 \in P
  <2>1. U(0) = {}
    OBVIOUS
  <2>2. SumTo(sizes, 0) = 0
    BY <1>3, SumToIs
  <2>3. QED
    BY <2>1, <2>2, FS_EmptySet
<1>5. ASSUME NEW m \in 0 .. n - 1, m \in P PROVE m + 1 \in P
  <2>1. m \in Nat /\ m + 1 \in Nat /\ m + 1 \in 1 .. n /\ (m + 1) - 1 = m /\ \A k \in 1 .. m : k \in 1 .. n /\ k # m + 1
    BY <1>2
  <2>2. PICK C : C = cs[m + 1] /\ C \in Components /\ IsFiniteSet(C)
    BY <1>2, <2>1, ComponentsPart
  <2>3. \A k \in 1 .. m : cs[k] # C
    BY <1>1, <1>2, <2>1, <2>2 DEF IsInjective
  <2>4. \A k \in 1 .. m : cs[k] \cap C = {}
    BY <1>2, <2>1, <2>2, <2>3, ComponentsPart
  <2>5. U(m) \cap C = {}
    BY <2>4
  <2>6. U(m + 1) = U(m) \cup C
    <3>1. \A k : k \in 1 .. m + 1 <=> k \in 1 .. m \/ k = m + 1
      BY <2>1
    <3>2. QED
      BY <2>2, <3>1
  <2>7. IsFiniteSet(U(m)) /\ Cardinality(U(m)) = SumTo(sizes, m)
    BY <1>5
  <2> HIDE DEF U
  <2>8. /\ IsFiniteSet(U(m) \cup C)
        /\ Cardinality(U(m) \cup C) = Cardinality(U(m)) + Cardinality(C) - Cardinality(U(m) \cap C)
    BY <2>2, <2>7, FS_Union
  <2>9. Cardinality(U(m) \cap C) = 0
    BY <2>5, FS_EmptySet
  <2>10. Cardinality(C) \in Nat /\ Cardinality(U(m)) \in Nat
    BY <2>2, <2>7, FS_CardinalityType
  <2>11. SumTo(sizes, m + 1) = SumTo(sizes, m) + Cardinality(C)
    <3>1. SumTo(sizes, m + 1) = SumTo(sizes, m) + sizes[m + 1]
      BY <1>3, <2>1, SumToIs
    <3>2. QED
      BY <1>3, <2>1, <2>2, <3>1
  <2>12. Cardinality(U(m + 1)) = SumTo(sizes, m + 1) /\ IsFiniteSet(U(m + 1))
    <3>1. \A x, y \in Nat : x + y - 0 = x + y
      OBVIOUS
    <3>2. Cardinality(U(m) \cup C) = Cardinality(U(m)) + Cardinality(C)
      BY <2>8, <2>9, <2>10, <3>1
    <3>3. QED
      BY <2>6, <2>7, <2>8, <2>11, <3>2
  <2>13. QED
    BY <2>1, <2>12 DEF U
<1>6. n \in P
  <2>1. n \in 0 .. n
    BY <1>2
  <2> HIDE DEF P
  <2> QED BY <1>2, <1>4, <1>5, <2>1, CountingUp
<1>7. U(n) = Concepts
  <2>1. ASSUME NEW c \in Concepts PROVE c \in U(n)
    <3>1. PICK C \in Components : c \in C
      BY ComponentsPart
    <3>2. PICK k \in 1 .. n : cs[k] = C
      BY <1>1, <1>2 DEF ToSet
    <3>3. QED
      BY <3>1, <3>2
  <2>2. \A k \in 1 .. n : cs[k] \subseteq Concepts
    BY <1>2, ComponentsPart
  <2>3. QED
    BY <2>1, <2>2
<1>8. QED
  BY <1>2, <1>6, <1>7, ConceptsMany

\* A finite set as a sequence.
LEMMA SetLength ==
  ASSUME NEW S, IsFiniteSet(S)
  PROVE  SetToSeq(S) \in Seq(S) /\ ToSet(SetToSeq(S)) = S /\ Len(SetToSeq(S)) = Cardinality(S)
<1>1. PICK n \in Nat : n = Cardinality(S) /\ ExistsBijection(1 .. n, S)
  BY FS_CardinalityType
<1>2. \E f \in [1 .. n -> S] : IsInjective(f)
  BY <1>1 DEF ExistsBijection, Bijection, Injection, IsInjective
<1>3. SetToSeq(S) \in [1 .. n -> S]
  BY <1>1, <1>2 DEF SetToSeq
<1>4. SetToSeq(S) \in Seq(S) /\ Len(SetToSeq(S)) = n
  BY <1>1, <1>3, FunctionAsSeq
<1>5. \A x \in S : x \in ToSet(SetToSeq(S))
  BY SetAsSeq DEF ToSet
<1>6. QED
  BY <1>1, <1>4, <1>5, ElementsAreMembers

\* The sampler over strong components divides the vertices into them.
LEMMA ComponentsDivide ==
  ASSUME NEW cs \in ComponentOrders, NEW o, o = FlattenSeq([k \in DOMAIN cs |-> SetToSeq(cs[k])]),
         NEW iv, iv = ComponentIntervals(cs)
  PROVE  /\ Divided(o, iv)
         /\ \A k \in 1 .. Len(iv) : iv[k].left < iv[k].right
         /\ Drawn(o, iv) = {<<C, Cardinality(C)>> : C \in Components}
<1>1. cs \in SetToSeqs(Components) /\ cs \in Seq(Components) /\ ToSet(cs) = Components
  BY ComponentsPart, AnyOrder DEF ComponentOrders
<1>2. PICK n \in Nat : n = Len(cs) /\ DOMAIN cs = 1 .. n /\ \A k \in 1 .. n : cs[k] \in Components
  BY <1>1, ElementsAreMembers
<1>3. \A k \in 1 .. n : /\ cs[k] \in SUBSET Concepts /\ IsFiniteSet(cs[k])
                        /\ Cardinality(cs[k]) \in Nat \ {0}
  <2> TAKE k \in 1 .. n
  <2>1. cs[k] \in SUBSET Concepts /\ IsFiniteSet(cs[k]) /\ cs[k] # {}
    BY <1>2, ComponentsPart
  <2>2. Cardinality(cs[k]) \in Nat /\ Cardinality(cs[k]) # 0
    BY <2>1, FS_CardinalityType, FS_EmptySet
  <2>3. QED
    BY <2>1, <2>2
<1> DEFINE sz == [k \in 1 .. n |-> Cardinality(cs[k])]
           rs == [k \in 1 .. n |-> SetToSeq(cs[k])]
<1>4. PICK sizes \in Seq(Nat) : sizes = sz /\ Len(sizes) = n
  <2>1. sz \in [1 .. n -> Nat]
    BY <1>3
  <2> HIDE DEF sz
  <2>2. QED
    BY <2>1, FunctionAsSeq
<1>5. \A k \in 1 .. n : sizes[k] = Cardinality(cs[k])
  BY <1>4
<1>6. SizesOf(sizes, cs)
  BY <1>2, <1>4, <1>5 DEF SizesOf
<1>7. SumTo(sizes, n) = N
  BY <1>1, <1>2, <1>6, SizesAddUp
<1>8. \A k \in 1 .. n : /\ SetToSeq(cs[k]) \in Seq(Concepts) /\ ToSet(SetToSeq(cs[k])) = cs[k]
                        /\ Len(SetToSeq(cs[k])) = Cardinality(cs[k])
  <2> TAKE k \in 1 .. n
  <2>1. SetToSeq(cs[k]) \in Seq(cs[k]) /\ ToSet(SetToSeq(cs[k])) = cs[k] /\ Len(SetToSeq(cs[k])) = Cardinality(cs[k])
    BY <1>3, SetLength
  <2>2. QED
    BY <1>3, <2>1, SeqMonotonic
<1>9. PICK qs \in Seq(Seq(Concepts)) : qs = rs /\ Len(qs) = n
  <2>1. rs \in [1 .. n -> Seq(Concepts)]
    BY <1>8
  <2> HIDE DEF rs
  <2>2. QED
    BY <2>1, FunctionAsSeq
<1>10. \A k \in 1 .. n : qs[k] = SetToSeq(cs[k])
  BY <1>9
<1>11. LengthsOf(sizes, qs)
  BY <1>4, <1>5, <1>8, <1>9, <1>10 DEF LengthsOf
<1>12. o = FlattenSeq(qs)
  BY <1>2, <1>9
<1> DEFINE e(k) == [left |-> SumTo(sizes, k - 1), right |-> SumTo(sizes, k), share |-> Cardinality(cs[k])]
<1>13. iv = [k \in 1 .. n |-> e(k)]
  BY <1>2, <1>4 DEF ComponentIntervals
<1> HIDE DEF sz, rs
<1>14. o \in Seq(Concepts) /\ Joined(o, qs, sizes, n)
  BY <1>9, <1>11, <1>12, FlattenJoins
<1>15. Len(o) = N
  BY <1>7, <1>14 DEF Joined
<1>16. \A k \in 1 .. n : k - 1 \in 0 .. n /\ k \in 0 .. n /\ k <= n /\ k \in Nat
  BY <1>2
<1>17. ASSUME NEW k \in 1 .. n
       PROVE  /\ SumTo(sizes, k) = SumTo(sizes, k - 1) + Cardinality(cs[k])
              /\ SumTo(sizes, k) \in Nat /\ SumTo(sizes, k - 1) \in Nat
              /\ SumTo(sizes, k - 1) < SumTo(sizes, k) /\ SumTo(sizes, k) <= N
  <2>1. SumTo(sizes, k) = SumTo(sizes, k - 1) + Cardinality(cs[k])
    <3>1. SumTo(sizes, k) = SumTo(sizes, k - 1) + sizes[k]
      BY <1>4, SumToIs
    <3>2. QED
      BY <1>5, <3>1
  <2>2. SumTo(sizes, k) \in Nat /\ SumTo(sizes, k - 1) \in Nat
    BY <1>4, <1>16, SumToIs
  <2>3. SumTo(sizes, k) <= N
    <3>1. n \in 0 .. n
      BY <1>2
    <3>2. QED
      BY <1>4, <1>7, <1>16, <3>1, SumToGrows
  <2>4. QED
    BY <1>3, <2>1, <2>2, <2>3
<1>18. \A k \in 1 .. n : ToSet(SubSeq(o, e(k).left + 1, e(k).right)) = cs[k]
  <2> TAKE k \in 1 .. n
  <2>1. PICK q \in Seq(Concepts) : q = qs[k] /\ ToSet(q) = cs[k] /\ Len(q) = Cardinality(cs[k])
    BY <1>8, <1>10
  <2>2. PICK a \in Nat : a = SumTo(sizes, k - 1)
    BY <1>17
  <2>3. a + Len(q) = SumTo(sizes, k) /\ a + Len(q) <= Len(o)
    BY <1>15, <1>17, <2>1, <2>2
  <2>4. \A p \in 1 .. Len(q) : o[a + p] = q[p]
    BY <1>14, <2>1, <2>2 DEF Joined
  <2>5. ToSet(SubSeq(o, a + 1, a + Len(q))) = ToSet(q)
    BY <1>14, <2>3, <2>4, PieceHas
  <2>6. QED
    BY <2>1, <2>2, <2>3, <2>5
<1>19. iv \in Seq(Interval) /\ Len(iv) = n /\ \A k \in 1 .. n : iv[k] = e(k)
  <2>1. \A k \in 1 .. n : e(k) \in Interval
    BY <1>3, <1>17 DEF Interval
  <2>2. iv \in [1 .. n -> Interval]
    BY <1>13, <2>1
  <2>3. QED
    BY <1>13, <2>2, FunctionAsSeq
<1>20. \A C \in Components : \E k \in 1 .. n : cs[k] = C
  BY <1>1, <1>2 DEF ToSet
<1>21. n # 0
  BY <1>20, ComponentsPart
<1>22. \A k \in 1 .. n : iv[k].left = SumTo(sizes, k - 1) /\ iv[k].right = SumTo(sizes, k) /\ iv[k].share = Cardinality(cs[k])
  BY <1>19
<1>23. Drawn(o, iv) = {<<C, Cardinality(C)>> : C \in Components}
  <2> DEFINE d(x) == <<ToSet(SubSeq(o, x.left + 1, x.right)), x.share>>
  <2>1. \A k \in 1 .. n : d(iv[k]) = <<cs[k], Cardinality(cs[k])>>
    BY <1>18, <1>22
  <2>2. Drawn(o, iv) = {d(x) : x \in ToSet(iv)}
    BY DEF Drawn
  <2>3. ToSet(iv) = {iv[k] : k \in 1 .. n}
    <3>1. DOMAIN iv = 1 .. n
      BY <1>13
    <3>2. QED
      BY <3>1 DEF ToSet
  <2> HIDE DEF d
  <2>4. Drawn(o, iv) = {d(iv[k]) : k \in 1 .. n}
    <3>1. \A z : z \in Drawn(o, iv) <=> \E x \in ToSet(iv) : z = d(x)
      BY <2>2
    <3>2. (\A k \in 1 .. n : iv[k] \in ToSet(iv)) /\ \A x \in ToSet(iv) : \E k \in 1 .. n : x = iv[k]
      BY <2>3
    <3>3. ASSUME NEW z \in Drawn(o, iv) PROVE \E k \in 1 .. n : z = d(iv[k])
      <4>1. PICK x \in ToSet(iv) : z = d(x)
        BY <3>1
      <4>2. PICK k \in 1 .. n : x = iv[k]
        BY <3>2
      <4>3. d(x) = d(iv[k])
        BY <4>2 DEF d
      <4>4. QED
        BY <4>1, <4>3
    <3>4. \A k \in 1 .. n : d(iv[k]) \in Drawn(o, iv)
      BY <3>1, <3>2
    <3>5. QED
      BY <3>3, <3>4
  <2>5. Drawn(o, iv) = {<<cs[k], Cardinality(cs[k])>> : k \in 1 .. n}
    BY <2>1, <2>4
  <2>6. QED
    BY <1>2, <1>20, <2>5
<1>24. ToSet(o) = Concepts
  <2>1. ASSUME NEW c \in Concepts PROVE c \in ToSet(o)
    <3>0. PICK C \in Components : c \in C
      BY ComponentsPart
    <3>1. PICK k \in 1 .. n : c \in cs[k]
      BY <1>20, <3>0
    <3>2. PICK q \in Seq(Concepts) : q = qs[k] /\ ToSet(q) = cs[k] /\ Len(q) = Cardinality(cs[k])
      BY <1>8, <1>10
    <3>3. PICK p \in 1 .. Len(q) : q[p] = c
      BY <3>1, <3>2, ElementsAreMembers DEF ToSet
    <3>4. o[SumTo(sizes, k - 1) + p] = c
      BY <1>14, <3>2, <3>3 DEF Joined
    <3>5. SumTo(sizes, k - 1) + p \in 1 .. N
      <4>1. PICK s \in Nat, l \in Nat, z \in Nat : s = SumTo(sizes, k - 1) /\ l = Len(q) /\ z = N
        BY <1>17, <3>2, ElementsAreMembers, ConceptsMany
      <4>2. s + l <= z
        BY <1>17, <3>2, <4>1
      <4>3. s + p \in 1 .. z
        BY <4>1, <4>2
      <4>4. QED
        BY <4>1, <4>3
    <3>6. QED
      BY <1>14, <1>15, <3>4, <3>5, ElementsAreMembers
  <2>2. QED
    BY <1>14, <2>1, ElementsAreMembers
<1>25. iv[1].left = 0 /\ iv[n].right = N
  <2>1. 1 \in 1 .. n /\ n \in 1 .. n /\ 1 - 1 = 0
    BY <1>2, <1>21
  <2>2. SumTo(sizes, 0) = 0
    BY <1>4, SumToIs
  <2>3. QED
    BY <1>7, <1>22, <2>1, <2>2
<1>26. \A k \in 1 .. n - 1 : iv[k].right = iv[k + 1].left
  <2> TAKE k \in 1 .. n - 1
  <2>1. k \in 1 .. n /\ k + 1 \in 1 .. n /\ (k + 1) - 1 = k
    BY <1>2
  <2>2. QED
    BY <1>19, <2>1
<1>27. \A k \in 1 .. n : iv[k].left < iv[k].right
  BY <1>17, <1>22
<1>28. iv # <<>>
  BY <1>19, <1>21, ElementsAreMembers
<1>29. QED
  BY <1>14, <1>15, <1>19, <1>23, <1>24, <1>25, <1>26, <1>27, <1>28 DEF Divided

-----------------------------------------------------------------------------
(* The sampler over ranks.                                                 *)

\* All concepts in an order, and their ranks.
Ordered(r, idx) ==
  /\ r \in [Concepts -> Nat]
  /\ idx \in [1 .. N -> Concepts] /\ IsInjective(idx) /\ \A c \in Concepts : \E k \in 1 .. N : idx[k] = c

\* The sampler sorts all of them.
LEMMA ByRankOrders ==
  ASSUME NEW r \in [Concepts -> Nat], NEW idx \in ByRank(r)
  PROVE  Ordered(r, idx) /\ idx \in Seq(Concepts) /\ ToSet(idx) = Concepts /\ Len(idx) = N
<1>1. idx \in Seq(Concepts) /\ ToSet(idx) = Concepts /\ IsInjective(idx) /\ Len(idx) = N
  BY AnyOrder, ConceptsFinite, ConceptsMany DEF ByRank
<1>2. DOMAIN idx = 1 .. N /\ \A k \in 1 .. N : idx[k] \in Concepts
  BY <1>1, ElementsAreMembers
<1>3. idx \in [1 .. N -> Concepts]
  BY <1>1, <1>2, SeqDef, LenProperties
<1>4. \A c \in Concepts : \E k \in 1 .. N : idx[k] = c
  BY <1>1, <1>2 DEF ToSet
<1>5. QED
  BY <1>1, <1>3, <1>4 DEF Ordered

\* Ranks add up to a number, as they come in any order.
LEMMA WholeIsSum ==
  ASSUME NEW r, NEW idx, Ordered(r, idx)
  PROVE  \E f \in [0 .. N -> Nat] : /\ f[0] = 0 /\ \A k \in 1 .. N : f[k] = f[k - 1] + r[idx[k]]
                                    /\ f[N] = Whole(r)
<1>1. /\ r \in [Concepts -> Nat] /\ IsFiniteSet(Concepts) /\ N \in Nat
      /\ idx \in [1 .. N -> Concepts] /\ IsInjective(idx) /\ \A c \in Concepts : \E k \in 1 .. N : idx[k] = c
  BY ConceptsFinite, ConceptsMany DEF Ordered
<1>2. PICK s : PicksOne(s, r, Concepts)
  BY <1>1, SumExists
<1>3. SumsUp(s, r, Concepts)
  BY <1>1, <1>2, SumsInAnyOrder
<1>4. Whole(r) = s[Concepts]
  <2>1. Concepts \in SUBSET Concepts
    OBVIOUS
  <2>2. Total(r, Concepts) = s[Concepts]
    BY <1>1, <1>3, <2>1, TotalIsSum
  <2>3. QED
    BY <2>2 DEF Whole, Total
<1> DEFINE U(k) == {idx[p] : p \in 1 .. k}
           f == [k \in 0 .. N |-> s[U(k)]]
<1>5. \A k \in 0 .. N : U(k) \in SUBSET Concepts
  <2> TAKE k \in 0 .. N
  <2>1. \A p \in 1 .. k : p \in 1 .. N
    BY <1>1
  <2>2. QED
    BY <1>1, <2>1
<1>6. f \in [0 .. N -> Nat]
  BY <1>3, <1>5 DEF SumsUp
<1>7. f[0] = 0
  <2>1. U(0) = {} /\ 0 \in 0 .. N
    BY <1>1
  <2>2. QED
    BY <1>3, <2>1 DEF SumsUp
<1>8. ASSUME NEW k \in 1 .. N PROVE f[k] = f[k - 1] + r[idx[k]]
  <2>1. k \in 0 .. N /\ k - 1 \in 0 .. N /\ k \notin 1 .. k - 1 /\ \A p \in 1 .. k - 1 : p \in 1 .. N
    BY <1>1
  <2>2. \A p : p \in 1 .. k <=> p \in 1 .. k - 1 \/ p = k
    BY <1>1
  <2>3. U(k) = U(k - 1) \cup {idx[k]}
    BY <2>2
  <2>4. \A p \in 1 .. k - 1 : idx[p] # idx[k]
    BY <1>1, <2>1 DEF IsInjective
  <2>5. idx[k] \notin U(k - 1)
    BY <2>4
  <2>6. U(k - 1) \in SUBSET Concepts /\ idx[k] \in Concepts
    BY <1>1, <1>5, <2>1
  <2>7. s[U(k - 1)] \in Nat /\ r[idx[k]] \in Nat
    BY <1>1, <1>3, <2>6 DEF SumsUp
  <2>8. f[k] = s[U(k)] /\ f[k - 1] = s[U(k - 1)]
    BY <2>1
  <2> HIDE DEF U, f
  <2>9. s[U(k - 1) \cup {idx[k]}] = r[idx[k]] + s[U(k - 1)]
    BY <1>3, <2>5, <2>6, SumOfOneMore
  <2>10. QED
    BY <2>3, <2>7, <2>8, <2>9
<1>9. f[N] = Whole(r)
  <2>1. U(N) = Concepts /\ N \in 0 .. N
    BY <1>1
  <2>2. QED
    BY <1>4, <2>1
<1>10. QED
  BY <1>6, <1>7, <1>8, <1>9

\* If one of them is not zero, the sum is not zero.
LEMMA WholeNotZero ==
  ASSUME NEW r, NEW idx, Ordered(r, idx)
  PROVE  Whole(r) \in Nat /\ \A c \in Concepts : r[c] <= Whole(r)
<1>1. /\ r \in [Concepts -> Nat] /\ IsFiniteSet(Concepts)
  BY ConceptsFinite DEF Ordered
<1>2. PICK s : PicksOne(s, r, Concepts)
  BY <1>1, SumExists
<1>3. SumsUp(s, r, Concepts)
  BY <1>1, <1>2, SumsInAnyOrder
<1>4. Whole(r) = s[Concepts]
  <2>1. Concepts \in SUBSET Concepts
    OBVIOUS
  <2>2. Total(r, Concepts) = s[Concepts]
    BY <1>1, <1>3, <2>1, TotalIsSum
  <2>3. QED
    BY <2>2 DEF Whole, Total
<1>5. s[Concepts] \in Nat
  BY <1>3 DEF SumsUp
<1>6. ASSUME NEW c \in Concepts PROVE r[c] <= s[Concepts]
  <2>1. s[Concepts] = r[c] + s[Concepts \ {c}] /\ s[Concepts \ {c}] \in Nat /\ r[c] \in Nat
    BY <1>1, <1>3 DEF SumsUp
  <2>2. QED
    BY <2>1
<1>7. QED
  BY <1>4, <1>5, <1>6

-----------------------------------------------------------------------------
(* vsampling_t::init.                                                      *)

\* The variables of the loop.
LoopState == [iv : Seq(Interval), left : Nat, accum : Nat]
LoopBegin == [iv |-> <<>>, left |-> 0, accum |-> 0]

\* A step of the loop keeps its shape.
LEMMA InitStepOK ==
  ASSUME NEW r, NEW idx, Ordered(r, idx), NEW one \in Nat, NEW B \in Nat, NEW acc \in LoopState, NEW k \in 1 .. N
  PROVE  InitStep(r, one, B, idx, acc, k) \in LoopState
<1>1. k - 1 \in Nat /\ r[idx[k]] \in Nat
  BY ConceptsMany DEF Ordered
<1>2. acc.iv \in Seq(Interval) /\ acc.left \in Nat /\ acc.accum \in Nat
  BY DEF LoopState
<1>3. [left |-> acc.left, right |-> k - 1, share |-> 1] \in Interval
  BY <1>1, <1>2 DEF Interval
<1>4. [iv |-> Append(acc.iv, [left |-> acc.left, right |-> k - 1, share |-> 1]),
       left |-> k - 1, accum |-> 0] \in LoopState
  BY <1>1, <1>2, <1>3, AppendProperties DEF LoopState
<1>5. [acc EXCEPT !.accum = acc.accum + r[idx[k]]] \in LoopState
  BY <1>1, <1>2 DEF LoopState
<1>6. QED
  BY <1>4, <1>5 DEF InitStep

\* The loop goes from vertex to vertex.
Looped(f, r, one, B, idx) ==
  f[0] = LoopBegin /\ \A k \in 1 .. N : f[k] = InitStep(r, one, B, idx, f[k - 1], k)

\* And nothing but that is the loop.
LEMMA LoopUnfolds ==
  ASSUME NEW r, NEW idx, Ordered(r, idx), NEW one \in Nat, NEW B \in Nat
  PROVE  \E f \in [0 .. N -> LoopState] : Looped(f, r, one, B, idx) /\ Loop(r, one, B, idx) = f[N].iv
<1> DEFINE sq == [k \in 1 .. N |-> k]
           H == [k \in 1 .. N |-> [x \in LoopState |-> InitStep(r, one, B, idx, x, k)]]
           E(fs) == fs = [S \in SUBSET (DOMAIN sq) |->
                            IF S = {} THEN LoopBegin ELSE InitStep(r, one, B, idx, fs[S \ {Max(S)}], sq[Max(S)])]
<1>1. N \in Nat /\ DOMAIN sq = 1 .. N /\ \A k \in 1 .. N : sq[k] = k
  BY ConceptsMany
<1>2. H \in [1 .. N -> [LoopState -> LoopState]]
      /\ \A k \in 1 .. N : \A x \in LoopState : H[k][x] = InitStep(r, one, B, idx, x, k)
  BY InitStepOK
<1>3. LoopBegin \in LoopState
  <2>1. <<>> \in Seq(Interval)
    BY EmptySeq
  <2>2. QED
    BY <2>1 DEF LoopBegin, LoopState
<1> HIDE DEF H
<1>4. PICK fs \in [SUBSET (1 .. N) -> LoopState] : Folds(fs, LoopBegin, H, N)
  BY <1>1, <1>2, <1>3, FoldsExist
<1>5. E(fs)
  <2>1. ASSUME NEW S \in SUBSET (1 .. N), S # {}
        PROVE  fs[S] = InitStep(r, one, B, idx, fs[S \ {Max(S)}], sq[Max(S)])
    <3>1. Max(S) \in 1 .. N /\ S \ {Max(S)} \in SUBSET (1 .. N)
      BY <1>1, <2>1, MaxOfSome
    <3>2. fs[S] = H[Max(S)][fs[S \ {Max(S)}]]
      BY <1>4, <2>1 DEF Folds
    <3>3. fs[S \ {Max(S)}] \in LoopState
      BY <1>4, <3>1
    <3>4. sq[Max(S)] = Max(S)
      BY <3>1
    <3> HIDE DEF sq
    <3>5. QED
      BY <1>2, <3>1, <3>2, <3>3, <3>4
  <2>2. fs[{}] = LoopBegin
    BY <1>4 DEF Folds
  <2>3. fs = [S \in SUBSET (1 .. N) |-> fs[S]]
    BY <1>4
  <2> HIDE DEF sq
  <2>4. fs = [S \in SUBSET (1 .. N) |->
                IF S = {} THEN LoopBegin ELSE InitStep(r, one, B, idx, fs[S \ {Max(S)}], sq[Max(S)])]
    BY <2>1, <2>2, <2>3
  <2>5. QED
    BY <1>1, <2>4
<1>6. Loop(r, one, B, idx) = (CHOOSE f : E(f))[DOMAIN sq].iv
  BY DEF Loop, FoldLeft, MapThenFoldSet, LoopBegin
<1>7. E(CHOOSE f : E(f))
  <2> HIDE DEF E
  <2> QED BY <1>5
<1>8. PICK d : E(d) /\ Loop(r, one, B, idx) = d[DOMAIN sq].iv
  <2> HIDE DEF E
  <2> QED BY <1>6, <1>7
<1> HIDE DEF sq
<1>9. \A S \in SUBSET (1 .. N) :
        d[S] = IF S = {} THEN LoopBegin ELSE InitStep(r, one, B, idx, d[S \ {Max(S)}], sq[Max(S)])
  BY <1>1, <1>8
<1>10. d[{}] = LoopBegin
  BY <1>9
<1>11. ASSUME NEW S \in SUBSET (1 .. N), S # {}, d[S \ {Max(S)}] \in LoopState
       PROVE  d[S] = H[Max(S)][d[S \ {Max(S)}]]
  <2>1. Max(S) \in 1 .. N
    BY <1>1, <1>11, MaxOfSome
  <2>2. sq[Max(S)] = Max(S)
    BY <1>1, <2>1
  <2>3. d[S] = InitStep(r, one, B, idx, d[S \ {Max(S)}], Max(S))
    BY <1>9, <1>11, <2>2
  <2>4. QED
    BY <1>2, <1>11, <2>1, <2>3
<1>12. PICK f \in [0 .. N -> LoopState] : Applies(f, LoopBegin, H, N)
  BY <1>1, <1>2, <1>3, AppliesExist
<1>13. d[1 .. N] = f[N]
  <2>1. FoldsIn(d, LoopBegin, H, N, LoopState)
    BY <1>10, <1>11 DEF FoldsIn
  <2> HIDE DEF E
  <2>2. H \in [1 .. N -> [LoopState -> LoopState]]
    BY <1>2
  <2>3. Agrees(d, f, N)
    BY <1>1, <1>3, <1>12, <2>1, <2>2, FoldIsApplied
  <2>4. QED
    BY <2>3 DEF Agrees
<1>14. Looped(f, r, one, B, idx)
  <2>1. \A k \in 1 .. N : k - 1 \in 0 .. N
    BY <1>1
  <2>2. \A k \in 1 .. N : f[k] = InitStep(r, one, B, idx, f[k - 1], k)
    BY <1>2, <1>12, <2>1 DEF Applies
  <2>3. QED
    BY <1>12, <2>2 DEF Looped, Applies
<1>15. Loop(r, one, B, idx) = f[N].iv
  BY <1>1, <1>8, <1>13
<1>16. QED
  BY <1>14, <1>15

\* Some vertex has more than its part of the ranks.
Heavy(r, one, B) == \E c \in Concepts : r[c] * B > one

\* The intervals follow one another from 0 to end, and one without vertices is there
\* only if a vertex is too heavy for it.
Follow(iv, end, r, one, B) ==
  /\ IF iv = <<>> THEN end = 0 ELSE iv[1].left = 0 /\ iv[Len(iv)].right = end
  /\ \A p \in 1 .. Len(iv) - 1 : iv[p].right = iv[p + 1].left
  /\ \A p \in 1 .. Len(iv) : iv[p].left <= iv[p].right /\ (iv[p].left = iv[p].right => Heavy(r, one, B))

\* The loop after k vertices; sums are those of the ranks in their order.
LoopInv(x, r, one, B, sums, k) ==
  /\ Follow(x.iv, x.left, r, one, B)
  /\ x.left <= k /\ (k > 0 => x.left < k) /\ (k = 0 => x.accum = 0)
  /\ x.iv = <<>> /\ B # 0 => x.accum = sums[k] /\ (k > 0 => x.accum * B <= one)
  /\ x.iv # <<>> => sums[k] * B > one

\* One interval more.
LEMMA FollowMore ==
  ASSUME NEW r, NEW one, NEW B, NEW iv \in Seq(Interval), NEW end, Follow(iv, end, r, one, B),
         NEW x \in Interval, x.left = end, x.left <= x.right, x.left = x.right => Heavy(r, one, B)
  PROVE  Follow(Append(iv, x), x.right, r, one, B)
<1>1. PICK n \in Nat : n = Len(iv)
  BY ElementsAreMembers
<1>2. PICK q \in Seq(Interval) : q = Append(iv, x)
  BY AppendProperties
<1>3. /\ q # <<>> /\ Len(q) = n + 1 /\ q[n + 1] = x
      /\ \A p \in 1 .. n : q[p] = iv[p]
  BY <1>1, <1>2, ElementsOfAppend
<1>4. q[1].left = 0
  <2>1. CASE iv = <<>>
    <3>1. n = 0
      BY <1>1, <2>1, ElementsAreMembers
    <3>2. q[1] = x /\ end = 0
      BY <1>3, <2>1, <3>1 DEF Follow
    <3>3. QED
      BY <3>2
  <2>2. CASE iv # <<>>
    <3>1. 1 \in 1 .. n
      BY <1>1, <2>2, ElementsAreMembers
    <3>2. QED
      BY <1>3, <2>2, <3>1 DEF Follow
  <2>3. QED
    BY <2>1, <2>2
<1>5. \A p \in 1 .. Len(q) - 1 : q[p].right = q[p + 1].left
  <2> TAKE p \in 1 .. Len(q) - 1
  <2>1. p \in 1 .. n
    BY <1>1, <1>3
  <2>2. CASE p = n
    <3>1. iv # <<>>
      BY <1>1, <2>1, ElementsAreMembers
    <3>2. iv[n].right = end
      BY <1>1, <3>1 DEF Follow
    <3>3. QED
      BY <1>3, <2>1, <2>2, <3>2
  <2>3. CASE p # n
    <3>1. p \in 1 .. n - 1 /\ p + 1 \in 1 .. n
      BY <1>1, <2>1, <2>3
    <3>2. iv[p].right = iv[p + 1].left
      BY <1>1, <3>1 DEF Follow
    <3>3. QED
      BY <1>3, <2>1, <3>1, <3>2
  <2>4. QED
    BY <2>2, <2>3
<1>6. \A p \in 1 .. Len(q) : q[p].left <= q[p].right /\ (q[p].left = q[p].right => Heavy(r, one, B))
  <2> TAKE p \in 1 .. Len(q)
  <2>1. CASE p = n + 1
    BY <1>3, <2>1
  <2>2. CASE p # n + 1
    <3>1. p \in 1 .. n
      BY <1>1, <1>3, <2>2
    <3>2. QED
      BY <1>1, <1>3, <3>1 DEF Follow
  <2>3. QED
    BY <2>1, <2>2
<1>7. q[Len(q)].right = x.right
  BY <1>3
<1>8. QED
  BY <1>2, <1>3, <1>4, <1>5, <1>6, <1>7 DEF Follow

\* A vertex does not fit in an interval that is just begun only if it is heavy.
LEMMA LoopInvStep ==
  ASSUME NEW r, NEW idx, Ordered(r, idx), NEW one \in Nat, NEW B \in Nat \ {0},
         NEW sums \in [0 .. N -> Nat], \A p \in 1 .. N : sums[p] = sums[p - 1] + r[idx[p]],
         NEW k \in 1 .. N, NEW x \in LoopState, LoopInv(x, r, one, B, sums, k - 1)
  PROVE  LoopInv(InitStep(r, one, B, idx, x, k), r, one, B, sums, k)
<1>1. /\ k \in Nat /\ k - 1 \in Nat /\ k > 0 /\ r[idx[k]] \in Nat /\ idx[k] \in Concepts
  <2>1. N \in Nat \ {0} /\ r \in [Concepts -> Nat] /\ idx \in [1 .. N -> Concepts]
    BY ConceptsMany DEF Ordered
  <2>2. k \in Nat /\ k - 1 \in Nat /\ k > 0
    BY <2>1
  <2>3. idx[k] \in Concepts
    BY <2>1
  <2>4. QED
    BY <2>1, <2>2, <2>3
<1>2. x.iv \in Seq(Interval) /\ x.left \in Nat /\ x.accum \in Nat
  BY DEF LoopState
<1>3. /\ Follow(x.iv, x.left, r, one, B)
      /\ x.left <= k - 1 /\ (k - 1 > 0 => x.left < k - 1) /\ (k - 1 = 0 => x.accum = 0)
      /\ x.iv = <<>> => x.accum = sums[k - 1]
      /\ x.iv # <<>> => sums[k - 1] * B > one
  BY DEF LoopInv
<1>4. x.iv # <<>> => sums[k] * B > one
  <2>1. sums[k - 1] \in Nat /\ sums[k] \in Nat /\ sums[k - 1] <= sums[k]
    <3>1. k \in 0 .. N /\ k - 1 \in 0 .. N
      BY ConceptsMany
    <3>2. sums[k - 1] \in Nat /\ sums[k] \in Nat /\ sums[k] = sums[k - 1] + r[idx[k]]
      BY <3>1
    <3>3. QED
      BY <1>1, <3>2
  <2>2. \A p, q, c, o \in Nat : p <= q /\ p * c > o => q * c > o
    <3> TAKE p, q, c, o \in Nat
    <3> HAVE p <= q /\ p * c > o
    <3>1. PICK d \in Nat : q = p + d
      <4>1. q - p \in Nat /\ q = p + (q - p)
        OBVIOUS
      <4>2. QED
        BY <4>1
    <3>2. q * c = p * c + d * c /\ d * c \in Nat /\ p * c \in Nat
      BY <3>1
    <3>3. QED
      BY <3>2
  <2>3. QED
    BY <1>3, <2>1, <2>2
<1>5. PICK sum \in Nat : sum = x.accum + r[idx[k]]
  BY <1>1, <1>2
<1>6. CASE Len(x.iv) = B
  <2>1. InitStep(r, one, B, idx, x, k) = x
    BY <1>6 DEF InitStep
  <2>2. x.left <= k /\ x.left < k /\ k # 0
    BY <1>1, <1>2, <1>3
  <2>3. ~ (x.iv = <<>> /\ B # 0)
    BY <1>2, <1>6, ElementsAreMembers
  <2>4. QED
    BY <1>3, <1>4, <2>1, <2>2, <2>3 DEF LoopInv
<1>7. CASE Len(x.iv) # B /\ sum * B > one
  <2> DEFINE e == [left |-> x.left, right |-> k - 1, share |-> 1]
             y == [iv |-> Append(x.iv, e), left |-> k - 1, accum |-> 0]
  <2>1. InitStep(r, one, B, idx, x, k) = y
    BY <1>5, <1>7 DEF InitStep
  <2>2. e \in Interval /\ e.left = x.left /\ e.right = k - 1
    BY <1>1, <1>2 DEF Interval
  <2>3. e.left <= e.right
    BY <1>3, <2>2
  <2>4. e.left = e.right => Heavy(r, one, B)
    <3> HAVE e.left = e.right
    <3>1. k - 1 = 0
      BY <1>1, <1>2, <1>3
    <3>2. sum = r[idx[k]]
      BY <1>1, <1>3, <1>5, <3>1
    <3>3. QED
      BY <1>1, <1>7, <3>2 DEF Heavy
  <2>5. Append(x.iv, e) # <<>>
    BY <1>2, <2>2, ElementsOfAppend
  <2>6. y.iv = Append(x.iv, e) /\ y.left = k - 1
    OBVIOUS
  <2> HIDE DEF e
  <2>7. Follow(Append(x.iv, e), e.right, r, one, B)
    BY <1>2, <1>3, <2>2, <2>3, <2>4, FollowMore
  <2>8. k - 1 <= k /\ k - 1 < k /\ k # 0
    BY <1>1
  <2>9. sums[k] * B > one
    <3>1. CASE x.iv = <<>>
      <4>1. sum = sums[k]
        BY <1>3, <1>5, <3>1
      <4>2. QED
        BY <1>7, <4>1
    <3>2. QED
      BY <1>4, <3>1
  <2> HIDE DEF y
  <2>10. QED
    BY <2>1, <2>2, <2>5, <2>6, <2>7, <2>8, <2>9 DEF LoopInv
<1>8. CASE Len(x.iv) # B /\ ~ (sum * B > one)
  <2> DEFINE y == [x EXCEPT !.accum = sum]
  <2>1. InitStep(r, one, B, idx, x, k) = y
    BY <1>5, <1>8 DEF InitStep
  <2>2. y.iv = x.iv /\ y.left = x.left /\ y.accum = sum
    BY DEF LoopState
  <2>3. sum * B <= one
    <3>1. \A a, b \in Nat : ~ (a > b) => a <= b
      OBVIOUS
    <3>2. \A a, b \in Nat : a * b \in Nat
      OBVIOUS
    <3>3. QED
      BY <1>5, <1>8, <3>1, <3>2
  <2>4. x.iv = <<>> => sum = sums[k]
    BY <1>3, <1>5
  <2>5. x.left <= k /\ x.left < k /\ k # 0
    BY <1>1, <1>2, <1>3
  <2> HIDE DEF y
  <2>6. QED
    BY <1>3, <1>4, <2>1, <2>2, <2>3, <2>4, <2>5 DEF LoopInv
<1>9. QED
  BY <1>6, <1>7, <1>8

\* The loop after all of them.
LEMMA LoopEnds ==
  ASSUME NEW r, NEW idx, Ordered(r, idx), NEW one \in Nat, NEW B \in Nat \ {0}
  PROVE  \E end \in 0 .. N - 1 :
           /\ Loop(r, one, B, idx) \in Seq(Interval) /\ Follow(Loop(r, one, B, idx), end, r, one, B)
           /\ Loop(r, one, B, idx) = <<>> <=> Whole(r) * B <= one
<1>1. PICK f \in [0 .. N -> LoopState] : Looped(f, r, one, B, idx) /\ Loop(r, one, B, idx) = f[N].iv
  BY LoopUnfolds
<1>2. PICK sums \in [0 .. N -> Nat] : /\ sums[0] = 0 /\ \A k \in 1 .. N : sums[k] = sums[k - 1] + r[idx[k]]
                                      /\ sums[N] = Whole(r)
  BY WholeIsSum
<1>3. N \in Nat \ {0} /\ N \in 0 .. N
  BY ConceptsMany
<1> DEFINE P == {k \in Nat : LoopInv(f[k], r, one, B, sums, k)}
<1>4. 0 \in P
  <2>1. f[0] = LoopBegin /\ LoopBegin.iv = <<>> /\ LoopBegin.left = 0 /\ LoopBegin.accum = 0
    BY <1>1 DEF Looped, LoopBegin
  <2>2. Follow(<<>>, 0, r, one, B)
    <3>1. Len(<<>>) = 0 /\ \A p \in 1 .. 0 : FALSE
      BY EmptySeq
    <3>2. \A p \in 1 .. 0 - 1 : FALSE
      OBVIOUS
    <3>3. QED
      BY <3>1, <3>2 DEF Follow
  <2>3. QED
    BY <1>2, <2>1, <2>2 DEF LoopInv
<1>5. ASSUME NEW k \in 0 .. N - 1, k \in P PROVE k + 1 \in P
  <2>1. k + 1 \in 1 .. N /\ (k + 1) - 1 = k /\ k + 1 \in Nat /\ k \in 0 .. N
    BY <1>3
  <2>2. PICK x \in LoopState : x = f[k]
    BY <1>1, <2>1
  <2>3. PICK m \in 1 .. N : m = k + 1
    BY <2>1
  <2>4. LoopInv(x, r, one, B, sums, m - 1)
    BY <1>5, <2>1, <2>2, <2>3
  <2>5. LoopInv(InitStep(r, one, B, idx, x, m), r, one, B, sums, m)
    BY <1>2, <2>4, LoopInvStep
  <2>6. f[m] = InitStep(r, one, B, idx, x, m)
    BY <1>1, <2>1, <2>2, <2>3 DEF Looped
  <2>7. QED
    BY <2>1, <2>3, <2>5, <2>6
<1>6. N \in P
  <2> HIDE DEF P
  <2> QED BY <1>3, <1>4, <1>5, CountingUp
<1>7. f[N] \in LoopState /\ LoopInv(f[N], r, one, B, sums, N)
  BY <1>1, <1>3, <1>6
<1>8. f[N].left \in 0 .. N - 1
  BY <1>3, <1>7 DEF LoopInv, LoopState
<1>9. PICK q \in Seq(Interval) : q = f[N].iv
  BY <1>7 DEF LoopState
<1>10. Follow(q, f[N].left, r, one, B)
  BY <1>7, <1>9 DEF LoopInv
<1>11. q = <<>> <=> Whole(r) * B <= one
  <2>1. PICK v \in Nat : v = Whole(r) /\ v = sums[N] /\ v * B \in Nat
    BY <1>2, <1>3
  <2>2. q = <<>> => v * B <= one
    BY <1>3, <1>7, <1>9, <2>1 DEF LoopInv
  <2>3. q # <<>> => v * B > one
    BY <1>7, <1>9, <2>1 DEF LoopInv
  <2>4. QED
    BY <2>1, <2>2, <2>3
<1>12. QED
  BY <1>1, <1>8, <1>9, <1>10, <1>11

\* An interval without vertices is there only if a vertex is too heavy for it.
FilledBut(iv, r, one, B) ==
  \A k \in 1 .. Len(iv) : iv[k].left = iv[k].right => Heavy(r, one, B)

\* The sampler over ranks divides the vertices, and has no interval at all if all ranks
\* together have no more than one of B parts.
LEMMA BucketsDivide ==
  ASSUME NEW r \in [Concepts -> Nat], NEW idx \in ByRank(r), NEW one \in Nat,
         NEW B \in Nat \ {0}
  PROVE  /\ Loop(r, one, B, idx) = <<>> <=> Whole(r) * B <= one
         /\ Loop(r, one, B, idx) # <<>> =>
              Divided(idx, Buckets(r, one, B, idx)) /\ FilledBut(Buckets(r, one, B, idx), r, one, B)
<1>1. Ordered(r, idx) /\ idx \in Seq(Concepts) /\ ToSet(idx) = Concepts /\ Len(idx) = N
  BY ByRankOrders
<1>2. PICK end \in 0 .. N - 1 :
           /\ Loop(r, one, B, idx) \in Seq(Interval) /\ Follow(Loop(r, one, B, idx), end, r, one, B)
           /\ Loop(r, one, B, idx) = <<>> <=> Whole(r) * B <= one
  BY <1>1, LoopEnds
<1>3. N \in Nat \ {0}
  BY ConceptsMany
<1>4. Loop(r, one, B, idx) = <<>> <=> Whole(r) * B <= one
  BY <1>2
<1>5. ASSUME Loop(r, one, B, idx) # <<>>
      PROVE  Divided(idx, Buckets(r, one, B, idx)) /\ FilledBut(Buckets(r, one, B, idx), r, one, B)
  <2>1. PICK lp \in Seq(Interval) : lp = Loop(r, one, B, idx) /\ lp # <<>> /\ Follow(lp, end, r, one, B)
    BY <1>2, <1>5
  <2>2. PICK n \in Nat : n = Len(lp) /\ DOMAIN lp = 1 .. n /\ n # 0 /\ \A k \in 1 .. n : lp[k] \in Interval
    BY <2>1, ElementsAreMembers
  <2>3. n \in 1 .. n /\ 1 \in 1 .. n
    BY <2>2
  <2> DEFINE last == [lp[n] EXCEPT !.right = N]
  <2>4. Buckets(r, one, B, idx) = [lp EXCEPT ![n] = last]
    BY <2>1, <2>2 DEF Buckets
  <2>5. last \in Interval /\ last.left = lp[n].left /\ last.right = N
    BY <1>3, <2>2, <2>3 DEF Interval
  <2> HIDE DEF last
  <2>6. PICK iv : iv = Buckets(r, one, B, idx)
    OBVIOUS
  <2>7. lp \in [1 .. n -> Interval]
    BY <2>1, <2>2, SeqDef, LenProperties
  <2>8. iv \in [1 .. n -> Interval] /\ iv[n] = last /\ \A k \in 1 .. n : k # n => iv[k] = lp[k]
    BY <2>3, <2>4, <2>5, <2>6, <2>7
  <2>9. iv \in Seq(Interval) /\ Len(iv) = n
    BY <2>2, <2>8, FunctionAsSeq
  <2>10. \A k \in 1 .. n : iv[k].left = lp[k].left /\ iv[k].left \in Nat /\ iv[k].right \in Nat
    <3> TAKE k \in 1 .. n
    <3>1. iv[k].left = lp[k].left
      BY <2>5, <2>8
    <3>2. iv[k] \in Interval
      BY <2>8
    <3>3. QED
      BY <3>1, <3>2 DEF Interval
  <2>11. iv[1].left = 0 /\ iv[n].right = N
    BY <2>1, <2>3, <2>5, <2>8, <2>10 DEF Follow
  <2>12. \A k \in 1 .. n - 1 : iv[k].right = iv[k + 1].left
    <3> TAKE k \in 1 .. n - 1
    <3>1. k \in 1 .. n /\ k # n /\ k + 1 \in 1 .. n
      BY <2>2
    <3>2. lp[k].right = lp[k + 1].left
      BY <2>1, <2>2 DEF Follow
    <3>3. QED
      BY <2>8, <2>10, <3>1, <3>2
  <2>13. \A k \in 1 .. n : iv[k].left = iv[k].right => Heavy(r, one, B)
    <3> TAKE k \in 1 .. n
    <3>1. CASE k = n
      <4>1. lp[n].left <= lp[n].right /\ lp[n].right = end
        BY <2>1, <2>2, <2>3 DEF Follow
      <4>2. iv[n].left < N
        BY <1>3, <2>3, <2>10, <4>1
      <4>3. QED
        BY <2>11, <3>1, <4>2, <1>3, <2>3, <2>10
    <3>2. CASE k # n
      BY <2>1, <2>2, <2>8, <3>2 DEF Follow
    <3>3. QED
      BY <3>1, <3>2
  <2>14. iv # <<>>
    BY <2>2, <2>9, ElementsAreMembers
  <2>15. QED
    BY <1>1, <2>6, <2>9, <2>11, <2>12, <2>13, <2>14 DEF Divided, FilledBut
<1>6. QED
  BY <1>4, <1>5

-----------------------------------------------------------------------------
(* Priors.                                                                 *)

\* What a word adds to how often its concept is used.
Uses(x) == IF opt.weight THEN x.w ELSE 1

\* It is a number, not less than what one of the words adds.
LEMMA PriorIsSum ==
  ASSUME NEW c, IsFiniteSet(WordsOf(c)), \A x \in WordsOf(c) : x.w \in Nat \ {0}
  PROVE  Prior(c) \in Nat /\ \A x \in WordsOf(c) : Uses(x) <= Prior(c) /\ Uses(x) \in Nat \ {0}
<1>1. PICK S : S = WordsOf(c)
  OBVIOUS
<1>2. IsFiniteSet(S) /\ \A x \in S : Uses(x) \in Nat \ {0}
  BY <1>1 DEF Uses
<1> DEFINE E(f) == f = [A \in SUBSET S |->
             IF A = {} THEN 0
             ELSE (IF opt.weight THEN (CHOOSE x \in A : TRUE).w ELSE 1) + f[A \ {CHOOSE x \in A : TRUE}]]
           H == [x \in S |-> Uses(x)]
<1>3. H \in [S -> Nat]
  BY <1>2
<1>4. PICK h : PicksOne(h, H, S)
  <2> HIDE DEF H
  <2> QED BY <1>2, <1>3, SumExists
<1>5. E(h)
  <2>1. \A A \in SUBSET S : A # {} => (CHOOSE x \in A : TRUE) \in S
    OBVIOUS
  <2>2. QED
    BY <1>4, <2>1 DEF PicksOne, Uses
<1>6. Prior(c) = (CHOOSE f : E(f))[S]
  BY <1>1 DEF Prior, MapThenSumSet, MapThenFoldSet
<1>7. E(CHOOSE f : E(f))
  <2> HIDE DEF E
  <2> QED BY <1>5
<1>8. PICK f : E(f) /\ Prior(c) = f[S]
  BY <1>6, <1>7
<1>9. PicksOne(f, H, S)
  <2>1. \A A \in SUBSET S : A # {} => (CHOOSE x \in A : TRUE) \in S
    OBVIOUS
  <2>2. QED
    BY <1>8, <2>1 DEF PicksOne, Uses
<1>10. \A x \in S : H[x] = Uses(x)
  OBVIOUS
<1> HIDE DEF H
<1>11. SumsUp(f, H, S)
  BY <1>2, <1>3, <1>9, SumsInAnyOrder
<1>12. f[S] \in Nat
  BY <1>11 DEF SumsUp
<1>13. \A x \in S : Uses(x) <= f[S]
  <2> TAKE x \in S
  <2>1. f[S] = H[x] + f[S \ {x}] /\ f[S \ {x}] \in Nat
    BY <1>11 DEF SumsUp
  <2>2. QED
    BY <1>2, <1>10, <2>1
<1>14. QED
  BY <1>1, <1>2, <1>8, <1>12, <1>13

\* Priors are numbers.
LEMMA PriorsAre ==
  ASSUME DictInv, WalkDict, opt.prog = "walk", stage = "ready",
         NEW r, r = [c \in Concepts |-> Prior(c)]
  PROVE  r \in [Concepts -> Nat]
<1>1. \A c : /\ IsFiniteSet(WordsOf(c))
             /\ \A x \in WordsOf(c) : x.w \in Nat \ {0}
  BY WordsMeant
<1>2. QED
  BY <1>1, PriorIsSum

-----------------------------------------------------------------------------
(* Walks.                                                                  *)

\* What a sampler is, for the options w and the ranks r.
SamplerHas(o, iv, w, r) ==
  iv # <<>> =>
    /\ Divided(o, iv) /\ FilledBut(iv, r, WholeRank(w.mode, r), w.buckets)
    /\ w.mode = "components" => Drawn(o, iv) = {<<C, Cardinality(C)>> : C \in Components}

\* The ranks together have no more than the part of one bucket.
Few(w, r) == r # None /\ Whole(r) * w.buckets <= WholeRank(w.mode, r)

\* The walk is at a concept, its sampler is that of the start, and a deep walk counts the
\* vertices of its round.
WalkInv ==
  /\ i \in Nat /\ (stage \in {"text", "alt", "ready", "disk", "failed"} => i = 0 /\ ranks = None)
  /\ stage \in {"pick", "toss", "move"} => SamplerHas(order, intervals, wo, ranks) /\ (Deep => i < N)
  /\ stage \in {"toss", "move"} => at \in Concepts
  /\ TokensOwn
  /\ stage = "aborted" => Heavy(ranks, WholeRank(wo.mode, ranks), wo.buckets)
  /\ ranks # None => (stage = "undefined" <=> Few(wo, ranks))

\* What the start of the walks makes.
Started ==
  /\ stage' \in {"pick", "undefined"}
  /\ ranks' # None => (stage' = "undefined" <=> Few(wo', ranks'))
  /\ SamplerHas(order', intervals', wo', ranks')

\* A walk over ranks.
LEMMA BucketsRight ==
  ASSUME NEW r \in [Concepts -> Nat], wo' \in WalkOptions, wo'.buckets > 0,
         wo'.mode # "components", WithBuckets(r)
  PROVE  Started
<1>1. PICK w \in WalkOptions : w = wo'
  OBVIOUS
<1>2. PICK B \in Nat \ {0} : B = w.buckets
  BY <1>1, WalkAssumption
<1>3. PICK idx \in ByRank(r) : idx = order'
  BY DEF WithBuckets
<1>4. ranks' = r
  BY DEF WithBuckets
<1>5. PICK one \in Nat : one = WholeRank(w.mode, r)
  <2>1. Ordered(r, idx)
    BY ByRankOrders
  <2>2. Whole(r) \in Nat
    BY <2>1, WholeNotZero
  <2>3. QED
    BY <2>2, WalkAssumption DEF WholeRank
<1>6. Loop(r, one, B, idx) = <<>> <=> Whole(r) * B <= one
  BY BucketsDivide
<1>7. one = WholeRank(wo'.mode, r)
  BY <1>1, <1>5
<1>8. CASE Loop(r, one, B, idx) = <<>>
  <2>1. stage' = "undefined" /\ intervals' = <<>>
    BY <1>1, <1>2, <1>3, <1>7, <1>8 DEF WithBuckets
  <2>2. r # None => Few(w, r)
    BY <1>2, <1>5, <1>6, <1>8 DEF Few
  <2>3. QED
    BY <1>1, <1>4, <2>1, <2>2 DEF SamplerHas, Started
<1>9. CASE Loop(r, one, B, idx) # <<>>
  <2>1. stage' = "pick" /\ intervals' = Buckets(r, one, B, idx)
    BY <1>1, <1>2, <1>3, <1>7, <1>9 DEF WithBuckets
  <2>2. Divided(idx, Buckets(r, one, B, idx)) /\ FilledBut(Buckets(r, one, B, idx), r, one, B)
    BY <1>9, BucketsDivide
  <2>3. ~ Few(w, r)
    BY <1>2, <1>5, <1>6, <1>9 DEF Few
  <2>4. w.mode # "components"
    BY <1>1
  <2>5. SamplerHas(idx, Buckets(r, one, B, idx), w, r)
    BY <1>2, <1>5, <2>2, <2>4 DEF SamplerHas
  <2>6. QED
    BY <1>1, <1>3, <1>4, <2>1, <2>3, <2>5 DEF Started
<1>10. QED
  BY <1>8, <1>9

\* The start of the walks.
LEMMA StartRight ==
  ASSUME DictInv, WalkDict, StartWalks
  PROVE  Started
<1>1. stage = "ready" /\ opt.prog = "walk" /\ wo' \in WalkOptions
  BY DEF StartWalks
<1>2. ASSUME wo'.mode = "static", wo'.buckets > 0, NEW r \in RankVectors, WithBuckets(r)
      PROVE  Started
  <2>1. r \in [Concepts -> Nat]
    BY WalkAssumption
  <2>2. wo'.mode # "components"
    BY <1>2
  <2>3. QED
    BY <1>1, <1>2, <2>1, <2>2, BucketsRight
<1>3. ASSUME wo'.mode = "prior", wo'.buckets > 0, WithBuckets([c \in Concepts |-> Prior(c)])
      PROVE  Started
  <2>0. PICK r : r = [c \in Concepts |-> Prior(c)] /\ WithBuckets(r)
    BY <1>3
  <2>1. r \in [Concepts -> Nat]
    BY <1>1, <2>0, PriorsAre
  <2>2. wo'.mode # "components"
    BY <1>3
  <2>3. QED
    BY <1>1, <1>3, <2>0, <2>1, <2>2, BucketsRight
<1>4. ASSUME NEW cs \in ComponentOrders, order' = FlattenSeq([k \in DOMAIN cs |-> SetToSeq(cs[k])]),
             intervals' = ComponentIntervals(cs), stage' = "pick", ranks' = None
      PROVE  Started
  <2>1. PICK o, iv : o = order' /\ iv = intervals'
    OBVIOUS
  <2>2. /\ Divided(o, iv)
        /\ \A k \in 1 .. Len(iv) : iv[k].left < iv[k].right
        /\ Drawn(o, iv) = {<<C, Cardinality(C)>> : C \in Components}
    BY <1>4, <2>1, ComponentsDivide
  <2>3. \A k \in 1 .. Len(iv) : iv[k].left # iv[k].right
    <3> TAKE k \in 1 .. Len(iv)
    <3>1. iv[k] \in Interval
      BY <2>2, ElementsAreMembers DEF Divided
    <3>2. iv[k].left \in Nat /\ iv[k].right \in Nat
      BY <3>1 DEF Interval
    <3>3. QED
      BY <2>2, <3>2
  <2>4. \A r, one, B : FilledBut(iv, r, one, B)
    BY <2>3 DEF FilledBut
  <2>5. QED
    BY <1>4, <2>1, <2>2, <2>4 DEF SamplerHas, Started
<1>5. CASE WithoutIntervals
  BY <1>5 DEF WithoutIntervals, SamplerHas, Started
<1>6. QED
  BY <1>2, <1>3, <1>4, <1>5 DEF StartWalks

\* A context begins at a concept.
LEMMA NextRight ==
  ASSUME DictInv, WalkDict, WalkInv, NextContext
  PROVE  at' \in Concepts /\ stage' = "toss" /\ UNCHANGED <<dictVars, wo, ranks, order, intervals, i>>
<1>1. stage = "pick" /\ opt.prog = "walk"
  BY DEF NextContext, WalkDict
<1>2. PICK v : Begin(v) /\ \/ Deep /\ v = Names[i + 1]
                           \/ \E k \in Outcomes(SeedWeights, SeedTotal) : v = SeedItems[k].c
                           \/ v \in Concepts
                           \/ \E b \in DOMAIN intervals, k \in 1 .. N : v = order[k]
  BY DEF NextContext
<1>3. v \in Concepts
  <2>1. CASE Deep /\ v = Names[i + 1]
    <3>1. i + 1 \in 1 .. N
      BY <1>1, <2>1, ConceptsMany DEF WalkInv
    <3>2. QED
      BY <2>1, <3>1, ConceptsFinite, ElementsAreMembers DEF N
  <2>2. ASSUME NEW k \in Outcomes(SeedWeights, SeedTotal), v = SeedItems[k].c PROVE v \in Concepts
    <3>1. k \in DOMAIN SeedItems
      BY DEF Outcomes, SeedWeights
    <3>2. PICK h : h = wo.seed
      OBVIOUS
    <3>3. h \in DOMAIN dict /\ SeedItems = dict[h].items
      BY <3>1, <3>2 DEF SeedItems, Entries
    <3>4. dict[h].items \in Seq(Entry) /\ ToSet(dict[h].items) \subseteq Weighted
      BY <1>1, <3>3, ItemsMeant
    <3>5. dict[h].items[k] \in Weighted
      BY <3>1, <3>3, <3>4, ElementsAreMembers
    <3>6. QED
      BY <2>2, <3>3, <3>5 DEF Weighted
  <2>3. ASSUME NEW b \in DOMAIN intervals, NEW k \in 1 .. N, v = order[k] PROVE v \in Concepts
    <3>1. intervals # <<>>
      <4>1. DOMAIN <<>> = {}
        OBVIOUS
      <4>2. QED
        BY <4>1
    <3>2. order \in Seq(Concepts) /\ Len(order) = N
      BY <1>1, <3>1 DEF WalkInv, SamplerHas, Divided
    <3>3. QED
      BY <2>3, <3>2, ElementsAreMembers
  <2>4. QED
    BY <1>2, <2>1, <2>2, <2>3
<1>4. QED
  BY <1>2, <1>3 DEF Begin

\* Vertices and words of a walk are right as long as it does not print or move.
LEMMA TokensKept ==
  ASSUME TokensOwn, UNCHANGED <<stage, at, token, wo, files, opt>>
  PROVE  TokensOwn'
<1>1. PICK f, h : f = files.text /\ h = token
  OBVIOUS
<1>2. Meant(f, h)' = Meant(f, h)
  BY MeantKept
<1>3. f = files'.text /\ h = token'
  BY <1>1
<1>4. CASE stage = "move" /\ token # None
  <2>1. \/ token = at /\ wo.emit # "words"
        \/ wo.emit # "names" /\ \E m \in Meant(f, h) : m.c = at
    BY <1>1, <1>4 DEF TokensOwn
  <2>2. \/ token' = at' /\ wo'.emit # "words"
        \/ wo'.emit # "names" /\ \E m \in Meant(f, h)' : m.c = at'
    BY <1>2, <2>1
  <2>3. QED
    BY <1>3, <2>2 DEF TokensOwn
<1>5. CASE ~ (stage = "move" /\ token # None)
  BY <1>5 DEF TokensOwn
<1>6. QED
  BY <1>4, <1>5

\* What is printed at a vertex is its own.
LEMMA EmitRight ==
  ASSUME DictInv, WalkDict, WalkInv, Emit
  PROVE  WalkInv'
<1>1. /\ stage = "toss" /\ stage' = "move" /\ opt.prog = "walk"
      /\ UNCHANGED <<files, opt, wo, ranks, order, intervals, i, at>>
  BY DEF Emit, WalkDict, dictVars
<1>2. \/ wo.emit # "words" /\ token' = at
      \/ wo.emit # "names" /\ \E m \in Meant(files.text, token') : m.c = at
      \/ token' = None
  <2>1. CASE wo.emit # "names" /\ WordsOf(at) # {}
             /\ \E d \in WordDraws(at) : \E k \in Outcomes(WordWeights(d[1]), d[2]) : token' = d[1][k].word
    <3>1. PICK d \in WordDraws(at) : \E k \in Outcomes(WordWeights(d[1]), d[2]) : token' = d[1][k].word
      BY <2>1
    <3>2. PICK k \in Outcomes(WordWeights(d[1]), d[2]) : token' = d[1][k].word
      BY <3>1
    <3>3. PICK c : c = at
      OBVIOUS
    <3>4. d \in WordDraws(c)
      BY <3>3
    <3>5. \E m \in Meant(files.text, d[1][k].word) : m.c = c
      BY <1>1, <3>4, TokenMeant
    <3>6. QED
      BY <2>1, <3>2, <3>3, <3>5
  <2>2. QED
    BY <2>1 DEF Emit
<1>3. TokensOwn'
  <2>1. PICK f, h : f = files.text /\ h = token'
    OBVIOUS
  <2>2. Meant(f, h)' = Meant(f, h)
    BY <1>1, MeantKept
  <2>3. \/ wo.emit # "words" /\ token' = at
        \/ wo.emit # "names" /\ \E m \in Meant(f, h)' : m.c = at
        \/ token' = None
    BY <1>2, <2>1, <2>2
  <2>4. f = files'.text /\ wo' = wo /\ at' = at
    BY <1>1, <2>1
  <2>5. QED
    BY <2>1, <2>3, <2>4 DEF TokensOwn
<1>4. QED
  BY <1>1, <1>3 DEF WalkInv, Deep

\* An edge leads to a concept.
LEMMA MoveRight ==
  ASSUME WalkInv, Move
  PROVE  WalkInv'
<1>1. stage = "move" /\ stage' = "toss" /\ UNCHANGED <<wo, ranks, order, intervals, i>>
  BY DEF Move
<1>2. PICK c \in Concepts : c = at
  BY <1>1 DEF WalkInv
<1>3. PICK k \in Outcomes(EdgeWeights(c), EdgeTotal(c)) : at' = Rows[c][k]
  BY <1>2 DEF Move
<1>4. k \in DOMAIN EdgeWeights(c)
  BY <1>3 DEF Outcomes
<1>5. Rows[c][k] \in Concepts
  BY <1>4, EdgesWeigh
<1>6. at' \in Concepts
  BY <1>3, <1>5
<1>7. QED
  BY <1>1, <1>6 DEF WalkInv, TokensOwn, Deep

\* Every step keeps the invariant.
LEMMA WalkStepRight ==
  IInv /\ DictInv /\ WalkDict /\ WalkInv /\ [Next]_vars => WalkInv'
<1> SUFFICES ASSUME IInv, DictInv, WalkDict, WalkInv, [Next]_vars PROVE WalkInv'
  OBVIOUS
<1>1. CASE DictNext /\ UNCHANGED walkVars
  <2>1. /\ stage \in {"text", "alt", "ready", "disk"}
        /\ stage' \in {"text", "alt", "ready", "disk", "failed"}
    BY <1>1 DEF DictNext, ReadLine, BadLine, Reading, EndText, StartAlt, EndAlt, WriteDict, LoadDict, LoadDictThrows
  <2>2. i' = i /\ ranks' = ranks
    BY <1>1 DEF walkVars
  <2>3. QED
    BY <2>1, <2>2 DEF WalkInv, TokensOwn
<1>2. CASE StartWalks
  <2>1. Started
    BY <1>2, StartRight
  <2>2. i' = 0 /\ 0 < N
    BY <1>2, ConceptsMany DEF StartWalks, WalkInv
  <2>3. QED
    BY <2>1, <2>2 DEF WalkInv, TokensOwn, Started
<1>3. CASE NextContext
  <2>1. at' \in Concepts /\ stage' = "toss" /\ UNCHANGED <<dictVars, wo, ranks, order, intervals, i>>
    BY <1>3, NextRight
  <2>2. stage = "pick"
    BY <1>3 DEF NextContext
  <2>3. QED
    BY <2>1, <2>2 DEF WalkInv, TokensOwn, Deep
<1>4. CASE SampleAborts
  <2>1. stage = "pick" /\ stage' = "aborted" /\ UNCHANGED walkVars
    BY <1>4 DEF SampleAborts
  <2>2. PICK b \in DOMAIN intervals : intervals[b].left = intervals[b].right
    BY <1>4 DEF SampleAborts
  <2>3. intervals # <<>>
    <3>1. DOMAIN <<>> = {}
      OBVIOUS
    <3>2. QED
      BY <3>1
  <2>4. Divided(order, intervals) /\ FilledBut(intervals, ranks, WholeRank(wo.mode, ranks), wo.buckets)
    BY <2>1, <2>3 DEF WalkInv, SamplerHas
  <2>5. b \in 1 .. Len(intervals)
    BY <2>4, ElementsAreMembers DEF Divided
  <2>6. Heavy(ranks, WholeRank(wo.mode, ranks), wo.buckets)
    BY <2>2, <2>4, <2>5 DEF FilledBut
  <2>7. QED
    BY <2>1, <2>6 DEF WalkInv, TokensOwn, walkVars
<1>5. CASE Finish
  BY <1>5 DEF Finish, walkVars, WalkInv, TokensOwn
<1>6. CASE Emit
  BY <1>6, EmitRight
<1>7. CASE Move
  BY <1>7, MoveRight
<1>8. CASE EndContext
  <2>1. /\ stage \in {"toss", "move"} /\ stage' = "pick" /\ CountUp
        /\ UNCHANGED <<wo, ranks, order, intervals>>
    BY <1>8 DEF EndContext
  <2>2. i \in Nat /\ N \in Nat \ {0}
    BY ConceptsMany DEF WalkInv
  <2>3. i' \in Nat /\ (Deep => i' < N)
    BY <2>1, <2>2 DEF CountUp
  <2>4. QED
    BY <2>1, <2>3 DEF WalkInv, TokensOwn, Deep
<1>9. CASE UNCHANGED vars
  <2>1. UNCHANGED <<stage, at, token, wo, files, opt, ranks, order, intervals, i>>
    BY <1>9 DEF vars, walkVars, dictVars
  <2>2. TokensOwn'
    BY <2>1, TokensKept DEF WalkInv
  <2>3. QED
    BY <2>1, <2>2 DEF WalkInv, Deep
<1>10. QED
  BY <1>1, <1>2, <1>3, <1>4, <1>5, <1>6, <1>7, <1>8, <1>9 DEF Next, WalkStep

\* A walk is where it can be, with the sampler it began with, over the text alone.
THEOREM WalkInvariance == Spec => [](WalkDict /\ WalkInv)
<1>1. Init => WalkDict /\ WalkInv
  <2> SUFFICES ASSUME Init PROVE WalkDict /\ WalkInv
    OBVIOUS
  <2>1. /\ stage = "text" /\ i = 0 /\ ranks = None /\ ~ altDone /\ ~ cut /\ written = NoDict
    BY DEF Init, DictInit
  <2>2. QED
    BY <2>1 DEF WalkDict, WalkInv, TokensOwn
<1>2. IInv /\ DictInv /\ WalkDict /\ WalkInv /\ [Next]_vars => (WalkDict /\ WalkInv)'
  BY WalkDictKept, WalkStepRight
<1>3. QED
  BY <1>1, <1>2, Invariance, DictInvariance, PTL DEF Spec

-----------------------------------------------------------------------------

\* The intervals of a sampler divide all vertices, those of the strong components are the
\* components by their sizes, a draw fails only over a vertex with more than its part, and
\* the sampler exactly if all ranks together have no more than that (vsampling_t).
THEOREM SamplerIsRight == Spec => []SamplerDivides
<1>1. WalkInv => SamplerDivides
  <2> SUFFICES ASSUME WalkInv PROVE SamplerDivides
    OBVIOUS
  <2>1. ASSUME stage = "pick", intervals # <<>>
        PROVE  LET n == Len(intervals) IN
               /\ ToSet(order) = Concepts /\ Len(order) = N
               /\ intervals[1].left = 0 /\ intervals[n].right = N
               /\ \A k \in 1 .. n - 1 : intervals[k].right = intervals[k + 1].left
               /\ wo.mode = "components" =>
                    {<<ToSet(SubSeq(order, iv.left + 1, iv.right)), iv.share>> : iv \in ToSet(intervals)}
                    = {<<C, Cardinality(C)>> : C \in Components}
    <3>1. Divided(order, intervals)
      BY <2>1 DEF WalkInv, SamplerHas
    <3>2. wo.mode = "components" => Drawn(order, intervals) = {<<C, Cardinality(C)>> : C \in Components}
      BY <2>1 DEF WalkInv, SamplerHas
    <3>3. QED
      BY <3>1, <3>2 DEF Divided, Drawn
  <2>2. stage = "aborted" => \E c \in Concepts : ranks[c] * wo.buckets > WholeRank(wo.mode, ranks)
    BY DEF WalkInv, Heavy
  <2>3. ranks # None => (stage = "undefined" <=> Whole(ranks) * wo.buckets <= WholeRank(wo.mode, ranks))
    BY DEF WalkInv, Few
  <2>4. QED
    BY <2>1, <2>2, <2>3 DEF SamplerDivides
<1>2. QED
  BY <1>1, WalkInvariance, PTL

\* Edges and words are drawn by their weights, where they are, and what is printed at a
\* vertex is its own (select_next_vertex, emit_word_vertex, emit_word_vertex_mono).
THEOREM DrawsAreFair == Spec => []DrawsByWeight
<1>1. DictInv /\ WalkDict /\ WalkInv => DrawsByWeight
  <2> SUFFICES ASSUME DictInv, WalkDict, WalkInv PROVE DrawsByWeight
    OBVIOUS
  <2>1. TokensOwn
    BY DEF WalkInv
  <2>2. ASSUME stage = "toss"
        PROVE  LET proportional(x, total) ==
                     \A k \in DOMAIN x : Share(x, total, k) * SumTo(x, Len(x)) = x[k] * total
               IN /\ proportional(EdgeWeights(at), EdgeTotal(at))
                  /\ opt.weight \/ wo.multi =>
                       \A d \in WordDraws(at) : proportional(WordWeights(d[1]), d[2])
    <3>1. PICK c \in Concepts : c = at
      BY <2>2 DEF WalkInv
    <3>2. opt.prog = "walk" /\ stage \notin {"text", "failed"}
      BY <2>2 DEF WalkDict
    <3>3. \A k \in DOMAIN EdgeWeights(c) :
            Share(EdgeWeights(c), EdgeTotal(c), k) * SumTo(EdgeWeights(c), Len(EdgeWeights(c)))
              = EdgeWeights(c)[k] * EdgeTotal(c)
      BY EdgesByWeight
    <3>4. opt.weight \/ wo.multi =>
            \A d \in WordDraws(c) : \A k \in DOMAIN WordWeights(d[1]) :
              Share(WordWeights(d[1]), d[2], k) * SumTo(WordWeights(d[1]), Len(WordWeights(d[1])))
                = WordWeights(d[1])[k] * d[2]
      BY <3>2, WordsByWeight
    <3>5. QED
      BY <3>1, <3>3, <3>4
  <2>3. QED
    BY <2>1, <2>2 DEF DrawsByWeight
<1>2. QED
  BY <1>1, WalkInvariance, DictInvariance, PTL

=============================================================================
