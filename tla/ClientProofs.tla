---------------------------- MODULE ClientProofs ----------------------------
(***************************************************************************)
(* Client for any plugins, listeners and streams, any maxBatchSize, buffer *)
(* and driver batch, and any number of events and registrations.  What the *)
(* folds behind emit and FlattenSeq compute is shown by the least element  *)
(* of a set of naturals.                                                     *)
(***************************************************************************)
EXTENDS Client, SequenceTheorems, WellFoundedInduction, TLAPS

-----------------------------------------------------------------------------
(* Induction, and what the folds compute                                      *)

\* Induction without an induction theorem: a nonempty set of naturals has a
\* least element.
LEMMA Least ==
  ASSUME NEW S, S \subseteq Nat, S # {}
  PROVE  \E m \in S : \A k \in S : m <= k
<1> DEFINE Less == {ss \in Nat \X Nat : ss[1] < ss[2]}
<1>1. IsWellFoundedOn(Less, Nat)
  BY NatLessThanWellFounded DEF OpToRel
<1>2. \A x, y \in Nat : y < x => <<y, x>> \in Less
  OBVIOUS
<1> HIDE DEF Less
<1>3. PICK x \in S : \A y \in S : ~ (<<y, x>> \in Less)
  BY <1>1, WFMin
<1>4. \A k \in S : x <= k
  <2> SUFFICES ASSUME NEW k \in S PROVE ~ (k < x)
    OBVIOUS
  <2>1. k \in Nat /\ x \in Nat
    OBVIOUS
  <2>2. ~ (<<k, x>> \in Less)
    BY <1>3
  <2> QED BY <1>2, <2>1, <2>2
<1> QED BY <1>4

\* What holds of 0, and of k + 1 when it holds of k < m, holds up to m.
LEMMA StepByStep ==
  ASSUME NEW m \in Nat, NEW S, 0 \in S, \A k \in 0..(m - 1) : k \in S => k + 1 \in S
  PROVE  0..m \subseteq S
<1> SUFFICES ASSUME NEW x \in 0..m, x \notin S PROVE FALSE
  OBVIOUS
<1> DEFINE Out == {k \in 0..m : k \notin S}
<1>0. Out \subseteq Nat /\ x \in Out
  OBVIOUS
<1>1. PICK o \in Out : \A k \in Out : o <= k
  <2> HIDE DEF Out
  <2> QED BY <1>0, Least
<1>2. o # 0 /\ o - 1 \in 0..(m - 1) /\ o - 1 \in S
  BY <1>1
<1>3. o - 1 + 1 = o
  BY <1>1
<1> QED BY <1>1, <1>2, <1>3

\* A nonempty set of the first naturals has a greatest element.
LEMMA Largest ==
  ASSUME NEW m \in Nat, NEW S, S \subseteq 1..m, S # {}
  PROVE  \E i \in S : \A k \in S : k <= i
<1> DEFINE Below == {m - i : i \in S}
<1>1. Below \subseteq Nat /\ Below # {}
  <2>1. \A i \in S : i \in 1..m /\ m - i \in Nat
    OBVIOUS
  <2>2. PICK i \in S : TRUE
    OBVIOUS
  <2>3. m - i \in Below
    OBVIOUS
  <2> QED BY <2>1, <2>3
<1>2. PICK d \in Below : \A k \in Below : d <= k
  <2> HIDE DEF Below
  <2> QED BY <1>1, Least
<1>3. PICK i \in S : d = m - i
  OBVIOUS
<1>4. ASSUME NEW k \in S PROVE k <= i
  <2>1. d <= m - k
    BY <1>2
  <2>2. k \in 1..m /\ i \in 1..m
    OBVIOUS
  <2> QED BY <1>3, <2>1, <2>2
<1> QED BY <1>4

\* The value of the fold of Fired over the first k elements.
Folded(f, base, s, m) ==
  f = [t \in SUBSET (1..m) |-> IF t = {} THEN base ELSE Fired(f[t \ {Max(t)}], s[Max(t)])]

\* The fold of the community modules takes the greatest index last.
LEMMA MaxIs ==
  ASSUME NEW k \in Nat, NEW t \in SUBSET (1..(k + 1)), k + 1 \in t
  PROVE  Max(t) = k + 1
<1>1. \A y \in t : k + 1 >= y
  OBVIOUS
<1>2. \A x \in t : (\A y \in t : x >= y) => x = k + 1
  OBVIOUS
<1> QED BY <1>1, <1>2 DEF Max

\* The value of the fold, for the index sets of a list of any length.
LEMMA FoldedExists ==
  ASSUME NEW base, NEW s, NEW m \in Nat
  PROVE  \E f : Folded(f, base, s, m)
<1> DEFINE S == {k \in Nat : \E f : Folded(f, base, s, k)}
<1>1. 0 \in S
  <2> DEFINE f == [t \in SUBSET (1..0) |-> base]
  <2>1. SUBSET (1..0) = {{}}
    OBVIOUS
  <2>2. Folded(f, base, s, 0)
    BY <2>1 DEF Folded
  <2> QED BY <2>2
<1>2. ASSUME NEW k \in 0..(m - 1), k \in S PROVE k + 1 \in S
  <2>1. PICK f : Folded(f, base, s, k)
    BY <1>2
  <2>0. k \in Nat
    OBVIOUS
  <2> DEFINE g == [t \in SUBSET (1..(k + 1)) |->
                     IF k + 1 \in t THEN Fired(f[t \ {k + 1}], s[k + 1]) ELSE f[t]]
             h(t) == IF t = {} THEN base ELSE Fired(g[t \ {Max(t)}], s[Max(t)])
  <2>2. ASSUME NEW t \in SUBSET (1..(k + 1)) PROVE g[t] = h(t)
    <3>1. CASE k + 1 \in t
      <4>1. Max(t) = k + 1
        BY <2>0, <3>1, MaxIs
      <4>2. t \ {k + 1} \in SUBSET (1..(k + 1)) /\ k + 1 \notin t \ {k + 1}
        OBVIOUS
      <4>3. g[t \ {k + 1}] = f[t \ {k + 1}]
        BY <4>2
      <4> QED BY <3>1, <4>1, <4>3
    <3>2. CASE k + 1 \notin t
      <4>0. t \subseteq 1..k
        <5> SUFFICES ASSUME NEW y \in t PROVE y \in 1..k
          OBVIOUS
        <5>1. y \in 1..(k + 1) /\ y # k + 1
          BY <3>2
        <5> QED BY <5>1, <2>0
      <4>1. t \in SUBSET (1..k) /\ t \ {Max(t)} \in SUBSET (1..k) /\ t \ {Max(t)} \in SUBSET (1..(k + 1))
        BY <4>0
      <4>2. g[t \ {Max(t)}] = f[t \ {Max(t)}]
        BY <3>2, <4>1
      <4>3. f[t] = IF t = {} THEN base ELSE Fired(f[t \ {Max(t)}], s[Max(t)])
        BY <2>1, <4>1 DEF Folded
      <4> QED BY <3>2, <4>2, <4>3
    <3> QED BY <3>1, <3>2
  <2>3. g = [t \in SUBSET (1..(k + 1)) |-> h(t)]
    BY <2>2
  <2>4. Folded(g, base, s, k + 1)
    BY <2>3 DEF Folded
  <2> QED BY <2>0, <2>4
<1> HIDE DEF S
<1>3. m \in S
  BY <1>1, <1>2, StepByStep
<1> QED BY <1>3 DEF S

\* emit, from the bus b, over the copied list s: each wrapper in turn.
EmitFrom(b, s) == FoldLeft(Fired, b, s)

\* emit runs the wrappers of the list from the first to the last.
LEMMA FoldFired ==
  ASSUME NEW base, NEW T, NEW s \in Seq(T)
  PROVE  \E f : /\ f[0] = base /\ EmitFrom(base, s) = f[Len(s)]
                /\ \A k \in 1..Len(s) : f[k] = Fired(f[k - 1], s[k])
<1> DEFINE m == Len(s)
           it == CHOOSE f : Folded(f, base, s, m)
<1>0. m \in Nat /\ DOMAIN s = 1..m
  OBVIOUS
<1>1. Folded(it, base, s, m)
  BY <1>0, FoldedExists
<1>2. EmitFrom(base, s) = it[1..m]
  BY <1>0 DEF EmitFrom, FoldLeft, MapThenFoldSet, Folded
<1> HIDE DEF m, it
<1>3. it[{}] = base
  BY <1>1 DEF Folded
<1>4. ASSUME NEW k \in 1..m PROVE it[1..k] = Fired(it[1..(k - 1)], s[k])
  <2>1. k - 1 \in Nat /\ (k - 1) + 1 = k /\ 1..k \in SUBSET (1..((k - 1) + 1)) /\ k \in 1..k
    BY <1>0
  <2>2. Max(1..k) = k
    BY <2>1, MaxIs
  <2>3. (1..k) \ {k} = 1..(k - 1) /\ 1..k # {} /\ 1..k \in SUBSET (1..m)
    BY <1>0
  <2> QED BY <1>1, <2>2, <2>3 DEF Folded
<1> DEFINE f == [k \in 0..m |-> it[1..k]]
<1>5. f[0] = base
  <2>1. 1..0 = {}
    OBVIOUS
  <2> QED BY <1>0, <1>3, <2>1
<1>6. f[m] = it[1..m] /\ \A k \in 1..m : f[k] = it[1..k] /\ f[k - 1] = it[1..(k - 1)]
  BY <1>0
<1> HIDE DEF f
<1>7. /\ f[0] = base /\ EmitFrom(base, s) = f[m]
      /\ \A k \in 1..m : f[k] = Fired(f[k - 1], s[k])
  BY <1>2, <1>4, <1>5, <1>6
<1> QED BY <1>7 DEF m

Pieces(L) == (L + MaxBatch - 1) \div MaxBatch

\* Into how many batches L events are cut.
LEMMA PiecesIs ==
  ASSUME NEW L \in Nat
  PROVE  /\ Pieces(L) \in Nat /\ Pieces(L) * MaxBatch >= L
         /\ \A j \in 0..(Pieces(L) - 1) : j * MaxBatch \in 0..(L - 1)
<1> DEFINE K == Pieces(L)
           r == (L + MaxBatch - 1) % MaxBatch
<1>0. MaxBatch \in Nat /\ MaxBatch > 0
  BY BatchAssumption
<1>1. K \in Int /\ r \in 0..(MaxBatch - 1) /\ L + MaxBatch - 1 = MaxBatch * K + r
  BY <1>0 DEF Pieces
<1> HIDE DEF K, r
<1>2. MaxBatch * K = K * MaxBatch
  BY <1>0, <1>1
<1>3. K * MaxBatch >= L /\ K * MaxBatch < L + MaxBatch
  BY <1>0, <1>1, <1>2
<1>4. K \in Nat
  <2> SUFFICES ASSUME K <= -1 PROVE FALSE
    BY <1>1
  <2>1. K * MaxBatch <= (-1) * MaxBatch /\ (-1) * MaxBatch = -MaxBatch /\ K * MaxBatch \in Int
    BY <1>0, <1>1
  <2> QED BY <1>0, <1>3, <2>1
<1>5. ASSUME NEW j \in 0..(K - 1) PROVE j * MaxBatch \in 0..(L - 1)
  <2>1. j * MaxBatch <= (K - 1) * MaxBatch /\ (K - 1) * MaxBatch = K * MaxBatch - MaxBatch
    BY <1>0, <1>4
  <2>2. j * MaxBatch \in Nat
    BY <1>0
  <2>3. K * MaxBatch \in Int
    BY <1>0, <1>1
  <2> QED BY <1>0, <1>3, <2>1, <2>2, <2>3
<1>6. K \in Nat /\ K * MaxBatch >= L /\ \A j \in 0..(K - 1) : j * MaxBatch \in 0..(L - 1)
  BY <1>3, <1>4, <1>5
<1> QED BY <1>6 DEF K

\* How far the first j batches reach.
Upto(j, L) == IF j * MaxBatch < L THEN j * MaxBatch ELSE L

\* The batches of es: none empty, none longer than maxBatchSize, and the first
\* j of them end where the events do.
LEMMA ChunksAre ==
  ASSUME NEW X, NEW es \in Seq(X)
  PROVE  /\ Chunks(es) \in Seq(Seq(X)) /\ Len(Chunks(es)) = Pieces(Len(es))
         /\ \A i \in DOMAIN Chunks(es) : Len(Chunks(es)[i]) \in 1..MaxBatch
         /\ Upto(Pieces(Len(es)), Len(es)) = Len(es)
         /\ \A j \in 0..(Pieces(Len(es)) - 1) :
              /\ Upto(j, Len(es)) \in 0..Len(es) /\ Upto(j + 1, Len(es)) \in Upto(j, Len(es))..Len(es)
              /\ Chunks(es)[j + 1] = SubSeq(es, Upto(j, Len(es)) + 1, Upto(j + 1, Len(es)))
<1> DEFINE L == Len(es)
           K == Pieces(L)
           C == Chunks(es)
<1>0. L \in Nat /\ MaxBatch \in Nat /\ MaxBatch > 0 /\ DOMAIN es = 1..L /\ \A i \in 1..L : es[i] \in X
  BY BatchAssumption
<1>1. K \in Nat /\ K * MaxBatch >= L /\ \A j \in 0..(K - 1) : j * MaxBatch \in 0..(L - 1)
  BY <1>0, PiecesIs
<1>2. C = [i \in 1..K |-> SubSeq(es, (i - 1) * MaxBatch + 1, Upto(i, L))]
  BY DEF Chunks, Upto, Pieces
<1> HIDE DEF L, K, C
<1>3. Upto(K, L) = L
  BY <1>0, <1>1 DEF Upto
<1>4. ASSUME NEW j \in 0..(K - 1)
      PROVE  /\ j * MaxBatch \in 0..(L - 1) /\ Upto(j, L) = j * MaxBatch
             /\ Upto(j + 1, L) \in (Upto(j, L) + 1)..L /\ Upto(j + 1, L) - Upto(j, L) <= MaxBatch
             /\ j + 1 \in 1..K /\ (j + 1) - 1 = j
  <2>1. j * MaxBatch \in 0..(L - 1) /\ (j + 1) * MaxBatch = j * MaxBatch + MaxBatch
    BY <1>0, <1>1
  <2>2. j + 1 \in 1..K /\ (j + 1) - 1 = j
    BY <1>1
  <2>3. Upto(j, L) = j * MaxBatch
    BY <1>0, <2>1 DEF Upto
  <2>4. Upto(j + 1, L) = IF j * MaxBatch + MaxBatch < L THEN j * MaxBatch + MaxBatch ELSE L
    BY <2>1 DEF Upto
  <2>5. ASSUME NEW a \in 0..(L - 1), NEW u, u = IF a + MaxBatch < L THEN a + MaxBatch ELSE L
        PROVE  u \in (a + 1)..L /\ u - a <= MaxBatch
    BY <1>0, <2>5
  <2>6. Upto(j + 1, L) \in (j * MaxBatch + 1)..L /\ Upto(j + 1, L) - j * MaxBatch <= MaxBatch
    BY <2>1, <2>4, <2>5
  <2> QED BY <2>1, <2>2, <2>3, <2>6
<1>5. ASSUME NEW j \in 0..(K - 1)
      PROVE  /\ C[j + 1] = SubSeq(es, Upto(j, L) + 1, Upto(j + 1, L))
             /\ C[j + 1] \in Seq(X) /\ Len(C[j + 1]) \in 1..MaxBatch
  <2> DEFINE a == Upto(j, L)
             b == Upto(j + 1, L)
  <2>1. C[j + 1] = SubSeq(es, a + 1, b)
    BY <1>2, <1>4
  <2>2. a \in 0..L /\ b \in (a + 1)..L /\ b - a <= MaxBatch
    BY <1>0, <1>4
  <2> HIDE DEF a, b
  <2>3. \A i \in (a + 1)..b : es[i] \in X
    BY <1>0, <2>2
  <2>4. SubSeq(es, a + 1, b) \in Seq(X) /\ Len(SubSeq(es, a + 1, b)) = b - (a + 1) + 1
    BY <1>0, <2>2, <2>3, SubSeqProperties
  <2>5. b - (a + 1) + 1 \in 1..MaxBatch
    BY <1>0, <2>2
  <2>6. C[j + 1] = SubSeq(es, a + 1, b) /\ C[j + 1] \in Seq(X) /\ Len(C[j + 1]) \in 1..MaxBatch
    BY <2>1, <2>4, <2>5
  <2> QED BY <2>6 DEF a, b
<1>6. ASSUME NEW i \in 1..K PROVE C[i] \in Seq(X) /\ Len(C[i]) \in 1..MaxBatch
  <2>1. i - 1 \in 0..(K - 1) /\ (i - 1) + 1 = i
    BY <1>1
  <2> QED BY <1>5, <2>1
<1>7. C \in Seq(Seq(X)) /\ Len(C) = K /\ DOMAIN C = 1..K
  <2>1. DOMAIN C = 1..K
    BY <1>2
  <2>2. C = [i \in 1..K |-> C[i]]
    BY <1>2
  <2>3. C \in [1..K -> Seq(X)]
    BY <1>6, <2>2
  <2> QED BY <1>1, <2>1, <2>3
<1>8. \A j \in 0..(K - 1) : Upto(j, L) \in 0..L /\ Upto(j + 1, L) \in Upto(j, L)..L
  BY <1>0, <1>4
<1> QED BY <1>3, <1>5, <1>6, <1>7, <1>8 DEF L, K, C

-----------------------------------------------------------------------------
\* F concatenates the first k of s, for every k.
Flattens(F, s, m) == F[0] = <<>> /\ \A k \in 1..m : F[k] = F[k - 1] \o s[k]

\* What FlattenSeq computes: one sequence after the other.
LEMMA FlattenRuns ==
  ASSUME NEW X, NEW s \in Seq(Seq(X))
  PROVE  \E F : F \in [0..Len(s) -> Seq(X)] /\ Flattens(F, s, Len(s)) /\ FlattenSeq(s) = F[Len(s)]
<1> DEFINE m == Len(s)
           Runs(f, k) == f = [i \in 1..k |-> IF i = 1 THEN s[i] ELSE f[i - 1] \o s[i]]
           S == {k \in Nat : \E f : Runs(f, k)}
<1>0. m \in Nat /\ \A k \in 1..m : s[k] \in Seq(X)
  OBVIOUS
<1>1. 0 \in S
  <2>1. Runs([i \in 1..0 |-> 0], 0)
    OBVIOUS
  <2> QED BY <2>1
<1>2. ASSUME NEW k \in 0..(m - 1), k \in S PROVE k + 1 \in S
  <2>1. PICK f : Runs(f, k)
    BY <1>2
  <2> DEFINE g == [i \in 1..(k + 1) |-> IF i = 1 THEN s[i] ELSE f[i - 1] \o s[i]]
  <2>2. ASSUME NEW i \in 1..(k + 1), i # 1 PROVE g[i - 1] = f[i - 1]
    <3>1. i - 1 \in 1..k /\ i - 1 \in 1..(k + 1)
      BY <2>2
    <3> QED BY <2>1, <3>1
  <2>3. \A i \in 1..(k + 1) : (IF i = 1 THEN s[i] ELSE f[i - 1] \o s[i]) = (IF i = 1 THEN s[i] ELSE g[i - 1] \o s[i])
    BY <2>2
  <2>4. Runs(g, k + 1)
    BY <2>3
  <2>5. \E h : Runs(h, k + 1)
    <3> HIDE DEF g
    <3> QED BY <2>4
  <2>6. k + 1 \in Nat
    BY <1>0
  <2> QED BY <2>5, <2>6
<1>3. m \in S
  <2> HIDE DEF S, m
  <2>1. 0..m \subseteq S
    BY <1>0, <1>1, <1>2, StepByStep
  <2> QED BY <1>0, <2>1
<1> DEFINE fl == CHOOSE f : f = [i \in 1..Len(s) |-> IF i = 1 THEN s[i] ELSE f[i - 1] \o s[i]]
<1>4. Runs(fl, m)
  BY <1>3
<1>5. FlattenSeq(s) = IF m = 0 THEN s ELSE fl[m]
  BY DEF FlattenSeq
<1> HIDE DEF S, fl
<1> DEFINE F == [k \in 0..m |-> IF k = 0 THEN <<>> ELSE fl[k]]
<1>6. ASSUME NEW k \in 1..m, F[k - 1] \in Seq(X) PROVE F[k] = F[k - 1] \o s[k]
  <2>1. fl[k] = IF k = 1 THEN s[k] ELSE fl[k - 1] \o s[k]
    BY <1>4
  <2>2. F[k] = fl[k] /\ F[k - 1] = (IF k = 1 THEN <<>> ELSE fl[k - 1])
    BY <1>0
  <2>3. <<>> \o s[k] = s[k]
    BY <1>0, ConcatEmptySeq
  <2> QED BY <2>1, <2>2, <2>3
<1>7. \A k \in 0..m : F[k] \in Seq(X)
  <2> DEFINE T == {k \in 0..m : F[k] \in Seq(X)}
  <2>1. 0 \in T
    BY <1>0
  <2>2. ASSUME NEW k \in 0..(m - 1), k \in T PROVE k + 1 \in T
    <3>1. k + 1 \in 1..m /\ (k + 1) - 1 = k /\ F[k] \in Seq(X)
      BY <1>0, <2>2
    <3>2. F[k + 1] = F[k] \o s[k + 1] /\ s[k + 1] \in Seq(X)
      BY <1>0, <1>6, <3>1
    <3> HIDE DEF F
    <3>3. F[k] \o s[k + 1] \in Seq(X)
      BY <3>1, <3>2, ConcatProperties
    <3>4. k + 1 \in 0..m /\ F[k + 1] \in Seq(X)
      BY <1>0, <3>1, <3>2, <3>3
    <3> QED BY <3>4
  <2> HIDE DEF T
  <2>3. 0..m \subseteq T
    BY <1>0, <2>1, <2>2, StepByStep
  <2> QED BY <2>3 DEF T
<1>8. F \in [0..m -> Seq(X)] /\ F[0] = <<>> /\ F[m] = FlattenSeq(s)
  <2>1. m = 0 => s = <<>>
    OBVIOUS
  <2> QED BY <1>0, <1>5, <1>7, <2>1
<1>9. ASSUME NEW k \in 1..m PROVE F[k] = F[k - 1] \o s[k]
  <2>1. k - 1 \in 0..m
    BY <1>0
  <2> HIDE DEF F
  <2> QED BY <1>6, <1>7, <2>1
<1> HIDE DEF F
<1>10. F \in [0..m -> Seq(X)] /\ Flattens(F, s, m) /\ FlattenSeq(s) = F[m]
  BY <1>8, <1>9 DEF Flattens
<1> QED BY <1>10

\* Two sequences of batches that agree on the first m flatten alike so far.
LEMMA RunsAgree ==
  ASSUME NEW m \in Nat, NEW F, NEW G, NEW s, NEW t, Flattens(F, s, m), Flattens(G, t, m),
         \A k \in 1..m : s[k] = t[k]
  PROVE  F[m] = G[m]
<1> DEFINE S == {k \in 0..m : F[k] = G[k]}
<1>1. 0 \in S
  BY DEF Flattens
<1>2. ASSUME NEW k \in 0..(m - 1), k \in S PROVE k + 1 \in S
  <2>1. k + 1 \in 1..m /\ (k + 1) - 1 = k /\ k + 1 \in 0..m
    OBVIOUS
  <2> QED BY <1>2, <2>1 DEF Flattens
<1> HIDE DEF S
<1>3. 0..m \subseteq S
  BY <1>1, <1>2, StepByStep
<1> QED BY <1>3 DEF S

\* Concatenation is associative; NatRegroup and NatConcat are the instances
\* that the invariants need.
LEMMA Regroup ==
  ASSUME NEW X, NEW a \in Seq(X), NEW b \in Seq(X), NEW c \in Seq(X)
  PROVE  (a \o b) \o c = a \o (b \o c)
BY ConcatAssociative

\* Posting es adds es to what was posted, whatever the batches it is cut into.
LEMMA FlattenChunks ==
  ASSUME NEW X, NEW s \in Seq(Seq(X)), NEW es \in Seq(X)
  PROVE  /\ s \o Chunks(es) \in Seq(Seq(X)) /\ FlattenSeq(s) \in Seq(X)
         /\ FlattenSeq(s \o Chunks(es)) = FlattenSeq(s) \o es
<1> DEFINE p == Len(s)
           L == Len(es)
           K == Pieces(L)
           C == Chunks(es)
           t == s \o C
           whole == FlattenSeq(s)
<1>0. p \in Nat /\ L \in Nat
  OBVIOUS
<1>1. /\ C \in Seq(Seq(X)) /\ Len(C) = K /\ K \in Nat /\ Upto(K, L) = L
      /\ \A j \in 0..(K - 1) : /\ Upto(j, L) \in 0..L /\ Upto(j + 1, L) \in Upto(j, L)..L
                               /\ C[j + 1] = SubSeq(es, Upto(j, L) + 1, Upto(j + 1, L))
  <2> HIDE DEF C
  <2>1. Len(C) \in Nat
    BY ChunksAre DEF C
  <2> QED BY <2>1, ChunksAre DEF C
<1> HIDE DEF C, K, p
<1>2. t \in Seq(Seq(X)) /\ Len(t) = p + K /\ \A i \in 1..(p + K) : t[i] = IF i <= p THEN s[i] ELSE C[i - p]
  <2> DEFINE T == Seq(X)
  <2>1. s \in Seq(T) /\ C \in Seq(T) /\ Len(s) = p /\ Len(C) = K
    BY <1>1 DEF p
  <2> HIDE DEF T
  <2>2. /\ s \o C \in Seq(T) /\ Len(s \o C) = Len(s) + Len(C)
        /\ \A i \in 1..(Len(s) + Len(C)) : (s \o C)[i] = IF i <= Len(s) THEN s[i] ELSE C[i - Len(s)]
    BY <2>1, ConcatProperties
  <2> QED BY <2>1, <2>2 DEF T
<1> HIDE DEF t
<1>3. PICK F : F \in [0..(p + K) -> Seq(X)] /\ Flattens(F, t, p + K) /\ FlattenSeq(t) = F[p + K]
  BY <1>2, FlattenRuns
<1>4. PICK G : G \in [0..p -> Seq(X)] /\ Flattens(G, s, p) /\ whole = G[p]
  BY FlattenRuns DEF p
<1>5. F[p] = whole /\ whole \in Seq(X)
  <2>1. Flattens(F, t, p)
    <3>1. \A k \in 1..p : k \in 1..(p + K)
      BY <1>0, <1>1
    <3> QED BY <1>3, <3>1 DEF Flattens
  <2>2. \A k \in 1..p : t[k] = s[k]
    BY <1>0, <1>1, <1>2
  <2> HIDE DEF whole
  <2>3. F[p] = G[p]
    BY <1>0, <1>4, <2>1, <2>2, RunsAgree
  <2> QED BY <1>0, <1>4, <2>3
<1> HIDE DEF whole, L
<1> DEFINE S == {j \in 0..K : F[p + j] = whole \o SubSeq(es, 1, Upto(j, L))}
<1>6. 0 \in S
  <2>1. 0 * MaxBatch = 0
    BY BatchAssumption
  <2>2. Upto(0, L) = 0
    BY <1>0, <2>1 DEF Upto
  <2>3. SubSeq(es, 1, 0) = <<>>
    BY SubSeqEmpty
  <2>4. whole \o <<>> = whole
    BY <1>5, ConcatEmptySeq
  <2> QED BY <1>0, <1>1, <1>5, <2>2, <2>3, <2>4
<1>7. ASSUME NEW j \in 0..(K - 1), j \in S PROVE j + 1 \in S
  <2> DEFINE a == Upto(j, L)
             b == Upto(j + 1, L)
  <2>1. F[p + j] = whole \o SubSeq(es, 1, a)
    BY <1>7
  <2>2. /\ p + (j + 1) \in 1..(p + K) /\ (p + (j + 1)) - 1 = p + j /\ ~(p + (j + 1) <= p)
        /\ (p + (j + 1)) - p = j + 1
    BY <1>0, <1>1
  <2>3. F[p + (j + 1)] = F[p + j] \o C[j + 1]
    BY <1>2, <1>3, <2>2 DEF Flattens
  <2>4. a \in 0..L /\ b \in a..L /\ C[j + 1] = SubSeq(es, a + 1, b)
    BY <1>1
  <2> HIDE DEF a, b
  <2>5. SubSeq(es, 1, a) \o SubSeq(es, a + 1, b) = SubSeq(es, 1, b)
    <3>1. 1 \in 1..(Len(es) + 1) /\ a \in (1 - 1)..Len(es) /\ b \in a..Len(es)
      BY <1>0, <2>4 DEF L
    <3> QED BY <3>1, ConcatAdjacentSubSeq
  <2>6. SubSeq(es, 1, a) \in Seq(X) /\ SubSeq(es, a + 1, b) \in Seq(X)
    <3>1. \A i \in 1..L : es[i] \in X
      BY DEF L
    <3>2. (\A i \in 1..a : es[i] \in X) /\ (\A i \in (a + 1)..b : es[i] \in X)
      BY <1>0, <2>4, <3>1
    <3> QED BY <1>0, <2>4, <3>2, SubSeqProperties
  <2>7. (whole \o SubSeq(es, 1, a)) \o SubSeq(es, a + 1, b) = whole \o SubSeq(es, 1, b)
    <3> DEFINE u == SubSeq(es, 1, a)
               v == SubSeq(es, a + 1, b)
    <3>1. u \in Seq(X) /\ v \in Seq(X) /\ u \o v = SubSeq(es, 1, b)
      BY <2>5, <2>6
    <3> HIDE DEF u, v
    <3>2. (whole \o u) \o v = whole \o (u \o v)
      <4>1. \A a1, b1, c1 \in Seq(X) : (a1 \o b1) \o c1 = a1 \o (b1 \o c1)
        BY Regroup
      <4>2. whole \in Seq(X) /\ u \in Seq(X) /\ v \in Seq(X)
        BY <1>5, <3>1
      <4> QED BY <4>1, <4>2, Zenon
    <3>3. (whole \o u) \o v = whole \o SubSeq(es, 1, b)
      BY <3>1, <3>2
    <3> QED BY <3>3 DEF u, v
  <2>8. F[p + (j + 1)] = whole \o SubSeq(es, 1, b)
    BY <2>1, <2>3, <2>4, <2>7
  <2>9. j + 1 \in 0..K
    BY <1>1
  <2> QED BY <2>8, <2>9 DEF b
<1> HIDE DEF S
<1>8. K \in S
  <2>1. 0..K \subseteq S
    BY <1>1, <1>6, <1>7, StepByStep
  <2> QED BY <1>1, <2>1
<1>9. F[p + K] = whole \o SubSeq(es, 1, L)
  BY <1>1, <1>8 DEF S
<1>10. SubSeq(es, 1, L) = es
  BY SubSeqFull DEF L
<1>11. FlattenSeq(t) = whole \o es
  BY <1>3, <1>9, <1>10
<1> QED BY <1>2, <1>5, <1>11 DEF t, C, whole

-----------------------------------------------------------------------------
(* The invariant                                                             *)

Readiness == {"none", "pending", "done", "failed"}
Statuses == {"out", "settingUp", "up", "failed", "disposed"}
Phases == {"alive", "stopping", "disposing", "over"}
Loops == {"out", "top", "parked", "pinging", "writing", "written", "ended"}
Entry == [listener : Listener, kind : Kinds]

\* The life of the client, and where it lets a session run.
LifeInv ==
  /\ plugins \in Seq(Plugin) /\ doomed \in Seq(Plugin) /\ inSetup \in Plugin \cup {None}
  /\ ready \in Readiness /\ status \in [Plugin -> Statuses] /\ phase \in Phases
  /\ session \in {"none", "up", "down"} /\ n \in 0..MaxEvents /\ server \in {"none", "up", "closed"}
  /\ ready = "pending" <=> inSetup # None
  /\ session = "none" => n = 0
  /\ session # "none" => ready = "done"
  /\ session = "up" => phase \in {"alive", "stopping"} /\ n < MaxEvents

\* A plugin that is set up is one that dispose comes to.
DisposalInv ==
  /\ phase # "alive" => inSetup = None
  /\ inSetup # None => \E i \in DOMAIN plugins : plugins[i] = inSetup
  /\ phase \in {"alive", "stopping"} =>
       \A p \in Plugin : status[p] = "up" => \E i \in DOMAIN plugins : plugins[i] = p
  /\ phase = "disposing" =>
       \A p \in Plugin : status[p] = "up" => \E i \in DOMAIN doomed : doomed[i] = p
  /\ phase = "over" => \A p \in Plugin : status[p] # "up"

\* LifeInv holds from the start.
LEMMA LifeInit == Init => LifeInv
BY EventAssumption DEF Init, LifeInv, Readiness, Statuses, Phases

\* What a step of PluginRegistry.setup's loop makes of the client.
LEMMA SetupCallsIs ==
  ASSUME plugins \in Seq(Plugin), NEW i, NEW s \in [Plugin -> Statuses], SetupCalls(i, s)
  PROVE  /\ inSetup' \in Plugin \cup {None} /\ status' \in [Plugin -> Statuses]
         /\ \A p \in Plugin : status'[p] = "up" => s[p] = "up"
         /\ ready' \in {"pending", "done"} /\ (ready' = "pending" <=> inSetup' # None)
         /\ inSetup' # None => \E j \in DOMAIN plugins : plugins[j] = inSetup'
<1>1. CASE i \in DOMAIN plugins
  <2>1. plugins[i] \in Plugin
    BY <1>1
  <2> QED BY <1>1, <2>1, PluginAssumption DEF SetupCalls, Statuses
<1>2. CASE i \notin DOMAIN plugins
  BY <1>2 DEF SetupCalls
<1> QED BY <1>1, <1>2

\* LifeInv is inductive: one step for each action of the client.
LEMMA LifeNext == LifeInv /\ [Next]_vars => LifeInv'
<1> SUFFICES ASSUME LifeInv, [Next]_vars PROVE LifeInv'
  OBVIOUS
<1> USE EventAssumption DEF LifeInv, Readiness, Phases
<1>1. ASSUME NEW p \in Plugin, Use(p) PROVE LifeInv'
  BY <1>1 DEF Use
<1>2. CASE FirstOperation
  <2>1. SetupCalls(1, status) /\ status \in [Plugin -> Statuses] /\ plugins \in Seq(Plugin)
    BY <1>2 DEF FirstOperation
  <2>2. /\ inSetup' \in Plugin \cup {None} /\ status' \in [Plugin -> Statuses]
        /\ ready' \in {"pending", "done"} /\ (ready' = "pending" <=> inSetup' # None)
    BY <2>1, SetupCallsIs
  <2> QED BY <1>2, <2>2 DEF FirstOperation
<1>3. CASE SetupEnds
  <2>1. PICK i : SetupCalls(i, [status EXCEPT ![inSetup] = "up"])
    BY <1>3 DEF SetupEnds
  <2>2. [status EXCEPT ![inSetup] = "up"] \in [Plugin -> Statuses]
    BY DEF Statuses
  <2>3. /\ inSetup' \in Plugin \cup {None} /\ status' \in [Plugin -> Statuses]
        /\ ready' \in {"pending", "done"} /\ (ready' = "pending" <=> inSetup' # None)
    BY <2>1, <2>2, SetupCallsIs
  <2> QED BY <1>3, <2>3 DEF SetupEnds
<1>4. CASE SetupFails
  <2>1. status' \in [Plugin -> Statuses]
    BY <1>4 DEF SetupFails, Statuses
  <2> QED BY <1>4, <2>1 DEF SetupFails
<1>5. CASE SessionStarts
  BY <1>5 DEF SessionStarts, pluginVars, Alive, Admitted
<1>6. ASSUME NEW k \in 0..MaxDriverBatch, SessionEmits(k) PROVE LifeInv'
  BY <1>6 DEF SessionEmits, Emits, pluginVars
<1>7. CASE Destroy
  BY <1>7 DEF Destroy, pluginVars, Alive
<1>8. CASE LastEvent
  BY <1>8 DEF LastEvent, Emits, pluginVars
<1>9. CASE DisposeStarts
  <2>1. Reverse(plugins) \in Seq(Plugin)
    BY DEF Reverse
  <2> QED BY <1>9, <2>1 DEF DisposeStarts, pluginVars, Stopped
<1>10. CASE DisposeNext
  <2>1. doomed' = Tail(doomed) /\ Head(doomed) \in Plugin
    BY <1>10 DEF DisposeNext, AfterFailure
  <2>2. Tail(doomed) \in Seq(Plugin)
    BY <1>10 DEF DisposeNext
  <2>3. status' \in [Plugin -> Statuses]
    BY <1>10, <2>1 DEF DisposeNext, Statuses
  <2> QED BY <1>10, <2>1, <2>2, <2>3 DEF DisposeNext
<1>11. CASE DestroyEnds
  BY <1>11 DEF DestroyEnds
<1>12. CASE ServerStarts \/ ServerCloses
  BY <1>12 DEF ServerStarts, ServerCloses, pluginVars
<1>13. CASE \/ \E s \in Stream : StreamOpens(s) \/ Streaming(s)
            \/ Listening \/ Forwarding \/ UNCHANGED vars
  <2>1. UNCHANGED clientVars
    BY <1>13 DEF StreamOpens, Streaming, Listening, Forwarding, vars
  <2> QED BY <2>1 DEF clientVars, pluginVars
<1> QED BY <1>1, <1>2, <1>3, <1>4, <1>5, <1>6, <1>7, <1>8, <1>9, <1>10, <1>11, <1>12, <1>13 DEF Next

\* DisposalInv holds from the start.
LEMMA DisposalInit == Init => DisposalInv
BY DEF Init, DisposalInv

\* dispose's reversed copy of the plugins has all of them.
LEMMA ReverseReaches ==
  ASSUME NEW X, NEW s \in Seq(X), NEW i \in DOMAIN s
  PROVE  \E j \in DOMAIN Reverse(s) : Reverse(s)[j] = s[i]
<1>1. Len(s) - i + 1 \in DOMAIN Reverse(s) /\ (Len(s) - (Len(s) - i + 1)) + 1 = i
  BY DEF Reverse
<1> QED BY <1>1 DEF Reverse

\* DisposalInv is inductive as long as destroy waits for the setup.
LEMMA DisposalNext ==
  "destroyInSetup" \notin Overlaps /\ LifeInv /\ DisposalInv /\ [Next]_vars => DisposalInv'
<1> SUFFICES ASSUME "destroyInSetup" \notin Overlaps, LifeInv, DisposalInv, [Next]_vars
             PROVE  DisposalInv'
  OBVIOUS
<1> USE PluginAssumption DEF LifeInv, DisposalInv, Phases
<1>1. ASSUME NEW p \in Plugin, Use(p) PROVE DisposalInv'
  <2>1. \A i \in DOMAIN plugins : i \in DOMAIN plugins' /\ plugins'[i] = plugins[i]
    BY <1>1 DEF Use
  <2> QED BY <1>1, <2>1 DEF Use, Alive
<1>2. ASSUME NEW i, NEW s \in [Plugin -> Statuses], SetupCalls(i, s), UNCHANGED <<plugins, phase, doomed>>,
             phase = "alive",
             \A p \in Plugin : s[p] = "up" => \E j \in DOMAIN plugins : plugins[j] = p
      PROVE  DisposalInv'
  <2>1. /\ \A p \in Plugin : status'[p] = "up" => s[p] = "up"
        /\ inSetup' # None => \E j \in DOMAIN plugins : plugins[j] = inSetup'
    BY <1>2, SetupCallsIs
  <2> QED BY <1>2, <2>1
<1>3. CASE FirstOperation
  BY <1>2, <1>3 DEF FirstOperation, Alive
<1>4. CASE SetupEnds
  <2>1. PICK i : SetupCalls(i, [status EXCEPT ![inSetup] = "up"])
    BY <1>4 DEF SetupEnds
  <2> DEFINE s == [status EXCEPT ![inSetup] = "up"]
  <2>2. s \in [Plugin -> Statuses]
    BY DEF Statuses
  <2>3. \A p \in Plugin : s[p] = "up" => \E j \in DOMAIN plugins : plugins[j] = p
    BY <1>4 DEF SetupEnds
  <2>4. phase = "alive" /\ UNCHANGED <<plugins, phase, doomed>>
    BY <1>4 DEF SetupEnds
  <2> HIDE DEF s
  <2>5. SetupCalls(i, s)
    BY <2>1 DEF s
  <2> QED BY <1>2, <2>2, <2>3, <2>4, <2>5
<1>5. CASE SetupFails
  BY <1>5 DEF SetupFails
<1>6. CASE SessionStarts
  BY <1>6 DEF SessionStarts, pluginVars
<1>7. ASSUME NEW k \in 0..MaxDriverBatch, SessionEmits(k) PROVE DisposalInv'
  BY <1>7 DEF SessionEmits, pluginVars
<1>8. CASE Destroy
  BY <1>8 DEF Destroy, pluginVars, Alive
<1>9. CASE LastEvent
  BY <1>9 DEF LastEvent, pluginVars
<1>10. CASE DisposeStarts
  <2>1. ASSUME NEW p \in Plugin, status[p] = "up" PROVE \E j \in DOMAIN doomed' : doomed'[j] = p
    <3>1. PICK i \in DOMAIN plugins : plugins[i] = p
      BY <1>10, <2>1 DEF DisposeStarts
    <3>2. doomed' = Reverse(plugins)
      BY <1>10 DEF DisposeStarts
    <3> QED BY <3>1, <3>2, ReverseReaches
  <2> QED BY <1>10, <2>1 DEF DisposeStarts, pluginVars
<1>11. CASE DisposeNext
  <2>1. doomed' = Tail(doomed) /\ Head(doomed) \in Plugin /\ doomed # <<>> /\ phase = "disposing"
    BY <1>11 DEF DisposeNext, AfterFailure
  <2>2. ASSUME NEW p \in Plugin, status'[p] = "up" PROVE \E j \in DOMAIN doomed' : doomed'[j] = p
    <3>1. status[p] = "up" /\ p # Head(doomed)
      BY <1>11, <2>1, <2>2 DEF DisposeNext
    <3>2. PICK i \in DOMAIN doomed : doomed[i] = p
      BY <2>1, <3>1
    <3>3. i # 1 /\ i - 1 \in DOMAIN Tail(doomed) /\ Tail(doomed)[i - 1] = doomed[i]
      BY <2>1, <3>1, <3>2
    <3> QED BY <2>1, <3>2, <3>3
  <2> QED BY <1>11, <2>1, <2>2 DEF DisposeNext
<1>12. CASE DestroyEnds
  <2>1. \A p \in Plugin : status[p] # "up"
    BY <1>12 DEF DestroyEnds
  <2> QED BY <1>12, <2>1 DEF DestroyEnds
<1>13. CASE ServerStarts \/ ServerCloses
  BY <1>13 DEF ServerStarts, ServerCloses, pluginVars
<1>14. CASE \/ \E s \in Stream : StreamOpens(s) \/ Streaming(s)
            \/ Listening \/ Forwarding \/ UNCHANGED vars
  <2>1. UNCHANGED clientVars
    BY <1>14 DEF StreamOpens, Streaming, Listening, Forwarding, vars
  <2> QED BY <2>1 DEF clientVars, pluginVars
<1> QED BY <1>1, <1>3, <1>4, <1>5, <1>6, <1>7, <1>8, <1>9, <1>10, <1>11, <1>12, <1>13, <1>14 DEF Next

-----------------------------------------------------------------------------
(* The forwarder                                                             *)

Natural(s) == s \in Seq(Nat)

\* What was posted and what waits are the events emitted, once the queue is there.
ForwarderInv ==
  /\ windowed \in BOOLEAN /\ queue \in {"none", "open", "closed"} /\ timer \in {"unset", "armed"}
  /\ processors \subseteq {"forwarder", "live"}
  /\ Natural(window) /\ posted \in Seq(Seq(Nat))
  /\ \A i \in DOMAIN posted : Len(posted[i]) \in 1..MaxBatch
  /\ ~windowed => window = <<>>
  /\ queue = "none" => window = <<>> /\ posted = <<>> /\ "forwarder" \notin processors
  /\ queue = "open" /\ phase # "over" => "forwarder" \in processors
  /\ queue = "closed" => phase \in {"disposing", "over"} /\ window = <<>>
  /\ queue # "none" => PostedEvents \o window = [i \in 1..n |-> i]

\* The facts about sequences of events, with the set of events fixed.
LEMMA NatRegroup == \A a, b, c \in Seq(Nat) : (a \o b) \o c = a \o (b \o c)
BY Regroup

LEMMA NatConcat ==
  ASSUME NEW a \in Seq(Nat), NEW b \in Seq(Nat)
  PROVE  /\ a \o b \in Seq(Nat) /\ Len(a \o b) = Len(a) + Len(b)
         /\ \A i \in 1..(Len(a) + Len(b)) : (a \o b)[i] = IF i <= Len(a) THEN a[i] ELSE b[i - Len(a)]
BY ConcatProperties

\* FlattenChunks, for the events of the client.
LEMMA NatFlatten ==
  ASSUME NEW s \in Seq(Seq(Nat)), NEW es \in Seq(Nat)
  PROVE  /\ s \o Chunks(es) \in Seq(Seq(Nat)) /\ FlattenSeq(s) \in Seq(Nat)
         /\ FlattenSeq(s \o Chunks(es)) = FlattenSeq(s) \o es
BY FlattenChunks

\* Nothing was posted at first.
LEMMA FlattenNone == FlattenSeq(<<>>) = <<>>
BY DEF FlattenSeq

\* post hands the queue all of es, in batches that are not too long.
LEMMA PostIs ==
  ASSUME ForwarderInv, NEW es \in Seq(Nat), Post(es)
  PROVE  /\ posted' \in Seq(Seq(Nat)) /\ \A i \in DOMAIN posted' : Len(posted'[i]) \in 1..MaxBatch
         /\ PostedEvents \in Seq(Nat) /\ PostedEvents' \in Seq(Nat)
         /\ queue = "none" => posted' = posted
         /\ queue # "none" => PostedEvents' = PostedEvents \o es
<1>1. /\ posted \o Chunks(es) \in Seq(Seq(Nat)) /\ FlattenSeq(posted) \in Seq(Nat)
      /\ FlattenSeq(posted \o Chunks(es)) = FlattenSeq(posted) \o es
  BY NatFlatten DEF ForwarderInv
<1>2. CASE queue = "none"
  BY <1>1, <1>2 DEF ForwarderInv, Post, PostedEvents
<1>3. CASE queue # "none"
  <2>1. posted' = posted \o Chunks(es)
    BY <1>3 DEF Post
  <2>2. /\ Chunks(es) \in Seq(Seq(Nat))
        /\ \A i \in DOMAIN Chunks(es) : Len(Chunks(es)[i]) \in 1..MaxBatch
    BY ChunksAre
  <2>3. FlattenSeq(posted \o Chunks(es)) \in Seq(Nat)
    BY <1>1, NatConcat
  <2>4. \A i \in DOMAIN posted' : Len(posted'[i]) \in 1..MaxBatch
    <3> DEFINE C == Chunks(es)
    <3> SUFFICES ASSUME NEW i \in DOMAIN posted' PROVE Len(posted'[i]) \in 1..MaxBatch
      OBVIOUS
    <3>1. C \in Seq(Seq(Nat)) /\ posted \in Seq(Seq(Nat)) /\ posted' = posted \o C
      BY <2>1, <2>2 DEF ForwarderInv
    <3> HIDE DEF C
    <3>2. /\ DOMAIN posted' = 1..(Len(posted) + Len(C))
          /\ posted'[i] = IF i <= Len(posted) THEN posted[i] ELSE C[i - Len(posted)]
      BY <3>1
    <3>3. CASE i <= Len(posted)
      <4>1. i \in DOMAIN posted
        BY <3>1, <3>2, <3>3
      <4> QED BY <3>2, <3>3, <4>1 DEF ForwarderInv
    <3>4. CASE ~(i <= Len(posted))
      <4>1. i - Len(posted) \in DOMAIN C
        BY <3>1, <3>2, <3>4
      <4> QED BY <2>2, <3>2, <3>4, <4>1 DEF C
    <3> QED BY <3>3, <3>4
  <2> QED BY <1>1, <1>3, <2>1, <2>3, <2>4 DEF PostedEvents
<1> QED BY <1>2, <1>3

\* A flush posts what waits, and nothing waits then.
LEMMA FlushKeeps ==
  ASSUME ForwarderInv, FlushOf(window)
  PROVE  /\ timer' = "unset" /\ window' = <<>> /\ posted' \in Seq(Seq(Nat))
         /\ \A i \in DOMAIN posted' : Len(posted'[i]) \in 1..MaxBatch
         /\ queue = "none" => posted' = posted
         /\ queue # "none" => PostedEvents' \o window' = PostedEvents \o window
<1>1. Post(window) /\ timer' = "unset" /\ window' = <<>> /\ window \in Seq(Nat)
  BY DEF FlushOf, Disarmed, ForwarderInv, Natural
<1>2. /\ posted' \in Seq(Seq(Nat)) /\ \A i \in DOMAIN posted' : Len(posted'[i]) \in 1..MaxBatch
      /\ queue = "none" => posted' = posted
      /\ PostedEvents' \in Seq(Nat) /\ (queue # "none" => PostedEvents' = PostedEvents \o window)
  BY <1>1, PostIs
<1>3. PostedEvents' \o <<>> = PostedEvents'
  BY <1>2, ConcatEmptySeq
<1> QED BY <1>1, <1>2, <1>3

\* The numbers of the first m events, and of the k that follow them.
First(m) == [i \in 1..m |-> i]
Following(m, k) == [i \in 1..k |-> m + i]

\* The events of a batch come after all that were emitted before.
LEMMA NumbersGrow ==
  ASSUME NEW m \in Nat, NEW k \in Nat, NEW a \in Seq(Nat), NEW b \in Seq(Nat),
         a \o b = First(m)
  PROVE  a \o (b \o Following(m, k)) = First(m + k)
<1> USE DEF First, Following
<1> DEFINE c == [i \in 1..k |-> m + i]
           d == [i \in 1..m |-> i]
<1>1. c \in Seq(Nat) /\ d \in Seq(Nat) /\ Len(c) = k /\ Len(d) = m
  OBVIOUS
<1>2. (a \o b) \o c = a \o (b \o c)
  <2> HIDE DEF c
  <2> QED BY <1>1, NatRegroup
<1>3. Len(d \o c) = m + k /\ d \o c \in Seq(Nat)
      /\ \A i \in 1..(m + k) : (d \o c)[i] = IF i <= m THEN d[i] ELSE c[i - m]
  <2> HIDE DEF c, d
  <2> QED BY <1>1, NatConcat
<1>4. ASSUME NEW i \in 1..(m + k) PROVE (d \o c)[i] = i
  <2>1. CASE i <= m
    BY <1>3, <2>1
  <2>2. CASE ~(i <= m)
    <3>1. i - m \in 1..k
      BY <2>2
    <3> QED BY <1>3, <2>2, <3>1
  <2> QED BY <2>1, <2>2
<1>5. d \o c = [i \in 1..(m + k) |-> i]
  <2> DEFINE e == d \o c
  <2>1. e \in Seq(Nat) /\ Len(e) = m + k /\ \A i \in 1..(m + k) : e[i] = i
    BY <1>3, <1>4
  <2> HIDE DEF e
  <2>2. DOMAIN e = 1..(m + k) /\ e = [i \in DOMAIN e |-> e[i]]
    BY <2>1
  <2>3. e = [i \in 1..(m + k) |-> i]
    BY <2>1, <2>2
  <2> QED BY <2>3 DEF e
<1> QED BY <1>2, <1>5

\* A batch of the driver's, or a lifecycle event, on its way into the window.
LEMMA EmitsKeeps ==
  ASSUME LifeInv, ForwarderInv, NEW k \in Nat, Emits(k), queue # "closed",
         n + k <= MaxEvents, phase # "over", UNCHANGED phase
  PROVE  ForwarderInv'
<1> DEFINE es == [i \in 1..k |-> n + i]
<1>1. /\ n \in Nat /\ n' = n + k /\ processors' = processors /\ es \in Seq(Nat) /\ Len(es) = k
      /\ IF "forwarder" \in processors THEN Collect(es) ELSE UNCHANGED forwarderVars
  BY DEF Emits, Emission, LifeInv
<1>2. CASE "forwarder" \notin processors
  <2>1. queue = "none" /\ UNCHANGED forwarderVars
    BY <1>1, <1>2 DEF ForwarderInv
  <2> QED BY <1>1, <1>2, <2>1 DEF ForwarderInv, forwarderVars, Natural
<1>3. CASE "forwarder" \in processors
  <2>1. queue = "open" /\ Collect(es) /\ queue' = queue /\ windowed' = windowed
    BY <1>1, <1>3 DEF ForwarderInv, Collect
  <2>2. window \in Seq(Nat) /\ posted \in Seq(Seq(Nat)) /\ PostedEvents \in Seq(Nat)
        /\ PostedEvents \o window = [i \in 1..n |-> i]
    <3>1. FlattenSeq(posted) \in Seq(Nat)
      BY <1>1, NatFlatten DEF ForwarderInv
    <3> QED BY <2>1, <3>1 DEF ForwarderInv, Natural, PostedEvents
  <2>3. PostedEvents \o (window \o es) = [i \in 1..(n + k) |-> i]
    <3> DEFINE a == PostedEvents
               b == window
    <3>1. a \in Seq(Nat) /\ b \in Seq(Nat) /\ a \o b = First(n) /\ n \in Nat
      BY <1>1, <2>2 DEF First
    <3> HIDE DEF a, b
    <3>2. a \o (b \o Following(n, k)) = First(n + k)
      BY <3>1, NumbersGrow
    <3> QED BY <3>2 DEF a, b, First, Following
  <2>4. window \o es \in Seq(Nat)
    BY <1>1, <2>2, NatConcat
  <2> HIDE DEF es
  <2> SUFFICES /\ ~windowed => window' = <<>>
               /\ timer' \in {"unset", "armed"} /\ window' \in Seq(Nat) /\ posted' \in Seq(Seq(Nat))
               /\ \A i \in DOMAIN posted' : Len(posted'[i]) \in 1..MaxBatch
               /\ PostedEvents' \o window' = PostedEvents \o (window \o es)
    BY <1>1, <1>3, <2>1, <2>3 DEF ForwarderInv, Natural
  <2>5. CASE es = <<>>
    <3>1. window \o es = window
      BY <2>2, <2>5, ConcatEmptySeq
    <3> QED BY <2>1, <2>2, <2>5, <3>1 DEF Collect, ForwarderInv, PostedEvents
  <2>6. CASE es # <<>> /\ ~windowed
    <3>1. Post(es) /\ UNCHANGED <<window, timer>>
      BY <2>1, <2>6 DEF Collect
    <3>2. window = <<>> /\ window \o es = es
      BY <1>1, <2>2, <2>6, ConcatEmptySeq DEF ForwarderInv
    <3>3. /\ posted' \in Seq(Seq(Nat)) /\ \A i \in DOMAIN posted' : Len(posted'[i]) \in 1..MaxBatch
          /\ PostedEvents' \in Seq(Nat) /\ PostedEvents' = PostedEvents \o es
      BY <1>1, <2>1, <3>1, PostIs
    <3>4. PostedEvents' \o <<>> = PostedEvents'
      BY <3>3, ConcatEmptySeq
    <3> QED BY <2>1, <2>2, <3>1, <3>2, <3>3, <3>4 DEF ForwarderInv
  <2>7. CASE es # <<>> /\ windowed /\ WindowFull(window \o es)
    <3>1. FlushOf(window \o es)
      BY <2>1, <2>7 DEF Collect
    <3>2. Post(window \o es) /\ window' = <<>> /\ timer' = "unset"
      BY <3>1 DEF FlushOf, Disarmed
    <3>3. /\ posted' \in Seq(Seq(Nat)) /\ \A i \in DOMAIN posted' : Len(posted'[i]) \in 1..MaxBatch
          /\ PostedEvents' \in Seq(Nat) /\ PostedEvents' = PostedEvents \o (window \o es)
      BY <2>1, <2>4, <3>2, PostIs
    <3>4. PostedEvents' \o <<>> = PostedEvents'
      BY <3>3, ConcatEmptySeq
    <3> QED BY <3>2, <3>3, <3>4
  <2>8. CASE es # <<>> /\ windowed /\ ~WindowFull(window \o es)
    <3>1. window' = window \o es /\ timer' \in {"unset", "armed"} /\ UNCHANGED posted
      BY <2>1, <2>8 DEF Collect, ForwarderInv
    <3>2. PostedEvents' \o window' = PostedEvents \o (window \o es)
      BY <3>1 DEF PostedEvents
    <3> QED BY <2>2, <2>4, <2>8, <3>1, <3>2 DEF ForwarderInv
  <2> QED BY <2>5, <2>6, <2>7, <2>8
<1> QED BY <1>2, <1>3

\* ForwarderInv holds from the start.
LEMMA ForwarderFirst == Init => ForwarderInv
BY FlattenNone, BatchAssumption
   DEF Init, ForwarderInit, BusInit, ForwarderInv, Natural, PostedEvents

\* Setting the forwarder up: nothing was emitted yet.
LEMMA OpensKeeps ==
  ASSUME LifeInv, ForwarderInv, n = 0, UNCHANGED <<n, phase>>,
         \/ ForwarderOpens /\ Process("forwarder")
         \/ UNCHANGED <<forwarderVars, processors>>
  PROVE  ForwarderInv'
<1>1. CASE UNCHANGED <<forwarderVars, processors>>
  BY <1>1 DEF ForwarderInv, forwarderVars, Natural, PostedEvents
<1>2. CASE ForwarderOpens /\ Process("forwarder")
  <2>1. /\ queue' = "open" /\ UNCHANGED <<windowed, window, timer, posted>>
        /\ processors' = processors \cup {"forwarder"}
    BY <1>2 DEF ForwarderOpens, Process
  <2>2. PostedEvents \o window = [i \in 1..n |-> i]
    <3>1. CASE queue = "none"
      <4>1. [i \in 1..0 |-> i] = <<>>
        OBVIOUS
      <4>2. <<>> \o <<>> = <<>>
        OBVIOUS
      <4> QED BY <3>1, <4>1, <4>2, FlattenNone DEF ForwarderInv, PostedEvents
    <3>2. CASE queue # "none"
      BY <3>2 DEF ForwarderInv
    <3> QED BY <3>1, <3>2
  <2>3. PostedEvents' \o window' = [i \in 1..n' |-> i]
    BY <2>1, <2>2 DEF PostedEvents
  <2> QED BY <2>1, <2>3 DEF ForwarderInv, Natural
<1> QED BY <1>1, <1>2

\* ForwarderInv is inductive, given what LifeInv says of both states.
LEMMA ForwarderNext == LifeInv /\ LifeInv' /\ ForwarderInv /\ [Next]_vars => ForwarderInv'
<1> SUFFICES ASSUME LifeInv, LifeInv', ForwarderInv, [Next]_vars PROVE ForwarderInv'
  OBVIOUS
<1>1. ASSUME UNCHANGED <<forwarderVars, n>>, processors' \subseteq {"forwarder", "live"},
             phase' = "over" \/ ("forwarder" \in processors' <=> "forwarder" \in processors),
             phase' = phase \/ phase = "alive" \/ (phase' \in {"disposing", "over"} /\ phase # "over"),
             queue = "none" => "forwarder" \notin processors'
      PROVE  ForwarderInv'
  <2>1. queue # "none" => PostedEvents' \o window' = [i \in 1..n' |-> i]
    BY <1>1 DEF ForwarderInv, forwarderVars, PostedEvents
  <2>2. queue' = "open" /\ phase' # "over" => "forwarder" \in processors'
    BY <1>1 DEF ForwarderInv, LifeInv, Phases, forwarderVars
  <2>3. queue' = "closed" => phase' \in {"disposing", "over"} /\ window' = <<>>
    BY <1>1 DEF ForwarderInv, LifeInv, Phases, forwarderVars
  <2> QED BY <1>1, <2>1, <2>2, <2>3 DEF ForwarderInv, forwarderVars, Natural
<1>2. ASSUME NEW p \in Plugin, Use(p) PROVE ForwarderInv'
  BY <1>1, <1>2 DEF Use, busVars, ForwarderInv
<1>3. CASE FirstOperation \/ SetupEnds
  <2>1. PICK i, s : SetupCalls(i, s)
    BY <1>3 DEF FirstOperation, SetupEnds
  <2>2. n = 0 /\ UNCHANGED <<n, phase>>
    BY <1>3 DEF FirstOperation, SetupEnds, LifeInv
  <2>3. \/ ForwarderOpens /\ Process("forwarder")
        \/ UNCHANGED <<forwarderVars, processors>>
    BY <2>1 DEF SetupCalls
  <2> QED BY <2>2, <2>3, OpensKeeps
<1>4. CASE SetupFails
  BY <1>1, <1>4 DEF SetupFails, busVars, ForwarderInv
<1>5. CASE SessionStarts
  BY <1>1, <1>5 DEF SessionStarts, busVars, ForwarderInv
<1>6. ASSUME NEW k \in 0..MaxDriverBatch, SessionEmits(k) PROVE ForwarderInv'
  <2>1. /\ Emits(k) /\ UNCHANGED phase /\ k \in Nat /\ phase # "over" /\ n + k <= MaxEvents
        /\ queue # "closed"
    BY <1>6, EventAssumption DEF SessionEmits, LifeInv, ForwarderInv
  <2> QED BY <2>1, EmitsKeeps
<1>7. CASE Destroy
  BY <1>1, <1>7 DEF Destroy, busVars, ForwarderInv, Alive
<1>8. CASE LastEvent
  <2>1. /\ Emits(1) /\ UNCHANGED phase /\ phase # "over" /\ n + 1 <= MaxEvents /\ queue # "closed"
    BY <1>8, EventAssumption DEF LastEvent, LifeInv, ForwarderInv
  <2> QED BY <2>1, EmitsKeeps
<1>9. CASE DisposeStarts
  BY <1>1, <1>9 DEF DisposeStarts, busVars, ForwarderInv
<1>10. CASE DisposeNext
  <2>1. CASE Head(doomed) # Webhook
    <3>1. UNCHANGED <<forwarderVars, processors, n, phase>>
      BY <1>10, <2>1 DEF DisposeNext
    <3> QED BY <1>1, <3>1 DEF ForwarderInv
  <2>2. CASE Head(doomed) = Webhook
    <3>1. /\ FlushOf(window) /\ queue' = (IF queue = "open" THEN "closed" ELSE queue)
          /\ UNCHANGED <<windowed, n, phase>> /\ phase = "disposing"
          /\ processors' = processors \ {"forwarder"}
      BY <1>10, <2>2 DEF DisposeNext, ForwarderCloses, Remainder, Unprocess
    <3>2. /\ timer' = "unset" /\ window' = <<>> /\ posted' \in Seq(Seq(Nat))
          /\ \A i \in DOMAIN posted' : Len(posted'[i]) \in 1..MaxBatch
          /\ queue = "none" => posted' = posted
          /\ queue # "none" => PostedEvents' \o window' = PostedEvents \o window
      BY <3>1, FlushKeeps
    <3>3. queue' # "none" => PostedEvents' \o window' = [i \in 1..n' |-> i]
      BY <3>1, <3>2 DEF ForwarderInv
    <3> QED BY <3>1, <3>2, <3>3 DEF ForwarderInv, Natural
  <2> QED BY <2>1, <2>2
<1>11. CASE DestroyEnds
  <2>1. phase' = "over" /\ processors' = {} /\ UNCHANGED <<forwarderVars, n>>
    BY <1>11 DEF DestroyEnds, RemoveAllListeners
  <2> QED BY <1>1, <2>1
<1>12. CASE ServerStarts
  BY <1>1, <1>12 DEF ServerStarts, Process, ForwarderInv
<1>13. CASE ServerCloses
  BY <1>1, <1>13 DEF ServerCloses, Unprocess, ForwarderInv
<1>14. ASSUME NEW s \in Stream, StreamOpens(s) \/ Streaming(s) PROVE ForwarderInv'
  <2>1. UNCHANGED <<busVars, forwarderVars, clientVars>>
    BY <1>14 DEF StreamOpens, Streaming
  <2> QED BY <1>1, <2>1 DEF busVars, clientVars, ForwarderInv
<1>15. CASE Listening
  <2>1. UNCHANGED <<processors, forwarderVars, clientVars>>
    BY <1>15 DEF Listening, BusStep, Off, Listen
  <2> QED BY <1>1, <2>1 DEF clientVars, ForwarderInv
<1>16. CASE Forwarding
  <2>1. FlushOf(window) /\ UNCHANGED <<windowed, queue, processors, n, phase>>
    BY <1>16 DEF Forwarding, ForwarderStep, WindowEnds, FlushCall, busVars, clientVars
  <2>2. /\ timer' = "unset" /\ window' = <<>> /\ posted' \in Seq(Seq(Nat))
        /\ \A i \in DOMAIN posted' : Len(posted'[i]) \in 1..MaxBatch
        /\ queue = "none" => posted' = posted
        /\ queue # "none" => PostedEvents' \o window' = PostedEvents \o window
    BY <2>1, FlushKeeps
  <2>3. queue' # "none" => PostedEvents' \o window' = [i \in 1..n' |-> i]
    BY <2>1, <2>2 DEF ForwarderInv
  <2> QED BY <2>1, <2>2, <2>3 DEF ForwarderInv, Natural
<1>17. CASE UNCHANGED vars
  BY <1>1, <1>17 DEF vars, busVars, clientVars, ForwarderInv
<1> QED BY <1>2, <1>3, <1>4, <1>5, <1>6, <1>7, <1>8, <1>9, <1>10, <1>11, <1>12, <1>13, <1>14, <1>15,
           <1>16, <1>17 DEF Next

-----------------------------------------------------------------------------
(* The bus                                                                   *)

Asks == [Listener -> Kinds \cup {"none", "shared"}]
Caches == [Listener -> Kinds \cup {"none"}]

\* The bus b holds one wrapper for each listener that a has asked for, and no
\* other.  A listener that shares its wrapper is held once at least, and once
\* more as long as that wrapper is cached and can be taken off.
Subscribed(b, a) ==
  /\ b.handlers \in Seq(Entry) /\ a \in Asks /\ b.wrappers \in Caches
  /\ \A l \in Listener : a[l] # "shared" => b.wrappers[l] = a[l]
  /\ \A i \in DOMAIN b.handlers : a[b.handlers[i].listener] \in {b.handlers[i].kind, "shared"}
  /\ \A i, j \in DOMAIN b.handlers :
       b.handlers[i].listener = b.handlers[j].listener /\ a[b.handlers[i].listener] # "shared" => i = j
  /\ \A l \in Listener : a[l] # "none" => \E i \in DOMAIN b.handlers : b.handlers[i].listener = l
  /\ \A l \in Listener : a[l] = "shared" /\ b.wrappers[l] # "none" =>
       \E i, j \in DOMAIN b.handlers : i # j /\ b.handlers[i].listener = l /\ b.handlers[j].listener = l

\* What is asked for once a wrapper of l was taken off.
Released(a, l) == [a EXCEPT ![l] = IF a[l] = "shared" THEN "shared" ELSE "none"]

\* removeAllListeners keeps the wrappers; nobody listens any more then.
BusInv ==
  IF phase = "over" THEN handlers = <<>> /\ asked = [l \in Listener |-> "none"]
  ELSE Subscribed(Bus, asked)

\* What RemoveAt returns.
LEMMA RemoveAtIs ==
  ASSUME NEW X, NEW s \in Seq(X), NEW i \in DOMAIN s
  PROVE  /\ RemoveAt(s, i) \in Seq(X) /\ DOMAIN RemoveAt(s, i) = 1..(Len(s) - 1)
         /\ \A j \in 1..(Len(s) - 1) : RemoveAt(s, i)[j] = IF j < i THEN s[j] ELSE s[j + 1]
<1> DEFINE m == Len(s)
           a == SubSeq(s, 1, i - 1)
           b == SubSeq(s, i + 1, m)
<1>0. m \in Nat /\ i \in 1..m /\ \A k \in 1..m : s[k] \in X
  OBVIOUS
<1>1. a \in Seq(X) /\ Len(a) = i - 1 /\ \A j \in 1..(i - 1) : a[j] = s[j]
  <2>1. \A k \in 1..(i - 1) : s[k] \in X
    BY <1>0
  <2> QED BY <1>0, <2>1, SubSeqProperties
<1>2. b \in Seq(X) /\ Len(b) = m - i /\ \A j \in 1..(m - i) : b[j] = s[i + j]
  <2>1. \A k \in (i + 1)..m : s[k] \in X
    BY <1>0
  <2> HIDE DEF m
  <2> QED BY <1>0, <2>1, SubSeqProperties
<1>3. RemoveAt(s, i) = a \o b
  BY DEF RemoveAt
<1> HIDE DEF a, b
<1>4. /\ a \o b \in Seq(X) /\ Len(a \o b) = Len(a) + Len(b)
      /\ \A j \in 1..(Len(a) + Len(b)) : (a \o b)[j] = IF j <= Len(a) THEN a[j] ELSE b[j - Len(a)]
  BY <1>1, <1>2, ConcatProperties
<1>5. Len(a \o b) = m - 1
  BY <1>0, <1>1, <1>2, <1>4
<1>6. ASSUME NEW j \in 1..(m - 1) PROVE (a \o b)[j] = IF j < i THEN s[j] ELSE s[j + 1]
  <2>0. Len(a) = i - 1 /\ Len(a) + Len(b) = m - 1
    BY <1>0, <1>1, <1>2
  <2>1. (a \o b)[j] = IF j <= i - 1 THEN a[j] ELSE b[j - (i - 1)]
    BY <1>4, <2>0
  <2>2. CASE j < i
    BY <1>0, <1>1, <2>1, <2>2
  <2>3. CASE ~(j < i)
    <3>1. j - (i - 1) \in 1..(m - i) /\ i + (j - (i - 1)) = j + 1
      BY <1>0, <2>3
    <3> QED BY <1>0, <1>2, <2>1, <2>3, <3>1
  <2> QED BY <2>2, <2>3
<1>7. DOMAIN (a \o b) = 1..(m - 1)
  BY <1>4, <1>5
<1> QED BY <1>3, <1>4, <1>6, <1>7

\* Which wrapper off finds: the last one like it, if there is one.
LEMMA WithoutLastIs ==
  ASSUME NEW h \in Seq(Entry), NEW w
  PROVE  \/ WithoutLast(h, w) = h /\ \A i \in DOMAIN h : h[i] # w
         \/ \E i \in DOMAIN h : h[i] = w /\ WithoutLast(h, w) = RemoveAt(h, i)
<1> DEFINE places == {i \in DOMAIN h : h[i] = w}
<1>1. CASE places = {}
  BY <1>1 DEF WithoutLast
<1>2. CASE places # {}
  <2>1. Len(h) \in Nat /\ DOMAIN h = 1..Len(h)
    OBVIOUS
  <2>2. \E i \in places : \A k \in places : k <= i
    <3>1. places \subseteq 1..Len(h)
      BY <2>1
    <3> HIDE DEF places
    <3> QED BY <1>2, <2>1, <3>1, Largest
  <2> DEFINE last == CHOOSE i \in places : \A k \in places : k <= i
  <2>3. last \in places
    BY <2>2
  <2>4. WithoutLast(h, w) = RemoveAt(h, last)
    BY <1>2 DEF WithoutLast
  <2> HIDE DEF last
  <2> QED BY <2>3, <2>4
<1> QED BY <1>1, <1>2

\* What is left of a list without the wrapper at i.
LEMMA Shorter ==
  ASSUME NEW h \in Seq(Entry), NEW i \in DOMAIN h
  PROVE  LET g == RemoveAt(h, i)
         IN /\ g \in Seq(Entry)
            /\ \A j \in DOMAIN g : \E q \in DOMAIN h : q # i /\ g[j] = h[q]
            /\ \A j, k \in DOMAIN g : j # k =>
                 \E q, r \in DOMAIN h : q # i /\ r # i /\ q # r /\ g[j] = h[q] /\ g[k] = h[r]
            /\ \A q \in DOMAIN h : q # i => \E j \in DOMAIN g : g[j] = h[q]
            /\ \A q, r \in DOMAIN h : q # i /\ r # i /\ q # r =>
                 \E j, k \in DOMAIN g : j # k /\ g[j] = h[q] /\ g[k] = h[r]
<1> DEFINE g == RemoveAt(h, i)
           m == Len(h)
           at(j) == IF j < i THEN j ELSE j + 1
           back(q) == IF q < i THEN q ELSE q - 1
<1>1. m \in Nat /\ DOMAIN h = 1..m /\ i \in 1..m
  OBVIOUS
<1>2. /\ g \in Seq(Entry) /\ DOMAIN g = 1..(m - 1)
      /\ \A j \in 1..(m - 1) : g[j] = IF j < i THEN h[j] ELSE h[j + 1]
  BY RemoveAtIs
<1> HIDE DEF g, m
<1>3. \A j \in DOMAIN g : g[j] = h[at(j)] /\ at(j) \in DOMAIN h /\ at(j) # i
  BY <1>1, <1>2
<1>4. \A j, k \in DOMAIN g : j # k => at(j) # at(k)
  BY <1>1, <1>2
<1>5. \A q \in DOMAIN h : q # i => back(q) \in DOMAIN g /\ at(back(q)) = q
  BY <1>1, <1>2
<1>6. \A q, r \in DOMAIN h : q # i /\ r # i /\ q # r => back(q) # back(r)
  BY <1>1
<1> HIDE DEF at, back
<1>7. \A q \in DOMAIN h : q # i => back(q) \in DOMAIN g /\ g[back(q)] = h[q]
  BY <1>3, <1>5
<1>8. \A j \in DOMAIN g : \E q \in DOMAIN h : q # i /\ g[j] = h[q]
  BY <1>3
<1>9. ASSUME NEW j \in DOMAIN g, NEW k \in DOMAIN g, j # k
      PROVE  \E q, r \in DOMAIN h : q # i /\ r # i /\ q # r /\ g[j] = h[q] /\ g[k] = h[r]
  BY <1>3, <1>4, <1>9
<1>10. \A q \in DOMAIN h : q # i => \E j \in DOMAIN g : g[j] = h[q]
  BY <1>7
<1>11. ASSUME NEW q \in DOMAIN h, NEW r \in DOMAIN h, q # i, r # i, q # r
       PROVE  \E j, k \in DOMAIN g : j # k /\ g[j] = h[q] /\ g[k] = h[r]
  BY <1>6, <1>7, <1>11
<1> QED BY <1>2, <1>8, <1>9, <1>10, <1>11 DEF g

\* What off leaves: the other listeners' wrappers, as they were.
LEMMA WithoutKeeps ==
  ASSUME NEW b, NEW a, Subscribed(b, a), NEW l \in Listener
  PROVE  Subscribed(Without(b, l), Released(a, l))
<1> DEFINE h == b.handlers
           c == b.wrappers
           z == Released(a, l)
<1>0. /\ h \in Seq(Entry) /\ a \in Asks /\ c \in Caches /\ z \in Asks
      /\ \A k \in Listener : z[k] = IF k = l /\ a[l] # "shared" THEN "none" ELSE a[k]
      /\ \A i \in DOMAIN h : h[i] \in Entry /\ h[i].listener \in Listener /\ h[i].kind \in Kinds
  <2>1. h \in Seq(Entry) /\ a \in Asks /\ c \in Caches
    BY DEF Subscribed
  <2>2. z \in Asks /\ \A k \in Listener : z[k] = IF k = l /\ a[l] # "shared" THEN "none" ELSE a[k]
    BY <2>1 DEF Released, Asks
  <2>3. \A i \in DOMAIN h : h[i] \in Entry
    BY <2>1
  <2> QED BY <2>1, <2>2, <2>3 DEF Entry
<1>a. /\ \A k \in Listener : a[k] # "shared" => c[k] = a[k]
      /\ \A i \in DOMAIN h : a[h[i].listener] \in {h[i].kind, "shared"}
      /\ \A i, j \in DOMAIN h : h[i].listener = h[j].listener /\ a[h[i].listener] # "shared" => i = j
      /\ \A k \in Listener : a[k] # "none" => \E i \in DOMAIN h : h[i].listener = k
      /\ \A k \in Listener : a[k] = "shared" /\ c[k] # "none" =>
           \E i, j \in DOMAIN h : i # j /\ h[i].listener = k /\ h[j].listener = k
  BY DEF Subscribed
<1>1. CASE c[l] = "none"
  <2>1. a[l] = "none" \/ a[l] = "shared"
    BY <1>1, <1>a
  <2>2. z = a /\ Without(b, l) = b
    BY <1>0, <1>1, <2>1 DEF Without, Asks, Released
  <2> QED BY <2>2
<1>2. CASE c[l] # "none"
  <2> DEFINE w == [listener |-> l, kind |-> c[l]]
             g == WithoutLast(h, w)
             d == [c EXCEPT ![l] = "none"]
  <2>1. Without(b, l) = [handlers |-> g, wrappers |-> d]
    BY <1>2 DEF Without, Forgotten
  <2>2. d \in Caches /\ \A k \in Listener : d[k] = IF k = l THEN "none" ELSE c[k]
    BY <1>0 DEF Caches
  <2>w. w.listener = l
    OBVIOUS
  <2> HIDE DEF h, c, z, w, d
  <2>3. CASE g = h /\ \A i \in DOMAIN h : h[i] # w
    <3>1. a[l] = "shared"
      <4> SUFFICES ASSUME a[l] # "shared" PROVE FALSE
        OBVIOUS
      <4>1. PICK i \in DOMAIN h : h[i].listener = l
        BY <1>2, <1>a
      <4>2. h[i].kind = c[l]
        BY <1>a, <4>1
      <4>3. h[i] = [listener |-> h[i].listener, kind |-> h[i].kind]
        BY <1>0 DEF Entry
      <4>4. h[i] = w
        BY <4>1, <4>2, <4>3 DEF w
      <4> QED BY <2>3, <4>4
    <3>2. z = a
      BY <1>0, <3>1 DEF z, Released, Asks
    <3>3. \A k \in Listener : z[k] # "shared" => d[k] = z[k]
      BY <1>a, <2>2, <3>1, <3>2
    <3>4. \A k \in Listener : z[k] = "shared" /\ d[k] # "none" =>
            \E i, j \in DOMAIN h : i # j /\ h[i].listener = k /\ h[j].listener = k
      BY <1>a, <2>2, <3>2
    <3>5. Subscribed([handlers |-> h, wrappers |-> d], z)
      BY <1>0, <1>a, <2>2, <3>2, <3>3, <3>4 DEF Subscribed
    <3> QED BY <2>1, <2>3, <3>5 DEF z
  <2>4. ASSUME NEW i \in DOMAIN h, h[i] = w, g = RemoveAt(h, i)
        PROVE  Subscribed([handlers |-> g, wrappers |-> d], z)
    <3>0. h[i].listener = l
      BY <2>4, <2>w
    <3>1. /\ g \in Seq(Entry)
          /\ \A j \in DOMAIN g : \E q \in DOMAIN h : q # i /\ g[j] = h[q]
          /\ \A j, k \in DOMAIN g : j # k =>
               \E q, r \in DOMAIN h : q # i /\ r # i /\ q # r /\ g[j] = h[q] /\ g[k] = h[r]
          /\ \A q \in DOMAIN h : q # i => \E j \in DOMAIN g : g[j] = h[q]
          /\ \A q, r \in DOMAIN h : q # i /\ r # i /\ q # r =>
               \E j, k \in DOMAIN g : j # k /\ g[j] = h[q] /\ g[k] = h[r]
      BY <1>0, <2>4, Shorter
    <3> HIDE DEF g
    <3>2. \A k \in Listener : z[k] # "shared" => d[k] = z[k]
      BY <1>0, <1>a, <2>2
    <3>3. \A j \in DOMAIN g : z[g[j].listener] \in {g[j].kind, "shared"}
      <4> SUFFICES ASSUME NEW j \in DOMAIN g PROVE z[g[j].listener] \in {g[j].kind, "shared"}
        OBVIOUS
      <4>1. PICK q \in DOMAIN h : q # i /\ g[j] = h[q]
        BY <3>1
      <4>2. a[h[q].listener] \in {h[q].kind, "shared"} /\ h[q].listener \in Listener
        BY <1>0, <1>a
      <4>3. h[q].listener = l => a[l] = "shared"
        BY <1>a, <3>0, <4>1
      <4>4. z[h[q].listener] = a[h[q].listener]
        BY <1>0, <4>2, <4>3
      <4> QED BY <4>1, <4>2, <4>4
    <3>4. ASSUME NEW j \in DOMAIN g, NEW k \in DOMAIN g, j # k, g[j].listener = g[k].listener
          PROVE  z[g[j].listener] = "shared"
      <4>1. PICK q \in DOMAIN h, r \in DOMAIN h :
              q # i /\ r # i /\ q # r /\ g[j] = h[q] /\ g[k] = h[r]
        BY <3>1, <3>4
      <4>2. a[h[q].listener] = "shared" /\ h[q].listener \in Listener
        BY <1>0, <1>a, <3>4, <4>1
      <4>3. z[h[q].listener] = "shared"
        BY <1>0, <4>2
      <4> QED BY <4>1, <4>3
    <3>5. ASSUME NEW k \in Listener, z[k] # "none" PROVE \E j \in DOMAIN g : g[j].listener = k
      <4>1. PICK q \in DOMAIN h : q # i /\ h[q].listener = k
        <5>1. CASE k = l
          <6>1. a[l] = "shared"
            BY <1>0, <3>5, <5>1
          <6>2. PICK q \in DOMAIN h, r \in DOMAIN h : q # r /\ h[q].listener = l /\ h[r].listener = l
            BY <1>2, <1>a, <6>1
          <6> QED BY <5>1, <6>2
        <5>2. CASE k # l
          <6>1. a[k] # "none"
            BY <1>0, <3>5, <5>2
          <6>2. PICK q \in DOMAIN h : h[q].listener = k
            BY <1>a, <6>1
          <6> QED BY <3>0, <5>2, <6>2
        <5> QED BY <5>1, <5>2
      <4> QED BY <3>1, <4>1
    <3>6. ASSUME NEW k \in Listener, z[k] = "shared", d[k] # "none"
          PROVE  \E x, y \in DOMAIN g : x # y /\ g[x].listener = k /\ g[y].listener = k
      <4>1. k # l /\ a[k] = "shared" /\ c[k] # "none"
        BY <1>0, <2>2, <3>6
      <4>2. PICK q \in DOMAIN h, r \in DOMAIN h : q # r /\ h[q].listener = k /\ h[r].listener = k
        BY <1>a, <4>1
      <4>3. q # i /\ r # i
        <5>1. \A x \in DOMAIN h : h[x].listener = k => x # i
          BY <3>0, <4>1
        <5> QED BY <4>2, <5>1
      <4>4. PICK x \in DOMAIN g, y \in DOMAIN g : x # y /\ g[x] = h[q] /\ g[y] = h[r]
        BY <3>1, <4>2, <4>3
      <4>5. g[x].listener = k /\ g[y].listener = k
        BY <4>2, <4>4
      <4> QED BY <4>4, <4>5
    <3>7. \A j, k \in DOMAIN g : g[j].listener = g[k].listener /\ z[g[j].listener] # "shared" => j = k
      BY <3>4
    <3> QED BY <1>0, <2>2, <3>1, <3>2, <3>3, <3>5, <3>6, <3>7 DEF Subscribed
  <2>5. \/ g = h /\ \A i \in DOMAIN h : h[i] # w
        \/ \E i \in DOMAIN h : h[i] = w /\ g = RemoveAt(h, i)
    <3> HIDE DEF g
    <3> QED BY <1>0, WithoutLastIs DEF g
  <2>6. CASE \E i \in DOMAIN h : h[i] = w /\ g = RemoveAt(h, i)
    <3> HIDE DEF g
    <3> QED BY <2>1, <2>4, <2>6 DEF z
  <2> QED BY <2>3, <2>5, <2>6
<1> QED BY <1>1, <1>2

\* The listeners are asked for until their turn in the copied list comes.
After(k) ==
  [l \in Listener |-> IF asked[l] = "once" /\ \E i \in 1..k : handlers[i].listener = l
                      THEN "none" ELSE asked[l]]

\* emit leaves the listeners that are still asked for, one wrapper each: the
\* one-shot ones among the first k of the copy are gone when k have run.
LEMMA EmissionKeeps ==
  ASSUME Subscribed(Bus, asked), Emission
  PROVE  Subscribed(Bus, asked)'
<1> DEFINE m == Len(handlers)
<1>0. /\ Bus.handlers = handlers /\ handlers \in Seq(Entry) /\ asked \in Asks /\ m \in Nat
      /\ DOMAIN handlers = 1..m
      /\ \A i \in 1..m : /\ handlers[i].listener \in Listener /\ handlers[i].kind \in Kinds
                         /\ asked[handlers[i].listener] \in {handlers[i].kind, "shared"}
  <2>1. /\ handlers \in Seq(Entry) /\ asked \in Asks
        /\ \A i \in DOMAIN handlers : asked[handlers[i].listener] \in {handlers[i].kind, "shared"}
    BY DEF Subscribed, Bus
  <2>2. m \in Nat /\ DOMAIN handlers = 1..m /\ \A i \in 1..m : handlers[i] \in Entry
    BY <2>1
  <2> QED BY <2>1, <2>2 DEF Entry, Bus
<1>1. PICK f : /\ f[0] = Bus /\ EmitFrom(Bus, handlers) = f[m]
               /\ \A k \in 1..m : f[k] = Fired(f[k - 1], handlers[k])
  <2>1. \A b : \E f : /\ f[0] = b /\ EmitFrom(b, handlers) = f[Len(handlers)]
                      /\ \A k \in 1..Len(handlers) : f[k] = Fired(f[k - 1], handlers[k])
    BY <1>0, FoldFired
  <2> QED BY <2>1
<1> HIDE DEF m
<1>2. \A k \in 0..m : After(k) \in Asks
  BY <1>0 DEF After, Asks
<1> DEFINE S == {k \in 0..m : Subscribed(f[k], After(k))}
<1>3. 0 \in S
  <2>1. After(0) = asked
    BY <1>0 DEF After, Asks
  <2> QED BY <1>0, <1>1, <2>1
<1>4. ASSUME NEW k \in 0..(m - 1), k \in S PROVE k + 1 \in S
  <2> DEFINE w == handlers[k + 1]
  <2>1. k + 1 \in 1..m /\ (k + 1) - 1 = k /\ k \in 0..m /\ k + 1 \in 0..m
    BY <1>0
  <2>2. f[k + 1] = Fired(f[k], w) /\ w.listener \in Listener /\ asked[w.listener] \in {w.kind, "shared"}
    BY <1>0, <1>1, <2>1
  <2>3. Subscribed(f[k], After(k))
    BY <1>4
  <2>4. \A l \in Listener : (\E i \in 1..(k + 1) : handlers[i].listener = l)
                            <=> (w.listener = l \/ \E i \in 1..k : handlers[i].listener = l)
    BY <1>0, <2>1
  <2> HIDE DEF w
  <2>5. CASE w.kind = "once"
    <3>1. f[k + 1] = Without(f[k], w.listener)
      BY <2>2, <2>5 DEF Fired
    <3>2. After(k + 1) = Released(After(k), w.listener)
      <4>1. asked[w.listener] \in {"once", "shared"}
        BY <2>2, <2>5
      <4>2. After(k)[w.listener] = "shared" <=> asked[w.listener] = "shared"
        BY <2>2 DEF After
      <4> QED BY <2>2, <2>4, <4>1, <4>2 DEF After, Released
    <3> QED BY <2>1, <2>2, <2>3, <3>1, <3>2, WithoutKeeps
  <2>6. CASE w.kind # "once"
    <3>1. f[k + 1] = f[k]
      BY <2>2, <2>6 DEF Fired
    <3>2. After(k + 1) = After(k)
      <4>1. asked[w.listener] # "once"
        BY <2>2, <2>6
      <4> QED BY <2>4, <4>1 DEF After
    <3> QED BY <2>1, <2>3, <3>1, <3>2
  <2> QED BY <2>5, <2>6
<1> HIDE DEF S
<1>5. m \in S
  <2>1. 0..m \subseteq S
    BY <1>0, <1>3, <1>4, StepByStep
  <2> QED BY <1>0, <2>1
<1>6. Subscribed(f[m], After(m))
  BY <1>5 DEF S
<1>7. After(m) = asked'
  <2>1. \A l \in Listener : asked[l] # "none" => \E i \in 1..m : handlers[i].listener = l
    BY <1>0 DEF Subscribed
  <2> QED BY <2>1 DEF After, Emission
<1>8. Bus'.handlers = f[m].handlers /\ Bus'.wrappers = f[m].wrappers
  <2>1. BusBecomes(EmitFrom(Bus, handlers))
    BY DEF Emission, EmitFrom, FoldLeft, MapThenFoldSet
  <2> QED BY <1>1, <2>1 DEF BusBecomes, Bus
<1> QED BY <1>6, <1>7, <1>8 DEF Subscribed

\* on and once add a wrapper: the listener's cached one, or a new one.
LEMMA ListenKeeps ==
  ASSUME Subscribed(Bus, asked), NEW l \in Listener, NEW kind \in Kinds, Listen(l, kind)
  PROVE  Subscribed(Bus, asked)'
<1>1. /\ Bus.handlers = handlers /\ Bus.wrappers = wrappers
      /\ Bus'.handlers = handlers' /\ Bus'.wrappers = wrappers'
  BY DEF Bus
<1>2. /\ handlers \in Seq(Entry) /\ asked \in Asks /\ wrappers \in Caches
      /\ \A i \in DOMAIN handlers : handlers[i] \in Entry
  <2>1. handlers \in Seq(Entry) /\ asked \in Asks /\ wrappers \in Caches
    BY <1>1 DEF Subscribed
  <2> QED BY <2>1
<1>a. /\ \A k \in Listener : asked[k] # "shared" => wrappers[k] = asked[k]
      /\ \A i \in DOMAIN handlers : asked[handlers[i].listener] \in {handlers[i].kind, "shared"}
      /\ \A i, j \in DOMAIN handlers :
           handlers[i].listener = handlers[j].listener /\ asked[handlers[i].listener] # "shared" => i = j
      /\ \A k \in Listener : asked[k] # "none" => \E i \in DOMAIN handlers : handlers[i].listener = k
      /\ \A k \in Listener : asked[k] = "shared" /\ wrappers[k] # "none" =>
           \E i, j \in DOMAIN handlers : i # j /\ handlers[i].listener = k /\ handlers[j].listener = k
  BY <1>1 DEF Subscribed
<1> DEFINE kd == Wrapper(l, kind)
           e == [listener |-> l, kind |-> kd]
           m == Len(handlers)
           want == IF asked[l] = "none" THEN kind ELSE "shared"
<1>3. kd \in Kinds /\ (asked[l] = "none" => kd = kind)
  BY <1>2, <1>a DEF Wrapper, Caches
<1>4. /\ handlers' = Append(handlers, e)
      /\ asked' \in Asks /\ \A k \in Listener : asked'[k] = IF k = l THEN want ELSE asked[k]
      /\ wrappers' \in Caches /\ \A k \in Listener : wrappers'[k] = IF k = l THEN kd ELSE wrappers[k]
  <2> HIDE DEF kd
  <2>1. handlers' = Append(handlers, e) /\ wrappers' = [wrappers EXCEPT ![l] = kd]
        /\ asked' = [asked EXCEPT ![l] = want]
    BY <1>2 DEF Listen, kd, Asks
  <2> QED BY <1>2, <1>3, <2>1 DEF Asks, Caches
<1> HIDE DEF kd
<1>5. e \in Entry /\ e.listener = l /\ e.kind = kd
  BY <1>3 DEF Entry
<1> HIDE DEF e
<1>6. /\ handlers' \in Seq(Entry) /\ m \in Nat /\ DOMAIN handlers = 1..m /\ DOMAIN handlers' = 1..(m + 1)
      /\ handlers'[m + 1] = e /\ \A i \in 1..m : handlers'[i] = handlers[i]
  BY <1>2, <1>4, <1>5
<1> HIDE DEF m
<1>7. \A i \in 1..m : handlers[i].kind \in Kinds /\ handlers[i].listener \in Listener
  BY <1>2, <1>6 DEF Entry
<1>b. \A i \in 1..m : handlers[i].listener = l => asked[l] # "none"
  BY <1>7, <1>a, <1>6 DEF Kinds
<1>c. kind # "shared" /\ kind # "none"
  BY DEF Kinds
<1>8. \A k \in Listener : asked'[k] # "shared" => wrappers'[k] = asked'[k]
  BY <1>3, <1>4, <1>a
<1>9. \A i \in DOMAIN handlers' : asked'[handlers'[i].listener] \in {handlers'[i].kind, "shared"}
  <2> SUFFICES ASSUME NEW i \in 1..(m + 1)
               PROVE  asked'[handlers'[i].listener] \in {handlers'[i].kind, "shared"}
    BY <1>6
  <2>1. CASE i = m + 1
    BY <1>3, <1>4, <1>5, <1>6, <2>1
  <2>2. CASE i \in 1..m
    <3>1. handlers'[i] = handlers[i] /\ handlers[i].listener \in Listener
      BY <1>6, <1>7, <2>2
    <3>2. asked[handlers[i].listener] \in {handlers[i].kind, "shared"}
      BY <1>6, <1>a, <2>2
    <3>3. handlers[i].listener = l => asked'[l] = "shared"
      BY <1>4, <1>b, <2>2
    <3> QED BY <1>4, <3>1, <3>2, <3>3
  <2> QED BY <1>6, <2>1, <2>2
<1>10. \A i, j \in DOMAIN handlers' :
         handlers'[i].listener = handlers'[j].listener /\ asked'[handlers'[i].listener] # "shared" => i = j
  <2> SUFFICES ASSUME NEW i \in 1..(m + 1), NEW j \in 1..(m + 1),
                      handlers'[i].listener = handlers'[j].listener, asked'[handlers'[i].listener] # "shared"
               PROVE  i = j
    BY <1>6
  <2>1. i \in 1..m \/ i = m + 1
    BY <1>6
  <2>2. j \in 1..m \/ j = m + 1
    BY <1>6
  <2>3. \A x \in 1..m : handlers[x].listener = l => asked'[l] = "shared"
    BY <1>4, <1>b
  <2>4. CASE i \in 1..m /\ j \in 1..m
    <3>1. /\ handlers'[i] = handlers[i] /\ handlers'[j] = handlers[j] /\ i \in DOMAIN handlers /\ j \in DOMAIN handlers
          /\ handlers[i].listener \in Listener
      BY <1>6, <1>7, <2>4
    <3>2. handlers[i].listener # l
      BY <2>3, <2>4, <3>1
    <3>3. asked[handlers[i].listener] # "shared"
      BY <1>4, <3>1, <3>2
    <3> QED BY <1>a, <3>1, <3>3
  <2>5. CASE i \in 1..m /\ j = m + 1
    BY <1>5, <1>6, <2>3, <2>5
  <2>6. CASE i = m + 1 /\ j \in 1..m
    BY <1>5, <1>6, <2>3, <2>6
  <2> QED BY <2>1, <2>2, <2>4, <2>5, <2>6
<1>11. ASSUME NEW k \in Listener, asked'[k] # "none" PROVE \E i \in DOMAIN handlers' : handlers'[i].listener = k
  <2>1. CASE k = l
    BY <1>5, <1>6, <2>1
  <2>2. CASE k # l
    <3>1. PICK i \in DOMAIN handlers : handlers[i].listener = k
      BY <1>4, <1>a, <1>11, <2>2
    <3> QED BY <1>6, <3>1
  <2> QED BY <2>1, <2>2
<1>12. ASSUME NEW k \in Listener, asked'[k] = "shared", wrappers'[k] # "none"
       PROVE  \E i, j \in DOMAIN handlers' : i # j /\ handlers'[i].listener = k /\ handlers'[j].listener = k
  <2>1. CASE k = l
    <3>1. asked[l] # "none"
      BY <1>4, <1>12, <1>c, <2>1
    <3>2. PICK i \in 1..m : handlers[i].listener = l
      BY <1>6, <1>a, <3>1
    <3>3. i # m + 1 /\ i \in 1..(m + 1) /\ m + 1 \in 1..(m + 1) /\ handlers'[i].listener = l
      BY <1>6, <3>2
    <3> QED BY <1>5, <1>6, <2>1, <3>3
  <2>2. CASE k # l
    <3>1. PICK i \in 1..m, j \in 1..m : i # j /\ handlers[i].listener = k /\ handlers[j].listener = k
      BY <1>4, <1>6, <1>a, <1>12, <2>2
    <3>2. i \in 1..(m + 1) /\ j \in 1..(m + 1) /\ handlers'[i] = handlers[i] /\ handlers'[j] = handlers[j]
      BY <1>6
    <3> QED BY <1>6, <3>1, <3>2
  <2> QED BY <2>1, <2>2
<1> QED BY <1>1, <1>4, <1>6, <1>8, <1>9, <1>10, <1>11, <1>12 DEF Subscribed

\* BusInv holds from the start.
LEMMA BusFirst == Init => BusInv
<1> SUFFICES ASSUME Init PROVE Subscribed(Bus, asked)
  BY DEF Init, BusInv
<1>1. handlers = <<>> /\ wrappers = asked /\ asked = [l \in Listener |-> "none"]
  BY DEF Init, BusInit
<1> QED BY <1>1 DEF Subscribed, Bus, Asks, Caches

\* BusInv is inductive.
LEMMA BusNext == LifeInv /\ BusInv /\ [Next]_vars => BusInv'
<1> SUFFICES ASSUME LifeInv, BusInv, [Next]_vars PROVE BusInv'
  OBVIOUS
<1>1. ASSUME UNCHANGED <<handlers, wrappers, asked>>, phase' = phase \/ {phase, phase'} \cap {"over"} = {}
      PROVE  BusInv'
  <2>1. (phase = "over") <=> (phase' = "over")
    BY <1>1
  <2>2. Bus' = Bus /\ asked' = asked
    BY <1>1 DEF Bus
  <2> QED BY <1>1, <2>1, <2>2 DEF BusInv, Subscribed
<1>2. ASSUME Emission, phase # "over", UNCHANGED phase PROVE BusInv'
  BY <1>2, EmissionKeeps DEF BusInv
<1>3. CASE \/ \E p \in Plugin : Use(p)
           \/ SetupFails \/ SessionStarts
  BY <1>1, <1>3 DEF Use, SetupFails, SessionStarts, busVars
<1>4. CASE FirstOperation \/ SetupEnds
  BY <1>1, <1>4 DEF FirstOperation, SetupEnds
<1>5. CASE \/ \E k \in 0..MaxDriverBatch : SessionEmits(k)
           \/ LastEvent
  <2>1. Emission /\ phase # "over" /\ UNCHANGED phase
    BY <1>5 DEF SessionEmits, LastEvent, Emits, LifeInv
  <2> QED BY <1>2, <2>1
<1>6. CASE Destroy
  BY <1>1, <1>6 DEF Destroy, busVars, Alive
<1>7. CASE DisposeStarts
  BY <1>1, <1>7 DEF DisposeStarts, busVars
<1>8. CASE DisposeNext
  BY <1>1, <1>8 DEF DisposeNext
<1>9. CASE DestroyEnds
  BY <1>9 DEF DestroyEnds, RemoveAllListeners, BusInv
<1>10. CASE ServerStarts \/ ServerCloses
  BY <1>1, <1>10 DEF ServerStarts, ServerCloses
<1>11. CASE \/ \E s \in Stream : StreamOpens(s) \/ Streaming(s)
            \/ Forwarding \/ UNCHANGED vars
  <2>1. UNCHANGED <<busVars, clientVars>>
    BY <1>11 DEF StreamOpens, Streaming, Forwarding, vars
  <2> QED BY <1>1, <2>1 DEF busVars, clientVars
<1>12. CASE Listening
  <2>1. phase # "over" /\ UNCHANGED phase /\ Subscribed(Bus, asked)
    BY <1>12 DEF Listening, clientVars, BusInv
  <2>2. PICK l \in Listener : Off(l) \/ \E kind \in Kinds : Listen(l, kind)
    BY <1>12 DEF Listening, BusStep
  <2>3. CASE Off(l)
    <3>1. Subscribed(Without(Bus, l), Released(asked, l))
      BY <2>1, WithoutKeeps
    <3>2. /\ Bus'.handlers = Without(Bus, l).handlers /\ Bus'.wrappers = Without(Bus, l).wrappers
          /\ asked' = Released(asked, l)
      BY <2>3 DEF Off, BusBecomes, Bus, Released
    <3>3. Subscribed(Bus, asked)'
      BY <3>1, <3>2 DEF Subscribed
    <3> QED BY <2>1, <3>3 DEF BusInv
  <2>4. CASE \E kind \in Kinds : Listen(l, kind)
    BY <2>1, <2>4, ListenKeeps DEF BusInv
  <2> QED BY <2>2, <2>3, <2>4
<1> QED BY <1>3, <1>4, <1>5, <1>6, <1>7, <1>8, <1>9, <1>10, <1>11, <1>12 DEF Next

\* BusInv says that the next event reaches whom it should.
LEMMA BusMeans == BusInv => SubscribedAsAsked
<1> SUFFICES ASSUME BusInv, NEW l \in Listener
             PROVE  LET its == {i \in DOMAIN handlers : handlers[i].listener = l}
                    IN CASE asked[l] = "none"   -> its = {}
                         [] asked[l] = "shared" -> its # {}
                         [] OTHER               -> \E i \in its : its = {i} /\ handlers[i].kind = asked[l]
  BY DEF SubscribedAsAsked
<1> DEFINE its == {i \in DOMAIN handlers : handlers[i].listener = l}
<1>1. CASE phase = "over"
  BY <1>1 DEF BusInv
<1>2. CASE phase # "over"
  <2>0. /\ handlers \in Seq(Entry)
        /\ \A i \in DOMAIN handlers : asked[handlers[i].listener] \in {handlers[i].kind, "shared"}
        /\ \A i, j \in DOMAIN handlers :
             handlers[i].listener = handlers[j].listener /\ asked[handlers[i].listener] # "shared" => i = j
        /\ asked[l] # "none" => \E i \in DOMAIN handlers : handlers[i].listener = l
    BY <1>2 DEF BusInv, Subscribed, Bus
  <2>1. \A i \in DOMAIN handlers : handlers[i].kind # "none"
    <3>1. \A i \in DOMAIN handlers : handlers[i] \in Entry
      BY <2>0
    <3> QED BY <3>1 DEF Entry, Kinds
  <2>2. CASE asked[l] = "none"
    <3>1. its = {}
      BY <2>0, <2>1, <2>2
    <3> QED BY <2>2, <3>1
  <2>3. CASE asked[l] = "shared"
    <3>1. its # {}
      BY <2>0, <2>3
    <3> QED BY <2>3, <3>1
  <2>4. CASE asked[l] \notin {"none", "shared"}
    <3>1. PICK i \in DOMAIN handlers : handlers[i].listener = l
      BY <2>0, <2>4
    <3>2. \A j \in its : j = i
      BY <2>0, <2>4, <3>1
    <3>3. its = {i} /\ i \in its /\ handlers[i].kind = asked[l]
      BY <2>0, <2>4, <3>1, <3>2
    <3> HIDE DEF its
    <3> QED BY <2>4, <3>3 DEF its
  <2> QED BY <2>2, <2>3, <2>4
<1> QED BY <1>1, <1>2

-----------------------------------------------------------------------------
(* The streams                                                               *)

Grows(f) == \A i, k \in DOMAIN f : i < k => f[i] < f[k]

\* What is sent to s and waits for it.
StreamOK(s) ==
  /\ buffer[s] \in Seq(Nat) /\ sent[s] \in Seq(Nat) /\ since[s] \in Nat
  /\ loop[s] = "out" => s \notin clients /\ buffer[s] = <<>> /\ sent[s] = <<>>
  /\ Grows(Frames(s)) /\ \A i \in DOMAIN Frames(s) : Frames(s)[i] <= n
  /\ Len(buffer[s]) <= StreamBuffer
  /\ "live" \in processors /\ s \in clients /\ ~behind[s] => Len(Frames(s)) = n - since[s]

StreamInv ==
  /\ clients \subseteq Stream /\ loop \in [Stream -> Loops]
  /\ buffer = [s \in Stream |-> buffer[s]] /\ sent = [s \in Stream |-> sent[s]]
  /\ since = [s \in Stream |-> since[s]]
  /\ "live" \in processors => server = "up"
  /\ server = "none" => clients = {}
  /\ \A s \in Stream : StreamOK(s)

\* StreamInv holds from the start.
LEMMA StreamFirst == Init => StreamInv
<1> SUFFICES ASSUME Init PROVE StreamInv
  OBVIOUS
<1>1. /\ clients = {} /\ loop = [s \in Stream |-> "out"] /\ buffer = [s \in Stream |-> <<>>]
      /\ since = [s \in Stream |-> 0] /\ sent = [s \in Stream |-> <<>>] /\ processors = {}
  BY DEF Init, LiveInit, BusInit
<1>2. ASSUME NEW s \in Stream PROVE StreamOK(s)
  <2>1. buffer[s] = <<>> /\ sent[s] = <<>> /\ since[s] = 0 /\ s \notin clients
    BY <1>1
  <2>2. Frames(s) = <<>>
    BY <2>1 DEF Frames
  <2> QED BY <1>1, <2>1, <2>2, BufferAssumption DEF StreamOK, Grows
<1> QED BY <1>1, <1>2 DEF StreamInv, Loops

\* StreamInv says that no stream loses, repeats or reorders.
LEMMA StreamMeans == LifeInv /\ StreamInv => StreamsAreFaithful
<1> SUFFICES ASSUME StreamInv, "live" \in processors, NEW s \in Stream PROVE Faithful(s, n)
  BY DEF StreamsAreFaithful
<1> QED BY DEF StreamInv, StreamOK, Grows, Faithful

\* A step after which each stream has the frames it had, and nobody is new.
LEMMA SameFrames ==
  ASSUME StreamInv, n' = n, "live" \in processors' => "live" \in processors,
         clients' \subseteq clients, loop' \in [Stream -> Loops],
         \A s \in Stream : loop'[s] = "out" => loop[s] = "out" /\ buffer'[s] = <<>> /\ sent'[s] = <<>>,
         server' = server \/ server' = "closed", "live" \in processors' => server' = server,
         UNCHANGED <<since, behind>>,
         buffer' = [s \in Stream |-> buffer'[s]], sent' = [s \in Stream |-> sent'[s]],
         \A s \in Stream : /\ buffer'[s] \in Seq(Nat) /\ sent'[s] \in Seq(Nat)
                           /\ Len(buffer'[s]) <= Len(buffer[s])
                           /\ sent'[s] \o buffer'[s] = sent[s] \o buffer[s]
  PROVE  StreamInv'
<1>1. ASSUME NEW s \in Stream PROVE StreamOK(s)'
  <2>1. Frames(s)' = Frames(s) /\ StreamOK(s)
    BY DEF Frames, StreamInv
  <2>2. Len(buffer'[s]) \in Nat /\ Len(buffer[s]) \in Nat
    BY <2>1 DEF StreamOK
  <2>3. Len(buffer'[s]) <= StreamBuffer
    <3>1. Len(buffer'[s]) <= Len(buffer[s])
      OBVIOUS
    <3>2. Len(buffer[s]) <= StreamBuffer
      BY <2>1 DEF StreamOK
    <3> HIDE DEF StreamOK
    <3> QED BY <2>2, <3>1, <3>2, BufferAssumption
  <2>4. s \in clients' => s \in clients
    OBVIOUS
  <2> QED BY <2>1, <2>3, <2>4 DEF StreamOK
<1> QED BY <1>1 DEF StreamInv

\* A step that leaves the streams and the bus alone, or takes the server off it.
LEMMA SameStreams ==
  ASSUME StreamInv, UNCHANGED <<streamVars, n>>, "live" \in processors' => "live" \in processors,
         UNCHANGED server
  PROVE  StreamInv'
<1>1. UNCHANGED <<clients, loop, buffer, since, sent, behind>>
  BY DEF streamVars
<1>2. \A s \in Stream : buffer[s] \in Seq(Nat) /\ sent[s] \in Seq(Nat) /\ Len(buffer[s]) <= Len(buffer[s])
  BY DEF StreamInv, StreamOK
<1>3. \A s \in Stream : loop[s] = "out" => buffer[s] = <<>> /\ sent[s] = <<>>
  BY DEF StreamInv, StreamOK
<1> QED BY <1>1, <1>2, <1>3, SameFrames DEF StreamInv

\* nudge resumes a loop that is parked and starts none.
LEMMA NudgedType ==
  ASSUME loop \in [Stream -> Loops], NEW S
  PROVE  Nudged(S) \in [Stream -> Loops] /\ \A s \in Stream : Nudged(S)[s] = "out" => loop[s] = "out"
BY DEF Nudged, Loops

\* The head of the buffer goes out.
LEMMA HeadGoesOut ==
  ASSUME NEW a \in Seq(Nat), NEW b \in Seq(Nat), b # <<>>
  PROVE  /\ Append(a, Head(b)) \in Seq(Nat) /\ Tail(b) \in Seq(Nat) /\ Len(Tail(b)) <= Len(b)
         /\ Append(a, Head(b)) \o Tail(b) = a \o b
<1>1. /\ Head(b) \in Nat /\ Tail(b) \in Seq(Nat) /\ Len(Tail(b)) = Len(b) - 1 /\ Len(b) \in Nat \ {0}
      /\ Head(b) = b[1] /\ \A i \in 1..(Len(b) - 1) : Tail(b)[i] = b[i + 1]
  <2>1. Len(b) # 0
    OBVIOUS
  <2> QED BY <2>1
<1> DEFINE h == <<Head(b)>>
           v == Tail(b)
           w == h \o v
<1>2. h \in Seq(Nat) /\ Len(h) = 1 /\ h[1] = b[1]
  BY <1>1
<1>3. v \in Seq(Nat) /\ Len(v) = Len(b) - 1 /\ \A i \in 1..(Len(b) - 1) : v[i] = b[i + 1]
  BY <1>1
<1>4. Append(a, Head(b)) = a \o h /\ Append(a, Head(b)) \in Seq(Nat)
  BY <1>1, AppendProperties, AppendIsConcat
<1> HIDE DEF h, v
<1>5. w \in Seq(Nat) /\ Len(w) = Len(b) /\ \A i \in 1..Len(b) : w[i] = IF i <= 1 THEN h[i] ELSE v[i - 1]
  <2>1. 1 + (Len(b) - 1) = Len(b)
    BY <1>1
  <2>2. Len(h) + Len(v) = Len(b)
    BY <1>2, <1>3, <2>1
  <2>3. /\ w \in Seq(Nat) /\ Len(w) = Len(h) + Len(v)
        /\ \A i \in 1..(Len(h) + Len(v)) : w[i] = IF i <= Len(h) THEN h[i] ELSE v[i - Len(h)]
    BY <1>2, <1>3, NatConcat
  <2> HIDE DEF w
  <2> QED BY <1>2, <2>2, <2>3
<1> HIDE DEF w
<1>6. ASSUME NEW i \in 1..Len(b) PROVE w[i] = b[i]
  <2>1. CASE i = 1
    BY <1>2, <1>5, <2>1
  <2>2. CASE i > 1
    <3>1. i - 1 \in 1..(Len(b) - 1) /\ (i - 1) + 1 = i /\ ~(i <= 1)
      BY <1>1, <2>2
    <3>2. w[i] = v[i - 1]
      BY <1>5, <3>1
    <3>3. v[i - 1] = b[(i - 1) + 1]
      BY <1>3, <3>1
    <3> QED BY <3>1, <3>2, <3>3
  <2> QED BY <1>1, <2>1, <2>2
<1>7. w = b
  <2>1. DOMAIN w = 1..Len(b) /\ DOMAIN b = 1..Len(b)
    BY <1>5
  <2>2. w = [i \in 1..Len(b) |-> w[i]] /\ b = [i \in 1..Len(b) |-> b[i]]
    BY <1>5, <2>1
  <2>3. [i \in 1..Len(b) |-> w[i]] = [i \in 1..Len(b) |-> b[i]]
    BY <1>6
  <2> QED BY <2>2, <2>3
<1>8. (a \o h) \o v = a \o b
  <2>1. (a \o h) \o v = a \o (h \o v)
    BY <1>2, <1>3, NatRegroup
  <2> QED BY <1>7, <2>1 DEF w
<1> QED BY <1>1, <1>4, <1>8 DEF v

\* The steps of a stream's own loop, and the end of its reader.
LEMMA StreamingKeeps ==
  ASSUME StreamInv, NEW s \in Stream, Streaming(s)
  PROVE  StreamInv'
<1>1. UNCHANGED <<processors, n, server>>
  BY DEF Streaming, busVars, clientVars
<1>2. \A q \in Stream : /\ buffer[q] \in Seq(Nat) /\ sent[q] \in Seq(Nat) /\ Len(buffer[q]) <= Len(buffer[q])
                        /\ loop[q] = "out" => buffer[q] = <<>> /\ sent[q] = <<>>
  BY DEF StreamInv, StreamOK
<1>3. ASSUME UNCHANGED <<buffer, since, sent, behind>>, clients' \subseteq clients,
             loop' \in [Stream -> Loops], \A q \in Stream : loop'[q] = "out" => loop[q] = "out"
      PROVE  StreamInv'
  BY <1>1, <1>2, <1>3, SameFrames DEF StreamInv
<1>4. ASSUME NEW pc \in Loops \ {"out"}, loop' = [loop EXCEPT ![s] = pc]
      PROVE  loop' \in [Stream -> Loops] /\ \A q \in Stream : loop'[q] = "out" => loop[q] = "out"
  BY <1>4 DEF StreamInv
<1>5. CASE Leaves(s)
  BY <1>3, <1>4, <1>5 DEF Leaves, Unsubscribe, Loops
<1>6. CASE WriteStarts(s)
  <2>1. loop' \in [Stream -> Loops] /\ \A q \in Stream : loop'[q] = "out" => loop[q] = "out"
    BY <1>4, <1>6 DEF WriteStarts, Loops
  <2>2. UNCHANGED <<clients, since, behind>>
    BY <1>6 DEF WriteStarts
  <2>3. /\ buffer' = [buffer EXCEPT ![s] = Tail(buffer[s])] /\ sent' = [sent EXCEPT ![s] = Append(sent[s], Head(buffer[s]))]
        /\ buffer[s] # <<>> /\ loop'[s] # "out"
    BY <1>6 DEF WriteStarts, Pending, StreamInv
  <2>4. ASSUME NEW q \in Stream
        PROVE  /\ buffer'[q] \in Seq(Nat) /\ sent'[q] \in Seq(Nat) /\ Len(buffer'[q]) <= Len(buffer[q])
               /\ sent'[q] \o buffer'[q] = sent[q] \o buffer[q]
               /\ loop'[q] = "out" => loop[q] = "out" /\ buffer'[q] = <<>> /\ sent'[q] = <<>>
    <3>1. CASE q = s
      <4>1. buffer'[s] = Tail(buffer[s]) /\ sent'[s] = Append(sent[s], Head(buffer[s]))
        BY <2>3 DEF StreamInv
      <4>2. buffer[s] \in Seq(Nat) /\ sent[s] \in Seq(Nat)
        BY <1>2
      <4>3. /\ Append(sent[s], Head(buffer[s])) \in Seq(Nat) /\ Tail(buffer[s]) \in Seq(Nat)
            /\ Len(Tail(buffer[s])) <= Len(buffer[s])
            /\ Append(sent[s], Head(buffer[s])) \o Tail(buffer[s]) = sent[s] \o buffer[s]
        BY <2>3, <4>2, HeadGoesOut
      <4> QED BY <2>3, <3>1, <4>1, <4>3
    <3>2. CASE q # s
      <4>1. buffer'[q] = buffer[q] /\ sent'[q] = sent[q]
        BY <2>3, <3>2 DEF StreamInv
      <4> QED BY <1>2, <2>1, <4>1
    <3> QED BY <3>1, <3>2
  <2>5. buffer' = [q \in Stream |-> buffer'[q]] /\ sent' = [q \in Stream |-> sent'[q]]
    BY <2>3 DEF StreamInv
  <2> QED BY <1>1, <2>1, <2>2, <2>4, <2>5, SameFrames
<1>7. CASE WriteEnds(s) \/ Heartbeat(s) \/ PingEnds(s)
  BY <1>3, <1>4, <1>7 DEF WriteEnds, Heartbeat, PingEnds, Loops
<1>8. CASE Drained(s)
  BY <1>3, <1>4, <1>8 DEF Drained, Unsubscribe, Loops
<1>9. CASE Aborts(s)
  BY <1>3, <1>9, NudgedType DEF Aborts, StreamInv
<1> QED BY <1>5, <1>6, <1>7, <1>8, <1>9 DEF Streaming, StreamStep, LoopStep

\* A new stream has no frames and counts from the events emitted so far.
LEMMA OpensStream ==
  ASSUME LifeInv, StreamInv, NEW s \in Stream, StreamOpens(s)
  PROVE  StreamInv'
<1>1. /\ server # "none" /\ UNCHANGED <<processors, n, server>> /\ loop[s] = "out"
      /\ clients' = clients \cup {s} /\ loop' = [loop EXCEPT ![s] = "top"] /\ since' = [since EXCEPT ![s] = n]
      /\ UNCHANGED <<buffer, behind, sent>>
  BY DEF StreamOpens, OpenStream, Subscribe, busVars, clientVars
<1>2. ASSUME NEW q \in Stream PROVE StreamOK(q)'
  <2>1. StreamOK(q) /\ Frames(q)' = Frames(q)
    BY <1>1 DEF StreamInv, Frames
  <2>2. CASE q # s
    <3>1. (q \in clients' <=> q \in clients) /\ since'[q] = since[q] /\ loop'[q] = loop[q]
      BY <1>1, <2>2 DEF StreamInv
    <3> QED BY <1>1, <2>1, <3>1 DEF StreamOK
  <2>3. CASE q = s
    <3>1. buffer[s] = <<>> /\ sent[s] = <<>> /\ since'[s] = n /\ loop'[s] = "top" /\ n \in Nat
      BY <1>1, <2>1, <2>3 DEF StreamOK, StreamInv, LifeInv
    <3>2. Frames(s) = <<>>
      BY <3>1 DEF Frames
    <3>3. Len(Frames(s)) = n - since'[s]
      BY <3>1, <3>2
    <3> QED BY <1>1, <2>1, <2>3, <3>1, <3>3 DEF StreamOK
  <2> QED BY <2>2, <2>3
<1>3. loop' \in [Stream -> Loops]
  BY <1>1 DEF StreamInv, Loops
<1> QED BY <1>1, <1>2, <1>3 DEF StreamInv

\* A batch reaches a stream: what fits is put behind what waits.
LEMMA TakesIn ==
  ASSUME LifeInv, StreamInv, NEW s \in Stream, NEW k \in Nat, n' = n + k,
         s \in clients, Ingest(Following(n, k)), UNCHANGED processors
  PROVE  StreamOK(s)'
<1> DEFINE es == Following(n, k)
           r == IF Room(s) < Len(es) THEN Room(s) ELSE Len(es)
           add == SubSeq(es, 1, r)
           f == Frames(s)
<1>1. n \in Nat /\ es \in Seq(Nat) /\ Len(es) = k /\ \A i \in 1..k : es[i] = n + i
  BY DEF LifeInv, Following
<1>2. /\ StreamOK(s) /\ buffer[s] \in Seq(Nat) /\ sent[s] \in Seq(Nat) /\ Len(buffer[s]) \in 0..StreamBuffer
      /\ loop[s] # "out"
  BY BufferAssumption DEF StreamInv, StreamOK
<1>3. Room(s) \in Nat /\ Room(s) = StreamBuffer - Len(buffer[s]) /\ r \in 0..k /\ r <= Room(s)
  <2>1. Room(s) \in Nat /\ Room(s) = StreamBuffer - Len(buffer[s])
    BY <1>2, BufferAssumption DEF Room
  <2>2. r = IF Room(s) < k THEN Room(s) ELSE k
    BY <1>1
  <2> HIDE DEF r
  <2> QED BY <2>1, <2>2
<1>4. buffer'[s] = buffer[s] \o add /\ since' = since /\ sent' = sent /\ clients' = clients
  BY DEF Ingest, Buffered
<1>5. ~behind'[s] => ~behind[s] /\ r = k
  BY <1>1 DEF Ingest
<1>6. loop'[s] # "out"
  <2>1. loop' = loop \/ loop' = Nudged(clients)
    BY DEF Ingest
  <2> QED BY <1>2, <2>1, NudgedType DEF StreamInv
<1> HIDE DEF es, r
<1>7. add \in Seq(Nat) /\ Len(add) = r /\ \A i \in 1..r : add[i] = n + i
  <2>1. \A i \in 1..r : es[i] \in Nat
    BY <1>1, <1>3
  <2>2. r \in Int /\ (1 <= r => r - 1 + 1 = r) /\ (~(1 <= r) => r = 0) /\ r - 1 + 1 = r
    BY <1>1, <1>3
  <2>3. /\ add \in Seq(Nat) /\ Len(add) = (IF 1 <= r THEN r - 1 + 1 ELSE 0)
        /\ \A i \in 1..(r - 1 + 1) : add[i] = es[1 + i - 1]
    BY <2>1, <2>2, SubSeqProperties
  <2>4. \A i \in 1..r : add[i] = es[i]
    BY <2>2, <2>3
  <2> QED BY <1>1, <1>3, <2>2, <2>3, <2>4
<1> HIDE DEF add
<1>8. f \in Seq(Nat) /\ Frames(s)' = f \o add
  <2>1. f = sent[s] \o buffer[s] /\ Frames(s)' = sent[s] \o (buffer[s] \o add)
    BY <1>4 DEF Frames
  <2>2. (sent[s] \o buffer[s]) \o add = sent[s] \o (buffer[s] \o add) /\ sent[s] \o buffer[s] \in Seq(Nat)
    BY <1>2, <1>7, NatRegroup, NatConcat
  <2> QED BY <2>1, <2>2
<1>9. Grows(f) /\ (\A i \in DOMAIN f : f[i] <= n)
      /\ ("live" \in processors /\ ~behind[s] => Len(f) = n - since[s])
  BY <1>2 DEF StreamOK
<1> HIDE DEF f
<1> DEFINE g == f \o add
<1>10. /\ g \in Seq(Nat) /\ Len(g) = Len(f) + r /\ Len(f) \in Nat
       /\ \A i \in 1..(Len(f) + r) : g[i] = IF i <= Len(f) THEN f[i] ELSE add[i - Len(f)]
  <2>1. Len(f) + Len(add) = Len(f) + r
    BY <1>7
  <2>2. /\ g \in Seq(Nat) /\ Len(g) = Len(f) + Len(add)
        /\ \A i \in 1..(Len(f) + Len(add)) : g[i] = IF i <= Len(f) THEN f[i] ELSE add[i - Len(f)]
    BY <1>7, <1>8, NatConcat
  <2>3. Len(f) \in Nat
    BY <1>8
  <2> HIDE DEF g
  <2> QED BY <2>1, <2>2, <2>3
<1>11. DOMAIN g = 1..(Len(f) + r) /\ DOMAIN f = 1..Len(f)
  BY <1>8, <1>10
<1> HIDE DEF g
<1>12. \A i \in DOMAIN g : \/ i \in DOMAIN f /\ g[i] = f[i]
                           \/ i > Len(f) /\ g[i] = n + (i - Len(f)) /\ i - Len(f) <= r
  <2> SUFFICES ASSUME NEW i \in 1..(Len(f) + r)
               PROVE  \/ i \in DOMAIN f /\ g[i] = f[i]
                      \/ i > Len(f) /\ g[i] = n + (i - Len(f)) /\ i - Len(f) <= r
    BY <1>11
  <2>1. CASE i <= Len(f)
    BY <1>10, <1>11, <2>1
  <2>2. CASE i > Len(f)
    <3>1. i - Len(f) \in 1..r /\ ~(i <= Len(f))
      BY <1>3, <1>10, <2>2
    <3> QED BY <1>7, <1>10, <2>2, <3>1
  <2> QED BY <1>10, <2>1, <2>2
<1>13. Grows(g)
  <2> SUFFICES ASSUME NEW i \in DOMAIN g, NEW j \in DOMAIN g, i < j PROVE g[i] < g[j]
    BY DEF Grows
  <2>0. i \in Nat /\ j \in Nat /\ \A x \in DOMAIN f : f[x] \in Nat /\ x <= Len(f)
    BY <1>8, <1>10, <1>11
  <2>1. CASE j \in DOMAIN f /\ g[j] = f[j]
    <3>1. i \in DOMAIN f /\ g[i] = f[i]
      BY <1>10, <1>12, <2>0, <2>1
    <3> QED BY <1>9, <2>1, <3>1 DEF Grows
  <2>2. CASE j > Len(f) /\ g[j] = n + (j - Len(f))
    <3>1. CASE i \in DOMAIN f /\ g[i] = f[i]
      <4>1. g[i] <= n /\ g[i] \in Nat
        BY <1>9, <2>0, <3>1
      <4> QED BY <1>1, <1>10, <2>0, <2>2, <4>1
    <3>2. CASE i > Len(f) /\ g[i] = n + (i - Len(f))
      BY <1>1, <1>10, <2>0, <2>2, <3>2
    <3> QED BY <1>12, <3>1, <3>2
  <2> QED BY <1>12, <2>1, <2>2
<1>14. \A i \in DOMAIN g : g[i] <= n'
  <2> SUFFICES ASSUME NEW i \in DOMAIN g PROVE g[i] <= n + k
    OBVIOUS
  <2>1. CASE i \in DOMAIN f /\ g[i] = f[i]
    <3>1. g[i] <= n /\ g[i] \in Nat
      BY <1>8, <1>9, <2>1
    <3> QED BY <1>1, <3>1
  <2>2. CASE i > Len(f) /\ g[i] = n + (i - Len(f)) /\ i - Len(f) <= r
    <3>1. i \in Nat
      BY <1>10, <1>11
    <3> QED BY <1>1, <1>3, <1>10, <2>2, <3>1
  <2> QED BY <1>12, <2>1, <2>2
<1>15. "live" \in processors' /\ ~behind'[s] => Len(g) = n' - since'[s]
  <2>1. since[s] \in Nat
    BY <1>2 DEF StreamOK
  <2> SUFFICES ASSUME "live" \in processors', ~behind'[s] PROVE Len(g) = n' - since'[s]
    OBVIOUS
  <2>2. Len(f) = n - since[s] /\ r = k
    BY <1>5, <1>9
  <2>3. Len(g) = Len(f) + k /\ n' = n + k /\ since'[s] = since[s]
    BY <1>4, <1>10, <2>2
  <2> QED BY <1>1, <2>1, <2>2, <2>3
<1>16. buffer'[s] \in Seq(Nat) /\ Len(buffer'[s]) = Len(buffer[s]) + r
  BY <1>2, <1>4, <1>7, NatConcat
<1>17. Len(buffer'[s]) <= StreamBuffer
  BY <1>2, <1>3, <1>16, BufferAssumption
<1>18. Frames(s)' = g
  BY <1>8 DEF g
<1> QED BY <1>2, <1>4, <1>6, <1>13, <1>14, <1>15, <1>16, <1>17, <1>18 DEF StreamOK

\* An emission reaches every stream that is subscribed.
LEMMA EmitsReaches ==
  ASSUME LifeInv, StreamInv, NEW k \in Nat, Emits(k), UNCHANGED server
  PROVE  StreamInv'
<1>1. /\ n \in Nat /\ n' = n + k /\ processors' = processors
      /\ IF "live" \in processors THEN Ingest(Following(n, k)) ELSE UNCHANGED streamVars
  BY DEF Emits, Emission, LifeInv, Following
<1>2. CASE "live" \notin processors
  <2>1. UNCHANGED <<clients, loop, buffer, since, sent, behind>>
    BY <1>1, <1>2 DEF streamVars
  <2>2. ASSUME NEW s \in Stream PROVE StreamOK(s)'
    <3>1. StreamOK(s) /\ Frames(s)' = Frames(s)
      BY <2>1 DEF StreamInv, Frames
    <3>2. \A i \in DOMAIN Frames(s) : Frames(s)[i] <= n + k
      <4>1. \A i \in DOMAIN Frames(s) : Frames(s)[i] \in Nat /\ Frames(s)[i] <= n
        <5>1. Frames(s) \in Seq(Nat)
          BY <3>1, NatConcat DEF StreamOK, Frames
        <5> QED BY <3>1, <5>1 DEF StreamOK
      <4> QED BY <1>1, <4>1
    <3> QED BY <1>1, <1>2, <2>1, <3>1, <3>2 DEF StreamOK
  <2> QED BY <1>1, <1>2, <2>1, <2>2 DEF StreamInv
<1>3. CASE "live" \in processors
  <2>1. Ingest(Following(n, k))
    BY <1>1, <1>3
  <2>2. /\ UNCHANGED <<clients, since, sent>> /\ (loop' = loop \/ loop' = Nudged(clients))
        /\ buffer' = [s \in Stream |-> IF s \in clients THEN Buffered(s, Following(n, k)) ELSE buffer[s]]
        /\ \A s \in Stream \ clients : buffer'[s] = buffer[s]
    BY <2>1 DEF Ingest
  <2>3. loop' \in [Stream -> Loops] /\ \A s \in Stream : loop'[s] = "out" => loop[s] = "out"
    BY <2>2, NudgedType DEF StreamInv
  <2>4. ASSUME NEW s \in Stream PROVE StreamOK(s)'
    <3>1. CASE s \in clients
      BY <1>1, <2>1, <3>1, TakesIn
    <3>2. CASE s \notin clients
      <4>1. StreamOK(s) /\ Frames(s)' = Frames(s) /\ buffer'[s] = buffer[s]
        BY <2>2, <3>2 DEF StreamInv, Frames
      <4>2. \A i \in DOMAIN Frames(s) : Frames(s)[i] <= n + k
        <5>1. \A i \in DOMAIN Frames(s) : Frames(s)[i] \in Nat /\ Frames(s)[i] <= n
          <6>1. Frames(s) \in Seq(Nat)
            BY <4>1, NatConcat DEF StreamOK, Frames
          <6> QED BY <4>1, <6>1 DEF StreamOK
        <5> QED BY <1>1, <5>1
      <4> QED BY <1>1, <2>2, <2>3, <3>2, <4>1, <4>2 DEF StreamOK
    <3> QED BY <3>1, <3>2
  <2>5. buffer' = [s \in Stream |-> buffer'[s]]
    BY <2>2
  <2> QED BY <1>1, <2>2, <2>3, <2>4, <2>5 DEF StreamInv
<1> QED BY <1>2, <1>3

\* StreamInv is inductive.
LEMMA StreamNext == LifeInv /\ StreamInv /\ [Next]_vars => StreamInv'
<1> SUFFICES ASSUME LifeInv, StreamInv, [Next]_vars PROVE StreamInv'
  OBVIOUS
<1>1. CASE \/ \E p \in Plugin : Use(p)
           \/ SetupFails \/ SessionStarts \/ Destroy \/ DisposeStarts
  <2>1. UNCHANGED <<streamVars, n, processors, server>>
    BY <1>1 DEF Use, SetupFails, SessionStarts, Destroy, DisposeStarts, busVars
  <2> QED BY <2>1, SameStreams
<1>2. CASE FirstOperation \/ SetupEnds
  <2>1. PICK i, s : SetupCalls(i, s)
    BY <1>2 DEF FirstOperation, SetupEnds
  <2>2. "live" \in processors' => "live" \in processors
    BY <2>1 DEF SetupCalls, Process
  <2>3. UNCHANGED <<streamVars, n, server>>
    BY <1>2 DEF FirstOperation, SetupEnds
  <2> QED BY <2>2, <2>3, SameStreams
<1>3. ASSUME NEW k \in 0..MaxDriverBatch, SessionEmits(k) PROVE StreamInv'
  <2>1. Emits(k) /\ UNCHANGED server /\ k \in Nat
    BY <1>3, EventAssumption DEF SessionEmits
  <2> QED BY <2>1, EmitsReaches
<1>4. CASE LastEvent
  <2>1. Emits(1) /\ UNCHANGED server
    BY <1>4 DEF LastEvent
  <2> QED BY <2>1, EmitsReaches
<1>5. CASE DisposeNext
  <2>1. UNCHANGED <<streamVars, n, server>> /\ processors' \subseteq processors
    BY <1>5 DEF DisposeNext, Unprocess
  <2> QED BY <2>1, SameStreams
<1>6. CASE DestroyEnds
  <2>1. UNCHANGED <<streamVars, n, server>> /\ processors' = {}
    BY <1>6 DEF DestroyEnds, RemoveAllListeners
  <2> QED BY <2>1, SameStreams
<1>7. CASE ServerStarts
  <2>1. /\ server = "none" /\ server' = "up" /\ clients = {}
        /\ UNCHANGED <<clients, loop, buffer, since, sent, behind, n>>
    BY <1>7 DEF ServerStarts, streamVars, StreamInv
  <2>2. ASSUME NEW s \in Stream PROVE StreamOK(s)'
    <3>1. StreamOK(s) /\ Frames(s)' = Frames(s)
      BY <2>1 DEF StreamInv, Frames
    <3> QED BY <2>1, <3>1 DEF StreamOK
  <2> QED BY <2>1, <2>2 DEF StreamInv
<1>8. CASE ServerCloses
  <2>1. /\ server' = "closed" /\ "live" \notin processors' /\ clients' = {} /\ loop' = Nudged(clients)
        /\ UNCHANGED <<buffer, since, sent, behind, n>>
    BY <1>8 DEF ServerCloses, Unprocess, StreamsClose, Told
  <2>2. loop' \in [Stream -> Loops] /\ \A s \in Stream : loop'[s] = "out" => loop[s] = "out"
    BY <2>1, NudgedType DEF StreamInv
  <2>3. \A s \in Stream : /\ buffer[s] \in Seq(Nat) /\ sent[s] \in Seq(Nat) /\ Len(buffer[s]) <= Len(buffer[s])
                          /\ loop[s] = "out" => buffer[s] = <<>> /\ sent[s] = <<>>
    BY DEF StreamInv, StreamOK
  <2> QED BY <2>1, <2>2, <2>3, SameFrames DEF StreamInv
<1>9. ASSUME NEW s \in Stream, StreamOpens(s) \/ Streaming(s) PROVE StreamInv'
  BY <1>9, OpensStream, StreamingKeeps
<1>10. CASE Listening
  <2>1. UNCHANGED <<streamVars, clientVars>> /\ processors' = processors
    BY <1>10 DEF Listening, BusStep, Off, Listen
  <2> QED BY <2>1, SameStreams DEF clientVars
<1>11. CASE Forwarding \/ UNCHANGED vars
  <2>1. UNCHANGED <<streamVars, clientVars, busVars>>
    BY <1>11 DEF Forwarding, vars
  <2> QED BY <2>1, SameStreams DEF clientVars, busVars
<1> QED BY <1>1, <1>2, <1>3, <1>4, <1>5, <1>6, <1>7, <1>8, <1>9, <1>10, <1>11 DEF Next

-----------------------------------------------------------------------------
(* The theorems                                                              *)

ClientInv == LifeInv /\ ForwarderInv /\ BusInv /\ StreamInv

\* In every state: the setup promise, the setup loop and destroy agree, what
\* the forwarder posted and holds are the events emitted, the bus has one
\* wrapper for each listener that was asked for once, and every stream's frames grow
\* (client.ts, plugin.ts, events/emitter.ts, webhook/index.ts, server/live.ts).
THEOREM ClientInvariant == Spec => []ClientInv
<1>1. Init => ClientInv
  BY LifeInit, ForwarderFirst, BusFirst, StreamFirst DEF ClientInv
<1>2. ClientInv /\ [Next]_vars => ClientInv'
  BY LifeNext, ForwarderNext, BusNext, StreamNext DEF ClientInv
<1> QED BY <1>1, <1>2, PTL DEF Spec

\* The webhook forwarder hands the delivery queue every event of every session
\* once, in the order they were emitted and in batches of at most maxBatchSize,
\* whichever of the batch window, flush() and the last event of destroy comes
\* first; once it is disposed nothing is left in the window (webhook/index.ts
\* post, collect, dispose; client.ts destroy).
THEOREM ForwarderLosesNothing == Spec => []NothingLost
<1>1. ClientInv => TypeOK
  BY DEF ClientInv, LifeInv, ForwarderInv, StreamInv, TypeOK, Readiness, Statuses, Phases, Loops
<1>2. ClientInv => NothingLost
  BY <1>1 DEF ClientInv, ForwarderInv, NothingLost
<1> QED BY <1>2, ClientInvariant, PTL

\* A destroy that is over has disposed every plugin that was set up, also
\* behind one whose dispose failed, unless it was called while the first
\* operation was still in the plugins' setup (plugin.ts setup, dispose).
THEOREM DestroyDisposesAll ==
  ASSUME "destroyInSetup" \notin Overlaps
  PROVE  Spec => []PluginsAreDisposed
<1>1. DisposalInv => PluginsAreDisposed
  BY DEF DisposalInv, PluginsAreDisposed
<1>2. ClientInv => LifeInv
  BY DEF ClientInv
<1> QED BY <1>1, <1>2, DisposalInit, DisposalNext, ClientInvariant, PTL DEF Spec

\* Over any sequence of on, once, off and emissions, an event reaches each
\* listener that was registered once at a time as often as its owner asked for,
\* a one-shot one no more than once, and one taken off not at all, whatever
\* other listeners share.  One that was registered again before it was off is
\* reached by every event until destroy: no call takes it off
\* (events/emitter.ts on, once, off, #wrap).
THEOREM ListenersAreReached == Spec => []SubscribedAsAsked
<1>1. ClientInv => SubscribedAsAsked
  BY BusMeans DEF ClientInv
<1> QED BY <1>1, ClientInvariant, PTL

\* A stream of the server sends events in the order of their emission, none
\* twice, and while its reader keeps up all of them since it subscribed
\* (server/live.ts #ingest, subscribe, stream).
THEOREM StreamsSendInOrder == Spec => []StreamsAreFaithful
<1>1. ClientInv => StreamsAreFaithful
  BY StreamMeans DEF ClientInv
<1> QED BY <1>1, ClientInvariant, PTL

=============================================================================
