--------------------------- MODULE AuthStoreProofs ---------------------------
(***************************************************************************)
(* AuthStore for any calls at once, any session ids, any Signal keys and    *)
(* names of them, any sizes of chunks and each adapter.  The names come      *)
(* first: what Keyspace says of them is enough to tell the data apart.       *)
(***************************************************************************)
EXTENDS AuthStore, SequenceTheorems, WellFoundedInduction, TLAPS

-----------------------------------------------------------------------------
(* Steps without an induction theorem                                        *)

\* Induction without an induction theorem: a nonempty set of naturals has a
\* least element.
LEMMA Least ==
  ASSUME NEW S, S \subseteq Nat, S # {}
  PROVE  \E m \in S : \A k \in S : m <= k
<1> DEFINE Less == {ss \in Nat \X Nat : ss[1] < ss[2]}
<1>1. IsWellFoundedOn(Less, Nat)
  BY NatLessThanWellFounded DEF OpToRel
<1>2. \A x, y \in Nat : y < x => <<y, x>> \in Less
  OBVIOUS
<1> HIDE DEF Less
<1>3. PICK x \in S : \A y \in S : ~ (<<y, x>> \in Less)
  BY <1>1, WFMin
<1>4. \A k \in S : x <= k
  <2> SUFFICES ASSUME NEW k \in S PROVE ~ (k < x)
    OBVIOUS
  <2>1. k \in Nat /\ x \in Nat
    OBVIOUS
  <2>2. ~ (<<k, x>> \in Less)
    BY <1>3
  <2> QED BY <1>2, <2>1, <2>2
<1> QED BY <1>4

\* What holds of 0, and of k + 1 when it holds of k < m, holds up to m.
LEMMA StepByStep ==
  ASSUME NEW m \in Nat, NEW S, 0 \in S, \A k \in 0..(m - 1) : k \in S => k + 1 \in S
  PROVE  0..m \subseteq S
<1> SUFFICES ASSUME NEW x \in 0..m, x \notin S PROVE FALSE
  OBVIOUS
<1> DEFINE Out == {k \in 0..m : k \notin S}
<1>0. Out \subseteq Nat /\ x \in Out
  OBVIOUS
<1>1. PICK o \in Out : \A k \in Out : o <= k
  <2> HIDE DEF Out
  <2> QED BY <1>0, Least
<1>2. o # 0 /\ o - 1 \in 0..(m - 1) /\ o - 1 \in S
  BY <1>1
<1>3. o - 1 + 1 = o
  BY <1>1
<1> QED BY <1>1, <1>2, <1>3

\* F concatenates the first k of s, for every k.
Flattens(F, s, m) == F[0] = <<>> /\ \A k \in 1..m : F[k] = F[k - 1] \o s[k]

\* What FlattenSeq computes: one sequence after the other.
LEMMA FlattenRuns ==
  ASSUME NEW X, NEW s \in Seq(Seq(X))
  PROVE  \E F : F \in [0..Len(s) -> Seq(X)] /\ Flattens(F, s, Len(s)) /\ FlattenSeq(s) = F[Len(s)]
<1> DEFINE m == Len(s)
           Runs(f, k) == f = [i \in 1..k |-> IF i = 1 THEN s[i] ELSE f[i - 1] \o s[i]]
           S == {k \in Nat : \E f : Runs(f, k)}
<1>0. m \in Nat /\ \A k \in 1..m : s[k] \in Seq(X)
  OBVIOUS
<1>1. 0 \in S
  <2>1. Runs([i \in 1..0 |-> 0], 0)
    OBVIOUS
  <2> QED BY <2>1
<1>2. ASSUME NEW k \in 0..(m - 1), k \in S PROVE k + 1 \in S
  <2>1. PICK f : Runs(f, k)
    BY <1>2
  <2> DEFINE g == [i \in 1..(k + 1) |-> IF i = 1 THEN s[i] ELSE f[i - 1] \o s[i]]
  <2>2. ASSUME NEW i \in 1..(k + 1), i # 1 PROVE g[i - 1] = f[i - 1]
    <3>1. i - 1 \in 1..k /\ i - 1 \in 1..(k + 1)
      BY <2>2
    <3> QED BY <2>1, <3>1
  <2>3. \A i \in 1..(k + 1) : (IF i = 1 THEN s[i] ELSE f[i - 1] \o s[i])
                               = (IF i = 1 THEN s[i] ELSE g[i - 1] \o s[i])
    BY <2>2
  <2>4. Runs(g, k + 1)
    BY <2>3
  <2>5. \E h : Runs(h, k + 1)
    <3> HIDE DEF g
    <3> QED BY <2>4
  <2>6. k + 1 \in Nat
    BY <1>0
  <2> QED BY <2>5, <2>6
<1>3. m \in S
  <2> HIDE DEF S, m
  <2>1. 0..m \subseteq S
    BY <1>0, <1>1, <1>2, StepByStep
  <2> QED BY <1>0, <2>1
<1> DEFINE fl == CHOOSE f : f = [i \in 1..Len(s) |-> IF i = 1 THEN s[i] ELSE f[i - 1] \o s[i]]
<1>4. Runs(fl, m)
  BY <1>3
<1>5. FlattenSeq(s) = IF m = 0 THEN s ELSE fl[m]
  BY DEF FlattenSeq
<1> HIDE DEF S, fl
<1> DEFINE F == [k \in 0..m |-> IF k = 0 THEN <<>> ELSE fl[k]]
<1>6. ASSUME NEW k \in 1..m, F[k - 1] \in Seq(X) PROVE F[k] = F[k - 1] \o s[k]
  <2>1. fl[k] = IF k = 1 THEN s[k] ELSE fl[k - 1] \o s[k]
    BY <1>4
  <2>2. F[k] = fl[k] /\ F[k - 1] = (IF k = 1 THEN <<>> ELSE fl[k - 1])
    BY <1>0
  <2>3. <<>> \o s[k] = s[k]
    BY <1>0, ConcatEmptySeq
  <2> QED BY <2>1, <2>2, <2>3
<1>7. \A k \in 0..m : F[k] \in Seq(X)
  <2> DEFINE T == {k \in 0..m : F[k] \in Seq(X)}
  <2>1. 0 \in T
    BY <1>0
  <2>2. ASSUME NEW k \in 0..(m - 1), k \in T PROVE k + 1 \in T
    <3>1. k + 1 \in 1..m /\ (k + 1) - 1 = k /\ F[k] \in Seq(X)
      BY <1>0, <2>2
    <3>2. F[k + 1] = F[k] \o s[k + 1] /\ s[k + 1] \in Seq(X)
      BY <1>0, <1>6, <3>1
    <3> HIDE DEF F
    <3>3. F[k] \o s[k + 1] \in Seq(X)
      BY <3>1, <3>2, ConcatProperties
    <3>4. k + 1 \in 0..m /\ F[k + 1] \in Seq(X)
      BY <1>0, <3>1, <3>2, <3>3
    <3> QED BY <3>4
  <2> HIDE DEF T
  <2>3. 0..m \subseteq T
    BY <1>0, <2>1, <2>2, StepByStep
  <2> QED BY <2>3 DEF T
<1>8. F \in [0..m -> Seq(X)] /\ F[0] = <<>> /\ F[m] = FlattenSeq(s)
  <2>1. m = 0 => s = <<>>
    OBVIOUS
  <2> QED BY <1>0, <1>5, <1>7, <2>1
<1>9. ASSUME NEW k \in 1..m PROVE F[k] = F[k - 1] \o s[k]
  <2>1. k - 1 \in 0..m
    BY <1>0
  <2> HIDE DEF F
  <2> QED BY <1>6, <1>7, <2>1
<1> HIDE DEF F
<1>10. F \in [0..m -> Seq(X)] /\ Flattens(F, s, m) /\ FlattenSeq(s) = F[m]
  BY <1>8, <1>9 DEF Flattens
<1> QED BY <1>10

-----------------------------------------------------------------------------
(* Encoded and decoded                                                       *)

Text == Seq(Char)

\* The character whose code stands at i, if one does.
Coded(name, i) == {c \in DOMAIN Hex : i + 2 <= Len(name) /\ Hex[c] = SubSeq(name, i, i + 2)}

\* What the decoder makes of the rest of the name from i on.
Decode(f, name, i) ==
  IF i > Len(name) THEN <<>>
  ELSE IF Coded(name, i) = {} THEN <<name[i]>> \o f[i + 1]
  ELSE <<CHOOSE c \in Coded(name, i) : TRUE>> \o f[i + 3]

LEMMA TripleIs ==
  ASSUME NEW X, NEW a \in X, NEW b \in X, NEW c \in X
  PROVE  <<a, b, c>> \in Seq(X) /\ Len(<<a, b, c>>) = 3 /\ <<a, b, c>>[1] = a
OBVIOUS

LEMMA HexIs ==
  /\ DOMAIN Hex = {"%", ":", "/", "@"}
  /\ \A c \in DOMAIN Hex : Hex[c] \in Text /\ Len(Hex[c]) = 3 /\ Hex[c][1] = "%"
  /\ \A c, d \in DOMAIN Hex : Hex[c] = Hex[d] => c = d
<1>1. DOMAIN Hex = {"%", ":", "/", "@"}
  BY DEF Hex
<1>2. /\ Hex["%"] = <<"%", "2", "5">> /\ Hex[":"] = <<"%", "3", "A">>
      /\ Hex["/"] = <<"%", "2", "F">> /\ Hex["@"] = <<"%", "4", "0">>
  BY DEF Hex
<1>3. \A b, d \in Char : LET s == <<"%", b, d>> IN s \in Text /\ Len(s) = 3 /\ s[1] = "%"
  BY CharAssumption, TripleIs DEF Text
<1>4. ASSUME NEW c \in DOMAIN Hex PROVE Hex[c] \in Text /\ Len(Hex[c]) = 3 /\ Hex[c][1] = "%"
  <2>1. {"0", "2", "3", "4", "5", "A", "F"} \subseteq Char
    BY CharAssumption
  <2>2. c = "%" \/ c = ":" \/ c = "/" \/ c = "@"
    BY <1>1
  <2>3. PICK b \in Char, d \in Char : Hex[c] = <<"%", b, d>>
    BY <1>2, <2>1, <2>2
  <2> QED BY <1>3, <2>3
<1>5. \A c, d \in DOMAIN Hex : Hex[c] = Hex[d] => c = d
  BY <1>1, <1>2
<1> QED BY <1>1, <1>4, <1>5

\* The decoder is a function of the rest: from the end of the name to its beginning.
LEMMA DecodedIs ==
  ASSUME NEW name \in Text
  PROVE  \E f : /\ Decoded(name) = f[1]
                /\ \A i \in 1..(Len(name) + 1) : f[i] = Decode(f, name, i)
<1> DEFINE n == Len(name)
           Rests(f, k) == f = [i \in (n + 1 - k)..(n + 1) |-> Decode(f, name, i)]
           S == {k \in Nat : \E f : Rests(f, k)}
<1>0. n \in Nat
  BY DEF Text
<1>1. 0 \in S
  <2> DEFINE g == [i \in (n + 1 - 0)..(n + 1) |-> <<>>]
  <2>1. \A i \in (n + 1 - 0)..(n + 1) : Decode(g, name, i) = <<>>
    BY <1>0 DEF Decode
  <2>2. Rests(g, 0)
    BY <2>1
  <2> HIDE DEF g
  <2> QED BY <2>2
<1>2. ASSUME NEW k \in 0..(n - 1), k \in S PROVE k + 1 \in S
  <2>1. PICK f : Rests(f, k)
    BY <1>2
  <2> DEFINE p == n + 1 - (k + 1)
             g == [i \in p..(n + 1) |-> Decode(f, name, i)]
  <2>0. p \in 1..n /\ n + 1 - k = p + 1
    BY <1>0
  <2>2. \A i \in (p + 1)..(n + 1) : f[i] = Decode(f, name, i)
    BY <2>0, <2>1
  <2>3. \A i \in (p + 1)..(n + 1) : g[i] = f[i]
    BY <2>0, <2>2
  <2>4. ASSUME NEW i \in p..(n + 1) PROVE Decode(f, name, i) = Decode(g, name, i)
    <3>1. i <= n => i + 1 \in (p + 1)..(n + 1)
      BY <1>0, <2>0
    <3>2. i <= n /\ Coded(name, i) # {} => i + 3 \in (p + 1)..(n + 1)
      BY <1>0, <2>0 DEF Coded
    <3>3. i <= n => g[i + 1] = f[i + 1]
      BY <2>3, <3>1
    <3>4. i <= n /\ Coded(name, i) # {} => g[i + 3] = f[i + 3]
      BY <2>3, <3>2
    <3> HIDE DEF g
    <3> QED BY <1>0, <2>0, <3>3, <3>4 DEF Decode
  <2>5. Rests(g, k + 1)
    BY <2>4
  <2>6. \E h : Rests(h, k + 1)
    <3> HIDE DEF g
    <3> QED BY <2>5
  <2> QED BY <1>0, <2>6
<1>3. n \in S
  <2> HIDE DEF S, n
  <2>1. 0..n \subseteq S
    BY <1>0, <1>1, <1>2, StepByStep
  <2> QED BY <1>0, <2>1
<1> DEFINE rest == CHOOSE f : f = [i \in 1..(n + 1) |->
        IF i > Len(name) THEN <<>>
        ELSE LET cs == {c \in DOMAIN Hex : i + 2 <= Len(name) /\ Hex[c] = SubSeq(name, i, i + 2)}
             IN IF cs = {} THEN <<name[i]>> \o f[i + 1]
                ELSE <<CHOOSE c \in cs : TRUE>> \o f[i + 3]]
<1>4. Decoded(name) = rest[1]
  BY DEF Decoded
<1>5. \E f : f = [i \in 1..(n + 1) |-> Decode(f, name, i)]
  <2>1. n + 1 - n = 1
    BY <1>0
  <2> QED BY <1>3, <2>1
<1>6. rest = [i \in 1..(n + 1) |-> Decode(rest, name, i)]
  BY <1>5 DEF Decode, Coded
<1> HIDE DEF rest
<1>7. \A i \in 1..(n + 1) : rest[i] = Decode(rest, name, i)
  BY <1>6
<1> QED BY <1>4, <1>7

LEMMA DecodeIn ==
  ASSUME NEW name \in Text, NEW f, NEW i \in 1..(Len(name) + 1),
         i <= Len(name) => f[i + 1] \in Text,
         i <= Len(name) /\ Coded(name, i) # {} => f[i + 3] \in Text
  PROVE  Decode(f, name, i) \in Text
<1>1. CASE i > Len(name)
  BY <1>1 DEF Decode, Text
<1>2. CASE i <= Len(name) /\ Coded(name, i) = {}
  <2>1. <<name[i]>> \in Text
    BY <1>2 DEF Text
  <2>2. <<name[i]>> \o f[i + 1] \in Text
    BY <1>2, <2>1, ConcatProperties DEF Text
  <2> QED BY <1>2, <2>2 DEF Decode
<1>3. CASE i <= Len(name) /\ Coded(name, i) # {}
  <2> DEFINE c == CHOOSE d \in Coded(name, i) : TRUE
  <2>1. c \in DOMAIN Hex
    BY <1>3 DEF Coded
  <2>2. c \in Char
    BY <2>1, HexIs, CharAssumption
  <2> HIDE DEF c
  <2>3. <<c>> \in Text
    BY <2>2 DEF Text
  <2>4. <<c>> \o f[i + 3] \in Text
    BY <1>3, <2>3, ConcatProperties DEF Text
  <2> QED BY <1>3, <2>4 DEF Decode, c
<1> QED BY <1>1, <1>2, <1>3 DEF Text

\* What stands for a character in an encoded name.
Piece(c, C) == IF c \in C THEN Hex[c] ELSE <<c>>
PieceList(name, C) == [i \in DOMAIN name |-> IF name[i] \in C THEN Hex[name[i]] ELSE <<name[i]>>]

LEMMA PieceIs ==
  ASSUME NEW c \in Char, NEW C \in SUBSET DOMAIN Hex
  PROVE  Piece(c, C) \in Text
BY HexIs DEF Piece, Text

LEMMA PieceListIs ==
  ASSUME NEW name \in Text, NEW C \in SUBSET DOMAIN Hex
  PROVE  /\ PieceList(name, C) \in Seq(Text) /\ Len(PieceList(name, C)) = Len(name)
         /\ \A i \in 1..Len(name) : PieceList(name, C)[i] = Piece(name[i], C)
         /\ Encoded(name, C) = FlattenSeq(PieceList(name, C))
<1>1. DOMAIN name = 1..Len(name) /\ Len(name) \in Nat /\ \A i \in 1..Len(name) : name[i] \in Char
  BY DEF Text
<1>2. PieceList(name, C) = [i \in 1..Len(name) |-> Piece(name[i], C)]
  BY <1>1 DEF PieceList, Piece
<1>3. \A i \in 1..Len(name) : Piece(name[i], C) \in Text
  BY <1>1, PieceIs
<1>4. PieceList(name, C) \in [1..Len(name) -> Text]
  BY <1>2, <1>3
<1>5. PieceList(name, C) \in Seq(Text) /\ Len(PieceList(name, C)) = Len(name)
  <2> HIDE DEF PieceList
  <2> QED BY <1>1, <1>4
<1>6. Encoded(name, C) = FlattenSeq(PieceList(name, C))
  BY DEF Encoded, PieceList
<1> QED BY <1>2, <1>5, <1>6

LEMMA EncodedIn ==
  ASSUME NEW name \in Text, NEW C \in SUBSET DOMAIN Hex
  PROVE  Encoded(name, C) \in Text
<1> DEFINE s == PieceList(name, C)
<1>1. s \in Seq(Seq(Char)) /\ Encoded(name, C) = FlattenSeq(s)
  BY PieceListIs DEF Text
<1> HIDE DEF s
<1>2. PICK F : F \in [0..Len(s) -> Seq(Char)] /\ FlattenSeq(s) = F[Len(s)]
  BY <1>1, FlattenRuns
<1>3. Len(s) \in 0..Len(s)
  BY <1>1
<1> QED BY <1>1, <1>2, <1>3 DEF Text

LEMMA ConcatIs ==
  ASSUME NEW X, NEW a \in Seq(X), NEW b \in Seq(X)
  PROVE  /\ a \o b \in Seq(X) /\ Len(a \o b) = Len(a) + Len(b) /\ Len(a) \in Nat /\ Len(b) \in Nat
         /\ \A i \in 1..Len(a) : (a \o b)[i] = a[i]
         /\ \A i \in 1..Len(b) : (a \o b)[Len(a) + i] = b[i]
<1>1. Len(a) \in Nat /\ Len(b) \in Nat
  OBVIOUS
<1>2. /\ a \o b \in Seq(X) /\ Len(a \o b) = Len(a) + Len(b)
      /\ \A i \in 1..Len(a) + Len(b) : (a \o b)[i] = IF i <= Len(a) THEN a[i] ELSE b[i - Len(a)]
  BY ConcatProperties
<1>3. \A i \in 1..Len(b) : /\ Len(a) + i \in 1..Len(a) + Len(b)
                           /\ ~(Len(a) + i <= Len(a)) /\ (Len(a) + i) - Len(a) = i
  BY <1>1
<1>4. \A i \in 1..Len(a) : i \in 1..Len(a) + Len(b)
  BY <1>1
<1> QED BY <1>1, <1>2, <1>3, <1>4

\* F[k] is what the first k of s make, and s[k] stands in the whole from there.
Stands(F, s, m) ==
  /\ F \in [0..m -> Text] /\ F[0] = <<>> /\ FlattenSeq(s) = F[m]
  /\ \A k \in 0..m : Len(F[k]) <= Len(F[m])
  /\ \A k \in 1..m :
       /\ Len(F[k]) = Len(F[k - 1]) + Len(s[k])
       /\ \A i \in 1..Len(s[k]) : F[m][Len(F[k - 1]) + i] = s[k][i]

\* The pieces of an encoded name stand in it one after the other.
LEMMA PiecesStand ==
  ASSUME NEW s \in Seq(Text), NEW m, m = Len(s)
  PROVE  \E F : Stands(F, s, m)
<1>0. m \in Nat /\ \A k \in 1..m : s[k] \in Text
  OBVIOUS
<1>1. PICK F : F \in [0..m -> Seq(Char)] /\ Flattens(F, s, m) /\ FlattenSeq(s) = F[m]
  BY FlattenRuns DEF Text
<1>2. ASSUME NEW k \in 1..m
      PROVE  /\ k - 1 \in 0..m /\ k \in 0..m /\ F[k - 1] \in Seq(Char) /\ s[k] \in Seq(Char)
             /\ F[k] = F[k - 1] \o s[k] /\ Len(F[k]) = Len(F[k - 1]) + Len(s[k])
             /\ Len(F[k - 1]) \in Nat /\ Len(s[k]) \in Nat
             /\ \A i \in 1..Len(F[k - 1]) : F[k][i] = F[k - 1][i]
             /\ \A i \in 1..Len(s[k]) : F[k][Len(F[k - 1]) + i] = s[k][i]
  <2>1. k - 1 \in 0..m /\ k \in 0..m
    BY <1>0
  <2>2. s[k] \in Seq(Char)
    BY <1>0 DEF Text
  <2>3. F[k] = F[k - 1] \o s[k]
    BY <1>1 DEF Flattens
  <2>4. F[k - 1] \in Seq(Char)
    BY <1>1, <2>1
  <2> DEFINE a == F[k - 1]
             b == s[k]
  <2>5. a \in Seq(Char) /\ b \in Seq(Char) /\ F[k] = a \o b
    BY <2>2, <2>3, <2>4
  <2> HIDE DEF a, b
  <2>6. /\ Len(F[k]) = Len(a) + Len(b) /\ Len(a) \in Nat /\ Len(b) \in Nat
        /\ \A i \in 1..Len(a) : F[k][i] = a[i]
        /\ \A i \in 1..Len(b) : F[k][Len(a) + i] = b[i]
    BY <2>5, ConcatIs
  <2> QED BY <2>1, <2>5, <2>6 DEF a, b
\* Each F[m - j] is a prefix of the whole.
<1> DEFINE Heads == {j \in 0..m : /\ Len(F[m - j]) <= Len(F[m])
                                  /\ \A i \in 1..Len(F[m - j]) : F[m][i] = F[m - j][i]}
<1>3. 0 \in Heads
  <2>1. m - 0 = m /\ F[m] \in Seq(Char)
    BY <1>0, <1>1
  <2>2. Len(F[m]) \in Nat
    BY <2>1
  <2> QED BY <1>0, <2>1, <2>2
<1>4. ASSUME NEW j \in 0..(m - 1), j \in Heads PROVE j + 1 \in Heads
  <2> DEFINE k == m - j
  <2>1. k \in 1..m /\ m - (j + 1) = k - 1 /\ j + 1 \in 0..m
    BY <1>0
  <2>2. Len(F[k]) <= Len(F[m]) /\ \A i \in 1..Len(F[k]) : F[m][i] = F[k][i]
    BY <1>4
  <2>3. /\ Len(F[k]) = Len(F[k - 1]) + Len(s[k]) /\ Len(F[k - 1]) \in Nat /\ Len(s[k]) \in Nat
        /\ \A i \in 1..Len(F[k - 1]) : F[k][i] = F[k - 1][i]
    BY <1>2, <2>1
  <2>4. m \in 0..m
    BY <1>0
  <2>5. Len(F[m]) \in Nat
    BY <1>1, <2>4
  <2> HIDE DEF k
  <2>6. Len(F[k - 1]) <= Len(F[m]) /\ \A i \in 1..Len(F[k - 1]) : i \in 1..Len(F[k])
    <3>1. \A x, y, z, w \in Nat : x <= w /\ x = y + z => y <= w /\ \A i \in 1..y : i \in 1..x
      OBVIOUS
    <3>2. Len(F[k]) \in Nat
      <4>1. \A x, y \in Nat : x + y \in Nat
        OBVIOUS
      <4> QED BY <2>3, <4>1
    <3> QED BY <2>2, <2>3, <2>5, <3>1, <3>2
  <2>7. \A i \in 1..Len(F[k - 1]) : F[m][i] = F[k - 1][i]
    BY <2>2, <2>3, <2>6
  <2> QED BY <2>1, <2>6, <2>7
<1> HIDE DEF Heads
<1>5. 0..m \subseteq Heads
  BY <1>0, <1>3, <1>4, StepByStep
<1>6. ASSUME NEW k \in 0..m
      PROVE  Len(F[k]) <= Len(F[m]) /\ \A i \in 1..Len(F[k]) : F[m][i] = F[k][i]
  <2>1. m - k \in 0..m /\ m - (m - k) = k
    BY <1>0
  <2>2. m - k \in Heads
    BY <1>5, <2>1
  <2> QED BY <2>1, <2>2 DEF Heads
<1>7. ASSUME NEW k \in 1..m, NEW i \in 1..Len(s[k])
      PROVE  F[m][Len(F[k - 1]) + i] = s[k][i]
  <2>1. k \in 0..m /\ Len(F[k]) = Len(F[k - 1]) + Len(s[k]) /\ Len(F[k - 1]) \in Nat /\ Len(s[k]) \in Nat
    BY <1>2
  <2>2. Len(F[k - 1]) + i \in 1..Len(F[k])
    <3>1. \A x, y \in Nat : \A h \in 1..y : x + h \in 1..(x + y)
      OBVIOUS
    <3> QED BY <2>1, <3>1
  <2>3. F[m][Len(F[k - 1]) + i] = F[k][Len(F[k - 1]) + i]
    BY <1>6, <2>1, <2>2
  <2> QED BY <1>2, <2>3
<1>8. F \in [0..m -> Text] /\ F[0] = <<>>
  BY <1>1 DEF Flattens, Text
<1>9. \A k \in 0..m : Len(F[k]) <= Len(F[m])
  BY <1>6
<1>10. \A k \in 1..m : Len(F[k]) = Len(F[k - 1]) + Len(s[k])
  BY <1>2
<1>11. \A k \in 1..m : \A i \in 1..Len(s[k]) : F[m][Len(F[k - 1]) + i] = s[k][i]
  BY <1>7
<1>12. FlattenSeq(s) = F[m]
  BY <1>1
<1> QED BY <1>8, <1>9, <1>10, <1>11, <1>12 DEF Stands

\* Where a piece begins, the decoder finds its character and goes on behind it.
LEMMA DecodePiece ==
  ASSUME NEW e \in Text, NEW f, NEW c \in Char, NEW C \in SUBSET DOMAIN Hex, "%" \in C,
         NEW p \in Nat, p > 0, p + Len(Piece(c, C)) <= Len(e) + 1,
         \A i \in 1..Len(Piece(c, C)) : e[p - 1 + i] = Piece(c, C)[i]
  PROVE  Decode(f, e, p) = <<c>> \o f[p + Len(Piece(c, C))]
<1>0. Len(e) \in Nat
  BY DEF Text
<1>1. CASE c \in C
  <2>1. c \in DOMAIN Hex /\ Piece(c, C) = Hex[c] /\ Len(Hex[c]) = 3 /\ Hex[c] \in Text
    BY <1>1, HexIs DEF Piece
  <2>2. p + 2 <= Len(e) /\ \A i \in 1..3 : e[p - 1 + i] = Hex[c][i]
    BY <1>0, <2>1
  <2>3. SubSeq(e, p, p + 2) = Hex[c]
    <3>1. \A i \in p..(p + 2) : e[i] \in Char
      BY <1>0, <2>2 DEF Text
    <3>2. /\ SubSeq(e, p, p + 2) \in Seq(Char) /\ Len(SubSeq(e, p, p + 2)) = p + 2 - p + 1
          /\ \A i \in 1..(p + 2 - p + 1) : SubSeq(e, p, p + 2)[i] = e[p + i - 1]
      BY <3>1, SubSeqProperties
    <3>3. p + 2 - p + 1 = 3 /\ \A i \in 1..3 : p + i - 1 = p - 1 + i
      OBVIOUS
    <3>4. Len(SubSeq(e, p, p + 2)) = 3 /\ \A i \in 1..3 : SubSeq(e, p, p + 2)[i] = Hex[c][i]
      BY <2>2, <3>2, <3>3
    <3> DEFINE q == SubSeq(e, p, p + 2)
    <3>5. q \in Seq(Char) /\ Len(q) = 3 /\ \A i \in 1..3 : q[i] = Hex[c][i]
      BY <3>2, <3>4
    <3> HIDE DEF q
    <3>6. q = Hex[c]
      BY <2>1, <3>5, SeqEqual DEF Text
    <3> QED BY <3>6 DEF q
  <2>4. Coded(e, p) = {c}
    BY <2>1, <2>2, <2>3, HexIs DEF Coded
  <2>5. (CHOOSE d \in Coded(e, p) : TRUE) = c /\ Coded(e, p) # {}
    BY <2>4
  <2>6. ~(p > Len(e)) /\ p + Len(Piece(c, C)) = p + 3
    BY <1>0, <2>1, <2>2
  <2> QED BY <2>5, <2>6 DEF Decode
<1>2. CASE c \notin C
  <2>1. Piece(c, C) = <<c>> /\ c # "%"
    BY <1>2 DEF Piece
  <2>2. Len(Piece(c, C)) = 1 /\ Piece(c, C)[1] = c
    BY <2>1
  <2>3. p <= Len(e) /\ e[p] = c
    BY <1>0, <2>2
  <2>4. ASSUME NEW d \in DOMAIN Hex, p + 2 <= Len(e), Hex[d] = SubSeq(e, p, p + 2) PROVE FALSE
    <3>1. \A i \in p..(p + 2) : e[i] \in Char
      BY <1>0, <2>4 DEF Text
    <3>2. \A i \in 1..(p + 2 - p + 1) : SubSeq(e, p, p + 2)[i] = e[p + i - 1]
      BY <3>1, SubSeqProperties
    <3>3. 1 \in 1..(p + 2 - p + 1) /\ p + 1 - 1 = p
      OBVIOUS
    <3>4. Hex[d][1] = e[p]
      BY <2>4, <3>2, <3>3
    <3> QED BY <2>1, <2>3, <3>4, HexIs
  <2>5. Coded(e, p) = {}
    BY <2>4 DEF Coded
  <2>6. ~(p > Len(e)) /\ p + Len(Piece(c, C)) = p + 1
    BY <1>0, <2>2, <2>3
  <2> QED BY <2>3, <2>5, <2>6 DEF Decode
<1> QED BY <1>1, <1>2

\* Decoding undoes the encoding, whatever characters were replaced, as long as
\* "%" was.
THEOREM RoundTrip ==
  ASSUME NEW name \in Text, NEW C \in SUBSET DOMAIN Hex, "%" \in C
  PROVE  Decoded(Encoded(name, C)) = name
<1> DEFINE n == Len(name)
           s == PieceList(name, C)
           e == Encoded(name, C)
<1>0. n \in Nat /\ name \in Seq(Char) /\ \A i \in 1..n : name[i] \in Char
  BY DEF Text
<1>1. s \in Seq(Text) /\ Len(s) = n /\ (\A i \in 1..n : s[i] = Piece(name[i], C)) /\ e = FlattenSeq(s)
  BY PieceListIs
<1>2. e \in Text
  BY EncodedIn
<1> HIDE DEF s, e, n
<1>2a. PICK F : Stands(F, s, n)
  BY <1>1, PiecesStand
<1>3. /\ F \in [0..n -> Text] /\ F[0] = <<>> /\ e = F[n]
      /\ \A k \in 0..n : Len(F[k]) <= Len(e)
      /\ \A k \in 1..n : /\ Len(F[k]) = Len(F[k - 1]) + Len(s[k])
                         /\ \A i \in 1..Len(s[k]) : e[Len(F[k - 1]) + i] = s[k][i]
  BY <1>1, <1>2a DEF Stands
<1>4. PICK f : Decoded(e) = f[1] /\ \A i \in 1..(Len(e) + 1) : f[i] = Decode(f, e, i)
  BY <1>2, DecodedIs
<1> DEFINE S == {j \in 0..n : f[Len(F[n - j]) + 1] = SubSeq(name, n - j + 1, n)}
<1>5. 0 \in S
  <2>1. Len(e) \in Nat /\ n - 0 = n
    BY <1>0, <1>2 DEF Text
  <2>2. f[Len(e) + 1] = <<>>
    <3>1. Len(e) + 1 \in 1..(Len(e) + 1) /\ Len(e) + 1 > Len(e)
      BY <2>1
    <3> QED BY <1>4, <3>1 DEF Decode
  <2>3. SubSeq(name, n + 1, n) = <<>>
    BY <1>0, SubSeqEmpty
  <2>4. f[Len(F[n - 0]) + 1] = SubSeq(name, n - 0 + 1, n) /\ 0 \in 0..n
    <3>1. Len(F[n - 0]) + 1 = Len(e) + 1 /\ n - 0 + 1 = n + 1 /\ 0 \in 0..n
      BY <1>0, <1>3, <2>1
    <3> QED BY <2>2, <2>3, <3>1
  <2> QED BY <2>4
<1>6. ASSUME NEW j \in 0..(n - 1), j \in S PROVE j + 1 \in S
  <2> DEFINE k == n - j
             p == Len(F[k - 1]) + 1
  <2>1. k \in 1..n /\ n - (j + 1) = k - 1 /\ k - 1 \in 0..n /\ k \in 0..n /\ j + 1 \in 0..n
    BY <1>0
  <2>2. f[Len(F[k]) + 1] = SubSeq(name, k + 1, n)
    BY <1>6
  <2> HIDE DEF k
  <2>3. name[k] \in Char /\ s[k] = Piece(name[k], C) /\ s[k] \in Text
    BY <1>0, <1>1, <2>1, PieceIs
  <2>4. Len(F[k - 1]) \in Nat /\ Len(s[k]) \in Nat /\ Len(e) \in Nat /\ Len(F[k]) \in Nat
    BY <1>2, <1>3, <2>1, <2>3 DEF Text
  <2>5. Len(F[k]) <= Len(e) /\ Len(F[k]) = Len(F[k - 1]) + Len(s[k])
    BY <1>3, <2>1
  <2> DEFINE x == Len(F[k - 1])
             y == Len(s[k])
             z == Len(F[k])
             w == Len(e)
  <2>0. x \in Nat /\ y \in Nat /\ z \in Nat /\ w \in Nat /\ z <= w /\ z = x + y /\ p = x + 1
    BY <2>4, <2>5
  <2>6. p \in Nat /\ p > 0 /\ p + Len(s[k]) <= Len(e) + 1 /\ p \in 1..(Len(e) + 1)
    <3>1. p \in Nat /\ p > 0 /\ p + y <= w + 1 /\ p \in 1..(w + 1)
      <4> HIDE DEF x, y, z, w, p
      <4> QED BY <2>0
    <3> QED BY <3>1
  <2>7. \A i \in 1..Len(s[k]) : e[p - 1 + i] = s[k][i]
    <3>1. p - 1 = Len(F[k - 1])
      BY <2>4
    <3> QED BY <1>3, <2>1, <3>1
  <2>8. p + Len(s[k]) = Len(F[k]) + 1
    <3>1. p + y = z + 1
      <4> HIDE DEF x, y, z, w, p
      <4> QED BY <2>0
    <3> QED BY <3>1
  <2> HIDE DEF p
  <2>9. Decode(f, e, p) = <<name[k]>> \o f[p + Len(s[k])]
    <3> DEFINE c == name[k]
    <3>1. /\ c \in Char /\ p + Len(Piece(c, C)) <= Len(e) + 1
          /\ \A i \in 1..Len(Piece(c, C)) : e[p - 1 + i] = Piece(c, C)[i]
      BY <2>3, <2>6, <2>7
    <3> HIDE DEF c
    <3>2. Decode(f, e, p) = <<c>> \o f[p + Len(Piece(c, C))]
      BY <1>2, <2>6, <3>1, DecodePiece
    <3> QED BY <2>3, <3>2 DEF c
  <2>10. f[p] = <<name[k]>> \o SubSeq(name, k + 1, n)
    BY <1>4, <2>2, <2>6, <2>8, <2>9
  <2>11. n \in k..Len(name) /\ k \in 1..Len(name)
    BY <1>0, <2>1 DEF n
  <2>12. f[p] = SubSeq(name, k, n)
    BY <1>0, <2>10, <2>11, SubSeqRecursiveFirst
  <2>13. (k - 1) + 1 = k
    BY <2>1
  <2> QED BY <2>1, <2>12, <2>13 DEF p
<1> HIDE DEF S
<1>7. 0..n \subseteq S
  BY <1>0, <1>5, <1>6, StepByStep
<1>8. n \in S
  BY <1>0, <1>7
<1>9. f[Len(F[0]) + 1] = SubSeq(name, 1, n)
  <2>1. n - n = 0 /\ n - n + 1 = 1
    BY <1>0
  <2> QED BY <1>8, <2>1 DEF S
<1>10. Len(F[0]) + 1 = 1
  BY <1>3
<1>11. SubSeq(name, 1, n) = name
  BY <1>0, SubSeqFull DEF n
<1> QED BY <1>4, <1>9, <1>10, <1>11 DEF e

-----------------------------------------------------------------------------
(* Full keys                                                                 *)

\* The first n characters, and the others.
LEMMA FirstIs ==
  ASSUME NEW X, NEW s \in Seq(X), NEW n \in Nat, n <= Len(s), NEW q, q = SubSeq(s, 1, n)
  PROVE  q \in Seq(X) /\ Len(q) = n /\ \A i \in 1..n : q[i] = s[i]
<1>1. \A i \in 1..n : s[i] \in X
  OBVIOUS
<1>2. /\ SubSeq(s, 1, n) \in Seq(X) /\ Len(SubSeq(s, 1, n)) = IF 1 <= n THEN n - 1 + 1 ELSE 0
      /\ \A i \in 1..(n - 1 + 1) : SubSeq(s, 1, n)[i] = s[1 + i - 1]
  BY <1>1, SubSeqProperties
<1>3. (IF 1 <= n THEN n - 1 + 1 ELSE 0) = n /\ 1..(n - 1 + 1) = 1..n /\ \A i \in 1..n : 1 + i - 1 = i
  OBVIOUS
<1> QED BY <1>2, <1>3

RestOf(q, s, n) == Len(q) = Len(s) - n /\ \A i \in 1..Len(q) : q[i] = s[n + i]

LEMMA AfterIs ==
  ASSUME NEW X, NEW s \in Seq(X), NEW n \in 0..Len(s)
  PROVE  After(s, n) \in Seq(X) /\ RestOf(After(s, n), s, n)
<1> DEFINE a == n + 1
           b == Len(s)
           m == Len(s) - n
           q == After(s, n)
<1>0. a \in Int /\ b \in Int
  OBVIOUS
<1>1. \A i \in a..b : s[i] \in X
  OBVIOUS
<1>2. (IF a <= b THEN b - a + 1 ELSE 0) = m /\ 1..(b - a + 1) = 1..m
      /\ \A i \in 1..m : a + i - 1 = n + i
  OBVIOUS
<1>3. q = SubSeq(s, a, b)
  BY DEF After
<1> HIDE DEF a, b, m, q
<1>4. /\ SubSeq(s, a, b) \in Seq(X) /\ Len(SubSeq(s, a, b)) = IF a <= b THEN b - a + 1 ELSE 0
      /\ \A i \in 1..(b - a + 1) : SubSeq(s, a, b)[i] = s[a + i - 1]
  BY <1>0, <1>1, SubSeqProperties
<1>5. q \in Seq(X) /\ Len(q) = m /\ \A i \in 1..m : q[i] = s[n + i]
  BY <1>2, <1>3, <1>4
<1> QED BY <1>5 DEF RestOf, q, m

LEMMA JoinedIs ==
  ASSUME NEW X, NEW v \in Seq(X), NEW e \in Seq(X)
  PROVE  SubSeq(v \o e, 1, Len(v)) = v /\ After(v \o e, Len(v)) = e
<1> DEFINE s == v \o e
           n == Len(v)
           p == SubSeq(s, 1, n)
           q == After(s, n)
<1>1. /\ s \in Seq(X) /\ Len(s) = n + Len(e) /\ n \in Nat /\ Len(e) \in Nat
      /\ (\A i \in 1..n : s[i] = v[i]) /\ \A i \in 1..Len(e) : s[n + i] = e[i]
  BY ConcatIs
<1> HIDE DEF s, n
<1>2. n <= Len(s) /\ Len(s) - n = Len(e)
  BY <1>1
<1>3. p \in Seq(X) /\ Len(p) = n /\ \A i \in 1..n : p[i] = s[i]
  <2> HIDE DEF p
  <2>1. p = SubSeq(s, 1, n)
    BY DEF p
  <2> QED BY <1>1, <1>2, <2>1, FirstIs
<1>4. q \in Seq(X) /\ Len(q) = Len(e) /\ \A i \in 1..Len(e) : q[i] = s[n + i]
  <2>1. n \in 0..Len(s) /\ s \in Seq(X)
    BY <1>1, <1>2
  <2>2. q \in Seq(X) /\ RestOf(q, s, n)
    BY <2>1, AfterIs
  <2> HIDE DEF q
  <2> QED BY <1>2, <2>2 DEF RestOf
<1> HIDE DEF p, q
<1>5. Len(p) = Len(v) /\ \A i \in 1..Len(p) : p[i] = v[i]
  BY <1>1, <1>3 DEF n
<1>6. p = v
  BY <1>3, <1>5, SeqEqual
<1>7. Len(q) = Len(e) /\ \A i \in 1..Len(q) : q[i] = e[i]
  BY <1>1, <1>2, <1>4
<1>8. q = e
  BY <1>4, <1>7, SeqEqual
<1> QED BY <1>6, <1>8 DEF p, q, s, n

\* Where the first ":" is.
LEMMA ColonAt ==
  ASSUME NEW s \in Text, NEW n \in Nat, n + 1 <= Len(s), s[n + 1] = ":", \A i \in 1..n : s[i] # ":"
  PROVE  Colon(s) = n + 1 /\ Contains(s, ":")
<1>0. s \in Seq(Char) /\ Len(s) \in Nat /\ DOMAIN s = 1..Len(s) /\ n + 1 \in 1..Len(s) /\ n + 1 - 1 = n
  BY DEF Text
<1>1. Contains(s, ":")
  BY <1>0 DEF Contains
<1> DEFINE P(i) == s[i] = ":" /\ ~Contains(SubSeq(s, 1, i - 1), ":")
<1>2. ASSUME NEW m \in Nat, m <= Len(s)
      PROVE  Contains(SubSeq(s, 1, m), ":") <=> \E i \in 1..m : s[i] = ":"
  <2> DEFINE q == SubSeq(s, 1, m)
  <2>1. q \in Seq(Char) /\ Len(q) = m /\ \A i \in 1..m : q[i] = s[i]
    <3> HIDE DEF q
    <3>1. q = SubSeq(s, 1, m)
      BY DEF q
    <3> QED BY <1>0, <1>2, <3>1, FirstIs
  <2> HIDE DEF q
  <2>2. Contains(q, ":") <=> \E i \in 1..m : s[i] = ":"
    BY <2>1 DEF Contains
  <2> QED BY <2>2 DEF q
<1>3. P(n + 1)
  <2>1. n <= Len(s)
    BY <1>0
  <2>2. ~Contains(SubSeq(s, 1, n), ":")
    BY <1>2, <2>1
  <2>3. SubSeq(s, 1, (n + 1) - 1) = SubSeq(s, 1, n)
    BY <1>0
  <2> QED BY <2>2, <2>3
<1>4. ASSUME NEW i \in DOMAIN s, P(i) PROVE i = n + 1
  <2>1. i \in 1..Len(s) /\ ~(i <= n)
    BY <1>0, <1>4
  <2>2. i - 1 \in Nat /\ i - 1 <= Len(s)
    BY <1>0, <2>1
  <2>3. ~ \E j \in 1..(i - 1) : s[j] = ":"
    BY <1>2, <1>4, <2>2
  <2>4. n + 1 \notin 1..(i - 1)
    BY <2>3
  <2> QED BY <1>0, <2>1, <2>4
<1>5. n + 1 \in DOMAIN s
  BY <1>0
<1> HIDE DEF P
<1>6. (CHOOSE i \in DOMAIN s : P(i)) = n + 1
  BY <1>3, <1>4, <1>5
<1> QED BY <1>1, <1>6 DEF Colon, P

\* Words without a ":", as session ids are.
Word == {w \in Text : ~Contains(w, ":")}

LEMMA ColonIs ==
  ASSUME NEW w \in Word, NEW e \in Text
  PROVE  LET s == (w \o <<":">>) \o e
         IN /\ Colon(s) = Len(w) + 1 /\ s \in Text
            /\ SubSeq(s, 1, Len(w)) = w /\ After(s, Len(w) + 1) = e
<1> DEFINE n == Len(w)
           v == w \o <<":">>
           s == v \o e
<1>0. /\ n \in Nat /\ e \in Seq(Char) /\ w \in Seq(Char) /\ <<":">> \in Seq(Char) /\ Len(<<":">>) = 1
      /\ <<":">>[1] = ":" /\ \A i \in 1..n : w[i] # ":"
  BY CharAssumption DEF Text, Word, Contains
<1>1. v \in Seq(Char) /\ Len(v) = n + 1 /\ (\A i \in 1..n : v[i] = w[i]) /\ v[n + 1] = ":"
  <2>1. /\ v \in Seq(Char) /\ Len(v) = n + 1 /\ (\A i \in 1..n : v[i] = w[i])
        /\ \A i \in 1..1 : v[n + i] = <<":">>[i]
    BY <1>0, ConcatIs
  <2>2. v[n + 1] = <<":">>[1]
    BY <2>1
  <2> QED BY <1>0, <2>1, <2>2
<1>2. SubSeq(v, 1, n) = w
  BY <1>0, JoinedIs
<1> HIDE DEF v, n
<1>3. /\ s \in Seq(Char) /\ Len(s) = n + 1 + Len(e) /\ Len(e) \in Nat
      /\ \A i \in 1..(n + 1) : s[i] = v[i]
  <2>1. /\ s \in Seq(Char) /\ Len(s) = Len(v) + Len(e) /\ Len(e) \in Nat
        /\ \A i \in 1..Len(v) : s[i] = v[i]
    <3>1. v \in Seq(Char) /\ e \in Seq(Char)
      BY <1>0, <1>1
    <3> QED BY <3>1, ConcatIs
  <2> HIDE DEF s
  <2> QED BY <1>1, <2>1
<1>4. After(s, n + 1) = e /\ SubSeq(s, 1, n + 1) = v
  BY <1>0, <1>1, JoinedIs
<1> HIDE DEF s
<1>5. n + 1 <= Len(s) /\ s[n + 1] = ":" /\ \A i \in 1..n : s[i] = w[i] /\ w[i] # ":"
  BY <1>0, <1>1, <1>3
<1>6. Colon(s) = n + 1
  BY <1>0, <1>3, <1>5, ColonAt DEF Text
<1>7. SubSeq(s, 1, n) = w
  <2> DEFINE p == SubSeq(s, 1, n)
  <2>1. p \in Seq(Char) /\ Len(p) = n /\ \A i \in 1..n : p[i] = s[i]
    <3> HIDE DEF p
    <3>1. p = SubSeq(s, 1, n) /\ n <= Len(s)
      BY <1>0, <1>5 DEF p
    <3> QED BY <1>0, <1>3, <3>1, FirstIs
  <2> HIDE DEF p
  <2>2. Len(p) = Len(w) /\ \A i \in 1..Len(p) : p[i] = w[i]
    BY <1>5, <2>1 DEF n
  <2>3. p = w
    BY <1>0, <2>1, <2>2, SeqEqual
  <2> QED BY <2>3 DEF p
<1> QED BY <1>3, <1>4, <1>6, <1>7 DEF Text, n, s, v

LEMMA PrefixIs ==
  ASSUME NEW p \in Text, NEW f \in Text
  PROVE  IsPrefix(p, f) <=> \E e \in Text : f = p \o e
<1>0. p \in Seq(Char) /\ f \in Seq(Char) /\ Len(p) \in Nat /\ Len(f) \in Nat
  BY DEF Text
<1>1. SubSeq(p, 1, Len(p)) = p /\ SubSeq(f, 1, Len(f)) = f
  BY <1>0, SubSeqFull
<1>2. ASSUME IsPrefix(p, f) PROVE \E e \in Text : f = p \o e
  <2> DEFINE n == Len(p)
             e == After(f, n)
  <2>1. n \in 0..Len(f) /\ SubSeq(f, 1, n) = p
    BY <1>0, <1>1, <1>2 DEF IsPrefix
  <2>2. e \in Text
    <3> HIDE DEF n
    <3> QED BY <1>0, <2>1, AfterIs DEF Text
  <2>3. 1 \in 1..Len(f) + 1 /\ n \in (1 - 1)..Len(f) /\ Len(f) \in n..Len(f)
    BY <1>0, <2>1
  <2>4. SubSeq(f, 1, n) \o SubSeq(f, n + 1, Len(f)) = SubSeq(f, 1, Len(f))
    <3> HIDE DEF n
    <3> QED BY <1>0, <2>3, ConcatAdjacentSubSeq
  <2>5. f = p \o e
    BY <1>1, <2>1, <2>4 DEF After
  <2> QED BY <2>2, <2>5
<1>3. ASSUME NEW e \in Text, f = p \o e PROVE IsPrefix(p, f)
  <2>1. e \in Seq(Char)
    BY DEF Text
  <2>2. Len(p \o e) = Len(p) + Len(e) /\ Len(e) \in Nat
    BY <1>0, <2>1, ConcatIs
  <2>3. SubSeq(p \o e, 1, Len(p)) = p
    BY <1>0, <2>1, JoinedIs
  <2>4. Len(p) <= Len(f)
    BY <1>0, <1>3, <2>2
  <2> QED BY <1>1, <1>3, <2>3, <2>4 DEF IsPrefix
<1> QED BY <1>2, <1>3

LEMMA LayoutIs ==
  /\ Namespace \in Text /\ Creds \in Text /\ Meta \in Text /\ Creds # Meta
  /\ <<>> \in Text /\ <<":">> \in Text
  /\ NamespacePrefix \in Text /\ Len(NamespacePrefix) = 2
  /\ \A v \in Text : v \o <<>> = v
<1>1. Namespace \in Seq(Char) /\ Creds \in Seq(Char) /\ Meta \in Seq(Char)
  BY CharAssumption DEF Namespace, Creds, Meta
<1>2. <<>> \in Seq(Char) /\ <<":">> \in Seq(Char) /\ Len(<<":">>) = 1 /\ Len(Namespace) = 1
  BY CharAssumption DEF Namespace
<1>3. NamespacePrefix \in Seq(Char) /\ Len(NamespacePrefix) = 1 + 1
  <2>1. /\ Namespace \o <<":">> \in Seq(Char)
        /\ Len(Namespace \o <<":">>) = Len(Namespace) + Len(<<":">>)
    BY <1>1, <1>2, ConcatIs
  <2> QED BY <1>2, <2>1 DEF NamespacePrefix
<1>4. Creds # Meta
  <2>1. Creds[1] = "creds" /\ Meta[1] = "meta"
    BY DEF Creds, Meta
  <2> QED BY <2>1
<1>5. \A v \in Seq(Char) : v \o <<>> = v
  BY ConcatEmptySeq
<1> QED BY <1>1, <1>2, <1>3, <1>4, <1>5 DEF Text

\* A full key is the namespace's prefix, the id, ":" and the encoded key.
LEMMA FullIs ==
  ASSUME NEW id \in Word, NEW e \in Text
  PROVE  /\ SessionPrefix(id) \in Text /\ SessionPrefix(id) \o e \in Text
         /\ SessionPrefix(id) \o e = NamespacePrefix \o ((id \o <<":">>) \o e)
         /\ After(SessionPrefix(id) \o e, Len(NamespacePrefix)) = (id \o <<":">>) \o e
<1> DEFINE N == NamespacePrefix
           c == <<":">>
<1>1. N \in Seq(Char) /\ c \in Seq(Char) /\ id \in Seq(Char) /\ e \in Seq(Char)
  BY LayoutIs DEF Text, Word
<1>0. SessionPrefix(id) = (N \o id) \o c
  BY DEF SessionPrefix
<1> HIDE DEF N, c
<1>2. id \o c \in Seq(Char) /\ N \o id \in Seq(Char) /\ (id \o c) \o e \in Seq(Char)
  BY <1>1, ConcatProperties
<1>3. (N \o id) \o c = N \o (id \o c)
  BY <1>1, ConcatAssociative
<1>4. (N \o (id \o c)) \o e = N \o ((id \o c) \o e)
  <2> DEFINE d == id \o c
  <2>1. d \in Seq(Char)
    BY <1>2
  <2> HIDE DEF d
  <2>2. (N \o d) \o e = N \o (d \o e)
    BY <1>1, <2>1, ConcatAssociative
  <2> QED BY <2>2 DEF d
<1>5. N \o (id \o c) \in Seq(Char) /\ N \o ((id \o c) \o e) \in Seq(Char)
  BY <1>1, <1>2, ConcatProperties
<1>6. After(N \o ((id \o c) \o e), Len(N)) = (id \o c) \o e
  BY <1>1, <1>2, JoinedIs
<1> QED BY <1>0, <1>3, <1>4, <1>5, <1>6 DEF Text, N, c

\* Taking it apart again.
LEMMA SplitIs ==
  ASSUME NEW id \in Word, NEW e \in Text
  PROVE  Split(SessionPrefix(id) \o e) = [id |-> id, tail |-> e]
<1> DEFINE rest == (id \o <<":">>) \o e
<1>1. After(SessionPrefix(id) \o e, Len(NamespacePrefix)) = rest
  BY FullIs
<1>2. Colon(rest) = Len(id) + 1 /\ SubSeq(rest, 1, Len(id)) = id /\ After(rest, Len(id) + 1) = e
  BY ColonIs
<1>3. Len(id) + 1 - 1 = Len(id)
  BY DEF Word, Text
<1> HIDE DEF rest
<1>4. SubSeq(rest, 1, Colon(rest) - 1) = id /\ After(rest, Colon(rest)) = e
  BY <1>2, <1>3
<1> QED BY <1>1, <1>4 DEF Split

LEMMA PrefixOfOne ==
  ASSUME NEW x \in Word
  PROVE  /\ \A f \in Text : IsPrefix(SessionPrefix(x), f) => Split(f).id = x
         /\ \A y \in Word : \A e \in Text : IsPrefix(SessionPrefix(x), SessionPrefix(y) \o e) <=> x = y
         /\ \A y \in Word : IsPrefix(SessionPrefix(x), SessionPrefix(y)) <=> x = y
         /\ \A y \in Word : \A e \in Text : IsPrefix(NamespacePrefix, SessionPrefix(y) \o e)
         /\ \A y \in Word : IsPrefix(NamespacePrefix, SessionPrefix(y))
         /\ ~IsPrefix(SessionPrefix(x), NamespacePrefix)
<1>1. ASSUME NEW f \in Text, IsPrefix(SessionPrefix(x), f) PROVE Split(f).id = x
  <2>1. SessionPrefix(x) \in Text
    BY FullIs, LayoutIs
  <2>2. PICK e \in Text : f = SessionPrefix(x) \o e
    BY <1>1, <2>1, PrefixIs
  <2> QED BY <2>2, SplitIs
<1>2. ASSUME NEW y \in Word, NEW e \in Text
      PROVE  /\ IsPrefix(SessionPrefix(x), SessionPrefix(y) \o e) <=> x = y
             /\ IsPrefix(NamespacePrefix, SessionPrefix(y) \o e)
  <2>1. /\ SessionPrefix(x) \in Text /\ SessionPrefix(y) \o e \in Text
        /\ SessionPrefix(y) \o e = NamespacePrefix \o ((y \o <<":">>) \o e)
    BY FullIs, LayoutIs
  <2>2. Split(SessionPrefix(y) \o e).id = y
    BY SplitIs
  <2>3. IsPrefix(SessionPrefix(x), SessionPrefix(y) \o e) => x = y
    BY <1>1, <2>1, <2>2
  <2>4. x = y => IsPrefix(SessionPrefix(x), SessionPrefix(y) \o e)
    BY <2>1, PrefixIs
  <2>5. (y \o <<":">>) \o e \in Text
    BY ColonIs
  <2>6. IsPrefix(NamespacePrefix, SessionPrefix(y) \o e)
    BY <2>1, <2>5, LayoutIs, PrefixIs
  <2> QED BY <2>3, <2>4, <2>6
<1>3. ASSUME NEW y \in Word
      PROVE  /\ IsPrefix(SessionPrefix(x), SessionPrefix(y)) <=> x = y
             /\ IsPrefix(NamespacePrefix, SessionPrefix(y))
  <2>1. <<>> \in Text /\ SessionPrefix(y) \in Text
    BY FullIs, LayoutIs
  <2>2. SessionPrefix(y) \o <<>> = SessionPrefix(y)
    BY <2>1, LayoutIs
  <2> QED BY <1>2, <2>1, <2>2
<1>4. ASSUME IsPrefix(SessionPrefix(x), NamespacePrefix) PROVE FALSE
  <2>1. /\ <<":">> \in Seq(Char) /\ NamespacePrefix \in Seq(Char) /\ x \in Seq(Char)
        /\ Len(NamespacePrefix) = 2 /\ Len(<<":">>) = 1
    BY LayoutIs DEF Text, Word
  <2>2. NamespacePrefix \o x \in Seq(Char) /\ Len(NamespacePrefix \o x) = 2 + Len(x) /\ Len(x) \in Nat
    <3>1. NamespacePrefix \in Seq(Char) /\ x \in Seq(Char)
      BY <2>1
    <3>2. /\ NamespacePrefix \o x \in Seq(Char) /\ Len(x) \in Nat
          /\ Len(NamespacePrefix \o x) = Len(NamespacePrefix) + Len(x)
      BY <3>1, ConcatIs
    <3> QED BY <2>1, <3>2
  <2>3. Len(SessionPrefix(x)) = (2 + Len(x)) + 1
    BY <2>1, <2>2, ConcatIs DEF SessionPrefix
  <2>4. Len(SessionPrefix(x)) <= 2
    BY <1>4, <2>1 DEF IsPrefix
  <2> QED BY <2>2, <2>3, <2>4
<1> QED BY <1>1, <1>2, <1>3, <1>4

\* The key comes back, from the full key and from the name of its file.
LEMMA KeyIs ==
  ASSUME NEW key \in Text
  PROVE  /\ EncodeKey(key) \in Text /\ Decoded(EncodeKey(key)) = key
         /\ KeyOfFile(FileName(key)) = key
<1>1. EncodeKey(key) \in Text /\ Decoded(EncodeKey(key)) = key
  <2>1. {"%", ":", "/"} \in SUBSET DOMAIN Hex /\ "%" \in {"%", ":", "/"}
    BY HexIs
  <2> QED BY <2>1, EncodedIn, RoundTrip DEF EncodeKey
<1> DEFINE stem == Encoded(key, DOMAIN Hex)
<1>2. stem \in Text /\ Decoded(stem) = key
  <2>1. DOMAIN Hex \in SUBSET DOMAIN Hex /\ "%" \in DOMAIN Hex
    BY HexIs
  <2> QED BY <2>1, EncodedIn, RoundTrip
<1>3. key = <<>> => Len(stem) = 0
  <2> SUFFICES ASSUME key = <<>> PROVE Len(stem) = 0
    OBVIOUS
  <2>1. DOMAIN Hex \in SUBSET DOMAIN Hex
    OBVIOUS
  <2>2. Len(PieceList(key, DOMAIN Hex)) = 0 /\ stem = FlattenSeq(PieceList(key, DOMAIN Hex))
    BY <2>1, PieceListIs
  <2> HIDE DEF stem
  <2> QED BY <2>2 DEF FlattenSeq
<1> HIDE DEF stem
<1>4. FileName(key) = IF Len(stem) <= MaxName THEN [stem |-> stem, digest |-> <<>>]
                      ELSE [stem |-> <<>>, digest |-> key]
  BY DEF FileName, stem
<1>5. ASSUME NEW a, NEW d
      PROVE  LET file == [stem |-> a, digest |-> d]
             IN KeyOfFile(file) = IF d = <<>> THEN Decoded(a) ELSE d
  <2>1. [stem |-> a, digest |-> d].stem = a /\ [stem |-> a, digest |-> d].digest = d
    OBVIOUS
  <2> QED BY <2>1 DEF KeyOfFile
<1>6. CASE Len(stem) <= MaxName
  <2>1. FileName(key) = [stem |-> stem, digest |-> <<>>]
    BY <1>4, <1>6
  <2> QED BY <1>1, <1>2, <1>5, <2>1
<1>7. CASE ~(Len(stem) <= MaxName)
  <2>1. key # <<>>
    BY <1>3, <1>7, MaxNameAssumption
  <2>2. FileName(key) = [stem |-> <<>>, digest |-> key]
    BY <1>4, <1>7
  <2> QED BY <1>1, <1>5, <2>1, <2>2
<1> QED BY <1>1, <1>6, <1>7

\* What the adapters make of a full key of the program's.
LEMMA KeptIs ==
  ASSUME NEW id \in Word, NEW key \in Text, NEW full, full = StorageKey(id, key)
  PROVE  /\ full \in Text /\ Split(full).id = id
         /\ Split(full) = [id |-> id, tail |-> EncodeKey(key)]
         /\ ParseStorageKey(full) = [id |-> id, key |-> key]
         /\ \A b : Reported(b, full) = full
         /\ \A b : \A x \in Word : Selects(b, SessionPrefix(x), full) <=> x = id
         /\ \A b : Selects(b, NamespacePrefix, full)
<1> DEFINE e == EncodeKey(key)
<1>1. e \in Text /\ Decoded(e) = key /\ KeyOfFile(FileName(key)) = key
  BY KeyIs
<1>2. full = SessionPrefix(id) \o e
  BY DEF StorageKey
<1> HIDE DEF e
<1>3. full \in Text
  BY <1>1, <1>2, FullIs
<1>4. Split(full) = [id |-> id, tail |-> e]
  BY <1>1, <1>2, SplitIs
<1>5. Split(full).id = id /\ Split(full).tail = e
  BY <1>4
<1>6. ParseStorageKey(full) = [id |-> id, key |-> key]
  BY <1>1, <1>5 DEF ParseStorageKey
<1>7. ParseStorageKey(full).id = id /\ ParseStorageKey(full).key = key
  BY <1>6
<1>8. Place("file", full) = [dir |-> id, file |-> FileName(key)]
  BY <1>7 DEF Place
<1>9. Place("file", full).dir = id /\ KeyOfFile(Place("file", full).file) = key
  BY <1>1, <1>8
<1>10. ASSUME NEW b PROVE Reported(b, full) = full
  <2>1. CASE b = "file"
    <3>1. Reported(b, full) = StorageKey(Place("file", full).dir, KeyOfFile(Place("file", full).file))
      BY <2>1 DEF Reported
    <3> QED BY <1>9, <3>1
  <2>2. CASE b = "sql"
    <3>1. Reported(b, full) = SessionPrefix(Split(full).id) \o Split(full).tail
      BY <2>2 DEF Reported
    <3> QED BY <1>2, <1>5, <3>1
  <2>3. CASE b # "file" /\ b # "sql"
    BY <2>3 DEF Reported
  <2> QED BY <2>1, <2>2, <2>3
<1>11. ASSUME NEW b, NEW x \in Word PROVE Selects(b, SessionPrefix(x), full) <=> x = id
  <2>0. IsPrefix(SessionPrefix(x), full) <=> x = id
    BY <1>1, <1>2, PrefixOfOne
  <2>1. CASE b = "file"
    <3>1. Selects(b, SessionPrefix(x), full) = InDirectory(Place("file", full), SessionPrefix(x))
      BY <2>1 DEF Selects
    <3>2. InDirectory(Place("file", full), SessionPrefix(x)) <=>
            \/ IsPrefix(SessionPrefix(x), SessionPrefix(id))
            \/ /\ IsPrefix(SessionPrefix(id), SessionPrefix(x))
               /\ IsPrefix(SessionPrefix(x), SessionPrefix(id) \o EncodeKey(key))
      BY <1>9 DEF InDirectory
    <3> QED BY <3>1, <3>2, PrefixOfOne
  <2>2. CASE b = "sql"
    <3> DEFINE rest == After(SessionPrefix(x), Len(NamespacePrefix))
    <3>1. Selects(b, SessionPrefix(x), full) = InScope(Split(full), SessionPrefix(x))
      BY <2>2 DEF Selects
    <3>2. <<>> \in Text /\ SessionPrefix(x) \o <<>> = SessionPrefix(x)
      BY LayoutIs, FullIs
    <3>3. rest = (x \o <<":">>) \o <<>>
      BY <3>2, FullIs
    <3>4. Colon(rest) = Len(x) + 1 /\ SubSeq(rest, 1, Len(x)) = x /\ After(rest, Len(x) + 1) = <<>>
      BY <3>2, <3>3, ColonIs
    <3>5. Len(x) \in Nat
      BY DEF Word, Text
    <3> HIDE DEF rest
    <3>6. Colon(rest) # 0 /\ SubSeq(rest, 1, Colon(rest) - 1) = x /\ After(rest, Colon(rest)) = <<>>
      BY <3>4, <3>5
    <3>7. ~IsPrefix(SessionPrefix(x), NamespacePrefix) /\ IsPrefix(NamespacePrefix, SessionPrefix(x))
      BY PrefixOfOne
    <3>8. InScope(Split(full), SessionPrefix(x)) <=> id = x /\ IsPrefix(<<>>, e)
      BY <1>5, <3>6, <3>7 DEF InScope, rest
    <3>9. IsPrefix(<<>>, e)
      <4>1. e = <<>> \o e
        BY <1>1, ConcatEmptySeq DEF Text
      <4> QED BY <1>1, <3>2, <4>1, PrefixIs
    <3> QED BY <3>1, <3>8, <3>9
  <2>3. CASE b # "file" /\ b # "sql"
    BY <2>0, <2>3 DEF Selects
  <2> QED BY <2>1, <2>2, <2>3
<1>12. ASSUME NEW b PROVE Selects(b, NamespacePrefix, full)
  <2>1. CASE b = "file"
    <3>1. IsPrefix(NamespacePrefix, SessionPrefix(Place("file", full).dir))
      BY <1>9, PrefixOfOne
    <3>2. Selects(b, NamespacePrefix, full) = InDirectory(Place("file", full), NamespacePrefix)
      BY <2>1 DEF Selects
    <3> QED BY <3>1, <3>2 DEF InDirectory
  <2>2. CASE b = "sql"
    <3>1. NamespacePrefix = NamespacePrefix \o <<>> /\ <<>> \in Text /\ NamespacePrefix \in Text
      BY LayoutIs
    <3>2. IsPrefix(NamespacePrefix, NamespacePrefix)
      BY <3>1, PrefixIs
    <3> QED BY <2>2, <3>2 DEF Selects, InScope
  <2>3. CASE b # "file" /\ b # "sql"
    <3>1. IsPrefix(NamespacePrefix, full)
      BY <1>1, <1>2, PrefixOfOne
    <3> QED BY <2>3, <3>1 DEF Selects
  <2> QED BY <2>1, <2>2, <2>3
<1> QED BY <1>3, <1>5, <1>4, <1>6, <1>10, <1>11, <1>12 DEF e

\* No two keys of the program share a place.
LEMMA PlaceIs ==
  ASSUME NEW x \in Word, NEW j \in Text, NEW y \in Word, NEW k \in Text, NEW b,
         Place(b, StorageKey(x, j)) = Place(b, StorageKey(y, k))
  PROVE  x = y /\ j = k
<1> DEFINE f == StorageKey(x, j)
           g == StorageKey(y, k)
<1>1. /\ Split(f) = [id |-> x, tail |-> EncodeKey(j)] /\ ParseStorageKey(f) = [id |-> x, key |-> j]
      /\ Split(g) = [id |-> y, tail |-> EncodeKey(k)] /\ ParseStorageKey(g) = [id |-> y, key |-> k]
  BY KeptIs
<1>2. /\ Decoded(EncodeKey(j)) = j /\ KeyOfFile(FileName(j)) = j
      /\ Decoded(EncodeKey(k)) = k /\ KeyOfFile(FileName(k)) = k
  BY KeyIs
<1> HIDE DEF f, g
<1>3. Place(b, f) = Place(b, g)
  BY DEF f, g
<1>4. Split(f) = Split(g) => x = y /\ j = k
  <2> SUFFICES ASSUME Split(f) = Split(g) PROVE x = y /\ j = k
    OBVIOUS
  <2>0. \A a, d : [id |-> a, tail |-> d].id = a /\ [id |-> a, tail |-> d].tail = d
    OBVIOUS
  <2>1. Split(f).id = x /\ Split(g).id = y /\ Split(f).tail = EncodeKey(j) /\ Split(g).tail = EncodeKey(k)
    BY <1>1, <2>0
  <2>2. x = y /\ EncodeKey(j) = EncodeKey(k)
    BY <2>1
  <2> QED BY <1>2, <2>2
<1>5. CASE b = "file"
  <2>1. Place(b, f) = [dir |-> x, file |-> FileName(j)] /\ Place(b, g) = [dir |-> y, file |-> FileName(k)]
    BY <1>1, <1>5 DEF Place
  <2>2. /\ Place(b, f).dir = x /\ Place(b, g).dir = y
        /\ Place(b, f).file = FileName(j) /\ Place(b, g).file = FileName(k)
    BY <2>1
  <2>3. x = y /\ FileName(j) = FileName(k)
    BY <1>3, <2>2
  <2> QED BY <1>2, <2>3
<1>6. CASE b = "sql"
  BY <1>3, <1>4, <1>6 DEF Place
<1>7. CASE b # "file" /\ b # "sql"
  BY <1>3, <1>4, <1>7 DEF Place
<1> QED BY <1>5, <1>6, <1>7

-----------------------------------------------------------------------------
(* The session's names                                                       *)

LEMMA IdsAre == Session \in Word /\ Neighbour \in Word /\ Session # Neighbour
BY SessionAssumption DEF Word, Text

\* A Signal key's name is none of ours, and is recognised.
LEMMA NamesAre ==
  ASSUME NEW k \in Signal
  PROVE  Name[k] \in Text /\ Name[k] # Creds /\ Name[k] # Meta /\ IsSignalKey(Name[k])
<1>1. Name[k] \in Seq(Char)
  BY NameAssumption
<1>2. PICK t \in SignalType : IsStrictPrefix(Append(t, "-"), Name[k])
  BY NameAssumption
<1>3. Len(Append(t, "-")) \in Nat /\ Len(Append(t, "-")) >= 2
  <2>1. CASE t = <<"pre", "-", "key">>
    BY <2>1
  <2>2. CASE t = <<"session">>
    BY <2>2
  <2>3. CASE t = <<"sender", "-", "key">>
    BY <2>3
  <2> QED BY <2>1, <2>2, <2>3 DEF SignalType
<1>4. Len(Name[k]) >= 2
  <2>1. Len(Append(t, "-")) <= Len(Name[k]) /\ Len(Name[k]) \in Nat
    BY <1>1, <1>2 DEF IsStrictPrefix, IsPrefix
  <2> QED BY <1>3, <2>1
<1>5. Len(Creds) = 1 /\ Len(Meta) = 1
  BY DEF Creds, Meta
<1>6. Name[k] # Creds /\ Name[k] # Meta
  <2> SUFFICES ASSUME Name[k] = Creds \/ Name[k] = Meta PROVE FALSE
    OBVIOUS
  <2>1. Len(Name[k]) = 1
    BY <1>5
  <2> QED BY <1>4, <2>1
<1> QED BY <1>1, <1>2, <1>6 DEF Text, IsSignalKey

\* The keys whose full keys the program makes, from an id and a name.
Named == Key \cup {"neighbour"}
IdOf(k) == IF k = "neighbour" THEN Neighbour ELSE Session
NameOf(k) == IF k \in {"creds", "neighbour"} THEN Creds ELSE IF k = "meta" THEN Meta ELSE Name[k]

LEMMA FullOf ==
  ASSUME NEW k \in Named
  PROVE  Full(k) = StorageKey(IdOf(k), NameOf(k)) /\ IdOf(k) \in Word /\ NameOf(k) \in Text
<1>1. k \in Signal => k \notin {"creds", "meta", "neighbour", "lock"}
  BY SignalAssumption
<1>2. k \in Signal \/ k \in {"creds", "meta", "neighbour"}
  BY DEF Named, Key
<1>3. CASE k \in Signal
  BY <1>1, <1>3, IdsAre, NamesAre DEF Full, IdOf, NameOf
<1>4. CASE k \in {"creds", "meta", "neighbour"}
  BY <1>4, IdsAre, LayoutIs DEF Full, IdOf, NameOf
<1> QED BY <1>2, <1>3, <1>4

\* Two of them that have the same id and the same name are the same.
LEMMA NamedApart ==
  ASSUME NEW j \in Named, NEW k \in Named, IdOf(j) = IdOf(k), NameOf(j) = NameOf(k)
  PROVE  j = k
<1>1. \A x \in Signal : x \notin {"creds", "meta", "neighbour", "lock"}
  BY SignalAssumption
<1>2. \A x \in Named : x \in Signal \/ x \in {"creds", "meta", "neighbour"}
  BY DEF Named, Key
<1>3. j = "neighbour" <=> k = "neighbour"
  BY IdsAre DEF IdOf
<1>4. CASE j \in Signal /\ k \in Signal
  <2>1. Name[j] = Name[k]
    BY <1>1, <1>4 DEF NameOf
  <2> QED BY <1>4, <2>1, NameAssumption
<1>5. \A x \in Signal, y \in {"creds", "meta", "neighbour"} : NameOf(x) # NameOf(y)
  BY <1>1, NamesAre DEF NameOf
<1>6. CASE j \in {"creds", "meta", "neighbour"} /\ k \in {"creds", "meta", "neighbour"}
  BY <1>3, <1>6, LayoutIs DEF NameOf
<1> QED BY <1>2, <1>4, <1>5, <1>6

LEMMA LockIs ==
  /\ Full("lock") \in Text
  /\ "redis" \in Backend => ~IsPrefix(SessionPrefix(Session), Full("lock"))
<1>1. "lock" \notin Signal /\ Full("lock") = LockPrefix \o LockKey(Session)
  BY SignalAssumption DEF Full
<1>2. Session \in Seq(Char) /\ LockPrefix \in Seq(Char)
  BY SessionAssumption, LockAssumption
<1>3. <<"session", ":">> \in Seq(Char)
  BY CharAssumption
<1>4. LockKey(Session) \in Seq(Char)
  BY <1>2, <1>3, ConcatProperties DEF LockKey
<1>5. LockPrefix \o LockKey(Session) \in Seq(Char)
  BY <1>2, <1>4, ConcatProperties
<1> QED BY <1>1, <1>5, LockAssumption DEF Text

LEMMA HoldsIs ==
  ASSUME NEW b \in Backend
  PROVE  /\ Holds(b) \subseteq Named \cup {"lock"} /\ Named \subseteq Holds(b)
         /\ "lock" \in Holds(b) => b = "redis"
         /\ "lock" \notin Named /\ Key \subseteq Named /\ "neighbour" \notin Key
BY SignalAssumption DEF Holds, Named, Resident, Key

\* The session's prefix finds its keys and no others, none of them is taken for
\* one of another kind, and each has a place of its own, for every adapter.
THEOREM NamesTold == ASSUME NEW b \in Backend PROVE WellNamed(Naming(b))
<1> DEFINE scope == {k \in Holds(b) : Selects(b, SessionPrefix(Session), Full(k))}
<1>1. ASSUME NEW k \in Named
      PROVE  /\ Selects(b, SessionPrefix(Session), Full(k)) <=> k # "neighbour"
             /\ Reported(b, Full(k)) = Full(k) /\ ReadBack(b, k).key = NameOf(k)
  <2>1. Full(k) = StorageKey(IdOf(k), NameOf(k)) /\ IdOf(k) \in Word /\ NameOf(k) \in Text
    BY FullOf
  <2>2. /\ Selects(b, SessionPrefix(Session), Full(k)) <=> Session = IdOf(k)
        /\ Reported(b, Full(k)) = Full(k)
        /\ ParseStorageKey(Full(k)) = [id |-> IdOf(k), key |-> NameOf(k)]
    BY <2>1, KeptIs, IdsAre
  <2>3. ReadBack(b, k).key = NameOf(k)
    BY <2>2 DEF ReadBack
  <2>4. Session = IdOf(k) <=> k # "neighbour"
    BY IdsAre DEF IdOf
  <2> QED BY <2>2, <2>3, <2>4
<1>2. ASSUME "lock" \in Holds(b) PROVE ~Selects(b, SessionPrefix(Session), Full("lock"))
  <2>1. b = "redis"
    BY <1>2, HoldsIs
  <2>2. ~IsPrefix(SessionPrefix(Session), Full("lock"))
    BY <2>1, LockIs
  <2> QED BY <2>1, <2>2 DEF Selects
<1>3. scope = Key
  <2>1. \A k \in Holds(b) : k \in Named \/ k = "lock"
    BY HoldsIs
  <2>2. \A k \in Key : k \in Named /\ k \in Holds(b) /\ k # "neighbour"
    BY HoldsIs
  <2>3. \A k \in Named : k # "neighbour" => k \in Key
    BY DEF Named
  <2> QED BY <1>1, <1>2, <2>1, <2>2, <2>3
<1>4. {k \in scope : IsSignalKey(ReadBack(b, k).key)} = Signal
  <2> HIDE DEF scope
  <2>1. ASSUME NEW k \in Key PROVE IsSignalKey(ReadBack(b, k).key) <=> k \in Signal
    <3>1. ReadBack(b, k).key = NameOf(k)
      BY <1>1, HoldsIs
    <3>2. CASE k \in Signal
      <4>1. NameOf(k) = Name[k]
        BY <3>2, SignalAssumption DEF NameOf
      <4> QED BY <3>1, <3>2, <4>1, NamesAre
    <3>3. CASE k \notin Signal
      <4>1. NameOf(k) \in {Creds, Meta}
        BY <3>3 DEF Key, NameOf
      <4> QED BY <3>1, <3>3, <4>1 DEF IsSignalKey
    <3> QED BY <3>2, <3>3
  <2>2. Signal \subseteq Key
    BY DEF Key
  <2> QED BY <1>3, <2>1, <2>2
<1>5. ASSUME NEW k \in Key
      PROVE  {j \in Holds(b) : Place(b, Full(j)) = Place(b, Reported(b, Full(k)))} = {k}
  <2>0. k \in Named /\ k \in Holds(b) /\ Reported(b, Full(k)) = Full(k)
    BY <1>1, HoldsIs
  <2>1. ASSUME NEW j \in Named, Place(b, Full(j)) = Place(b, Full(k)) PROVE j = k
    <3>1. /\ Full(j) = StorageKey(IdOf(j), NameOf(j)) /\ IdOf(j) \in Word /\ NameOf(j) \in Text
          /\ Full(k) = StorageKey(IdOf(k), NameOf(k)) /\ IdOf(k) \in Word /\ NameOf(k) \in Text
      BY <2>0, FullOf
    <3>2. IdOf(j) = IdOf(k) /\ NameOf(j) = NameOf(k)
      BY <2>1, <3>1, PlaceIs
    <3> QED BY <2>0, <3>2, NamedApart
  <2>2. ASSUME "lock" \in Holds(b) PROVE Place(b, Full("lock")) # Place(b, Full(k))
    <3>1. b = "redis"
      BY <2>2, HoldsIs
    <3>2. Place(b, Full("lock")) = Full("lock") /\ Place(b, Full(k)) = Full(k)
      BY <3>1 DEF Place
    <3>3. Selects(b, SessionPrefix(Session), Full(k))
      BY <1>1, <2>0, HoldsIs
    <3> QED BY <1>2, <2>2, <3>2, <3>3
  <2>3. \A j \in Holds(b) : j \in Named \/ j = "lock"
    BY HoldsIs
  <2> QED BY <2>0, <2>1, <2>2, <2>3
<1>6. Naming(b).scope = scope /\ Naming(b).signal = {k \in scope : IsSignalKey(ReadBack(b, k).key)}
  BY DEF Naming
<1>7. Naming(b).place = [k \in Key |-> {j \in Holds(b) : Place(b, Full(j)) = Place(b, Reported(b, Full(k)))}]
  BY DEF Naming
<1> HIDE DEF scope
<1> QED BY <1>3, <1>4, <1>5, <1>6, <1>7 DEF WellNamed

\* The namespace's prefix finds the sessions' keys, and knows whose they are.
LEMMA OwnersAre ==
  ASSUME NEW b \in Backend, b = "redis" => ~IsPrefix(NamespacePrefix, Full("lock"))
  PROVE  Naming(b).owner = {<<k, IdOf(k)>> : k \in Named}
<1>1. ASSUME NEW k \in Named
      PROVE  Selects(b, NamespacePrefix, Full(k)) /\ ReadBack(b, k).id = IdOf(k)
  <2>1. Full(k) = StorageKey(IdOf(k), NameOf(k)) /\ IdOf(k) \in Word /\ NameOf(k) \in Text
    BY FullOf
  <2>2. /\ Selects(b, NamespacePrefix, Full(k)) /\ Reported(b, Full(k)) = Full(k)
        /\ ParseStorageKey(Full(k)) = [id |-> IdOf(k), key |-> NameOf(k)]
    BY <2>1, KeptIs
  <2> QED BY <2>2 DEF ReadBack
<1>2. ASSUME "lock" \in Holds(b) PROVE ~Selects(b, NamespacePrefix, Full("lock"))
  <2>1. b = "redis"
    BY <1>2, HoldsIs
  <2> QED BY <2>1 DEF Selects
<1>3. {j \in Holds(b) : Selects(b, NamespacePrefix, Full(j))} = Named
  BY <1>1, <1>2, HoldsIs
<1>4. Naming(b).owner = {<<k, ReadBack(b, k).id>> : k \in {j \in Holds(b) : Selects(b, NamespacePrefix, Full(j))}}
  BY DEF Naming
<1>5. Naming(b).owner = {<<k, ReadBack(b, k).id>> : k \in Named}
  BY <1>3, <1>4
<1> QED BY <1>1, <1>5

-----------------------------------------------------------------------------
(* The records of the calls                                                  *)

Ops == {"none", "save", "register", "set", "forget", "wipe", "purge"}
Phases == {"none", "write", "list", "delete", "clear", "cleared"}
Stages == {"todo", "dir", "open", "rename"}
ToDo == UNION {[ks -> Stages] : ks \in SUBSET Key}
CallRecord == [op : Ops, phase : Phases, ver : Nat, puts : SUBSET Key, drops : SUBSET Key,
               st : ToDo, told : {"none", "failed"}, raced : SUBSET Key]

\* What each call puts and drops, and how far it may be.
Shape(r) ==
  \/ r = Idle
  \/ r.op = "save" /\ r.phase = "write" /\ r.puts = {"creds"} /\ r.drops = {}
  \/ r.op = "register" /\ r.phase = "write" /\ r.puts = {"meta"} /\ r.drops = {}
  \/ /\ r.op = "set" /\ r.phase \in {"write", "delete"} /\ r.puts \cap r.drops = {}
     /\ r.phase = "write" => r.puts # {}
     /\ r.puts \subseteq Signal /\ r.drops \subseteq Signal
  \/ r.op = "forget" /\ r.phase = "delete" /\ r.puts = {} /\ r.drops = {"meta"}
  \/ r.op = "wipe" /\ r.phase \in {"list", "delete"} /\ r.puts = {} /\ r.drops = {}
  \/ r.op = "purge" /\ r.phase \in {"list", "clear", "cleared"} /\ r.puts = {}

\* What is left to do is to put what the call puts, or to drop what it drops.
Left(r) ==
  /\ r.phase = "write" => DOMAIN r.st \subseteq r.puts /\ r.ver \in 2..next
  /\ r.phase = "delete" => DOMAIN r.st \subseteq IF r.op = "wipe" THEN Signal ELSE r.drops

CallsOK ==
  /\ call \in [Lane -> CallRecord]
  /\ \A c \in Lane : Shape(call[c]) /\ Left(call[c])

DataOK ==
  /\ backend \in Backend /\ WellNamed(naming)
  /\ disk \in [Resident -> 0..MaxVersion]
  /\ dir \in BOOLEAN /\ temps \subseteq Lane \X Key
  /\ auth \in BOOLEAN /\ next \in 1..MaxVersion /\ acked \in 0..next /\ wiped \in BOOLEAN

Typed == CallsOK /\ DataOK

LEMMA ToDoIs ==
  ASSUME NEW s
  PROVE  /\ s \in ToDo <=> DOMAIN s \in SUBSET Key /\ s \in [DOMAIN s -> Stages]
         /\ s \in ToDo /\ DOMAIN s = {} => s = None
         /\ None \in ToDo /\ DOMAIN None = {}
<1>1. ASSUME s \in ToDo PROVE DOMAIN s \in SUBSET Key /\ s \in [DOMAIN s -> Stages]
  BY <1>1 DEF ToDo
<1>2. ASSUME DOMAIN s \in SUBSET Key, s \in [DOMAIN s -> Stages] PROVE s \in ToDo
  BY <1>2 DEF ToDo
<1>3. ASSUME s \in ToDo, DOMAIN s = {} PROVE s = None
  BY <1>1, <1>3 DEF None
<1>4. DOMAIN None = {} /\ None \in [{} -> Stages]
  BY DEF None
<1>5. None \in ToDo
  BY <1>4 DEF ToDo
<1> QED BY <1>1, <1>2, <1>3, <1>4, <1>5

LEMMA TodoIs ==
  ASSUME NEW ks \in SUBSET Key
  PROVE  /\ Todo(ks) \in ToDo /\ DOMAIN Todo(ks) = ks
         /\ Parts(ks) \in ToDo /\ DOMAIN Parts(ks) = ks
<1>1. Todo(ks) \in [ks -> Stages] /\ Parts(ks) \in [ks -> Stages]
  BY DEF Todo, Parts, Stages
<1> QED BY <1>1 DEF ToDo

LEMMA IdleIs ==
  /\ Idle \in CallRecord
  /\ Idle.op = "none" /\ Idle.phase = "none" /\ Idle.ver = 0 /\ Idle.puts = {} /\ Idle.drops = {}
  /\ Idle.st = None /\ Idle.told = "none" /\ Idle.raced = {}
BY ToDoIs DEF Idle, CallRecord, Ops, Phases

\* A record with some of its fields replaced.
Rec(op, ph, v, ps, ds, s, t, rs) ==
  [op |-> op, phase |-> ph, ver |-> v, puts |-> ps, drops |-> ds, st |-> s, told |-> t, raced |-> rs]

LEMMA RecIs ==
  ASSUME NEW op \in Ops, NEW ph \in Phases, NEW v \in Nat, NEW ps \in SUBSET Key,
         NEW ds \in SUBSET Key, NEW s \in ToDo, NEW t \in {"none", "failed"}, NEW rs \in SUBSET Key
  PROVE  Rec(op, ph, v, ps, ds, s, t, rs) \in CallRecord
BY DEF Rec, CallRecord

LEMMA RecFields ==
  ASSUME NEW op, NEW ph, NEW v, NEW ps, NEW ds, NEW s, NEW t, NEW rs
  PROVE  LET r == Rec(op, ph, v, ps, ds, s, t, rs)
         IN /\ r.op = op /\ r.phase = ph /\ r.ver = v /\ r.puts = ps /\ r.drops = ds
            /\ r.st = s /\ r.told = t /\ r.raced = rs
BY DEF Rec

LEMMA Fields ==
  ASSUME NEW r \in CallRecord
  PROVE  /\ r.op \in Ops /\ r.phase \in Phases /\ r.ver \in Nat /\ r.puts \in SUBSET Key
         /\ r.drops \in SUBSET Key /\ r.st \in ToDo /\ r.told \in {"none", "failed"}
         /\ r.raced \in SUBSET Key
         /\ r = Rec(r.op, r.phase, r.ver, r.puts, r.drops, r.st, r.told, r.raced)
BY DEF CallRecord, Rec

\* The replacements that the steps make, one field at a time and together.
LEMMA OneReplaced ==
  ASSUME NEW op, NEW ph, NEW v, NEW ps, NEW ds, NEW s, NEW t, NEW rs,
         NEW ph2, NEW ds2, NEW s2, NEW t2, NEW rs2
  PROVE  LET r == Rec(op, ph, v, ps, ds, s, t, rs)
         IN /\ [r EXCEPT !.phase = ph2] = Rec(op, ph2, v, ps, ds, s, t, rs)
            /\ [r EXCEPT !.drops = ds2] = Rec(op, ph, v, ps, ds2, s, t, rs)
            /\ [r EXCEPT !.st = s2] = Rec(op, ph, v, ps, ds, s2, t, rs)
            /\ [r EXCEPT !.told = t2] = Rec(op, ph, v, ps, ds, s, t2, rs)
            /\ [r EXCEPT !.raced = rs2] = Rec(op, ph, v, ps, ds, s, t, rs2)
BY DEF Rec

LEMMA MoreReplaced ==
  ASSUME NEW r, NEW ph, NEW ds, NEW s, NEW t
  PROVE  /\ [r EXCEPT !.st = s, !.told = t] = [[r EXCEPT !.st = s] EXCEPT !.told = t]
         /\ [r EXCEPT !.phase = ph, !.st = s] = [[r EXCEPT !.phase = ph] EXCEPT !.st = s]
         /\ [r EXCEPT !.phase = ph, !.told = t] = [[r EXCEPT !.phase = ph] EXCEPT !.told = t]
         /\ [r EXCEPT !.phase = ph, !.drops = ds, !.st = s]
              = [[[r EXCEPT !.phase = ph] EXCEPT !.drops = ds] EXCEPT !.st = s]
OBVIOUS

LEMMA Replaced ==
  ASSUME NEW r \in CallRecord, NEW rs
  PROVE  [r EXCEPT !.raced = rs] = Rec(r.op, r.phase, r.ver, r.puts, r.drops, r.st, r.told, rs)
<1>1. r = Rec(r.op, r.phase, r.ver, r.puts, r.drops, r.st, r.told, r.raced)
  BY Fields
<1> QED BY <1>1, OneReplaced

LEMMA WithoutIs ==
  ASSUME CallsOK, NEW c \in Lane, NEW g
  PROVE  Without(c, g) \in ToDo /\ DOMAIN Without(c, g) = DOMAIN call[c].st \ g
<1>1. call[c].st \in ToDo
  BY Fields DEF CallsOK
<1>2. DOMAIN call[c].st \in SUBSET Key /\ call[c].st \in [DOMAIN call[c].st -> Stages]
  BY <1>1, ToDoIs
<1>3. Without(c, g) \in [DOMAIN call[c].st \ g -> Stages]
  BY <1>2 DEF Without
<1> QED BY <1>2, <1>3 DEF ToDo

-----------------------------------------------------------------------------
(* What a call does with the data and with itself                            *)

Same == UNCHANGED <<setting, auth, history>>
Op(c) == call[c].op
Phase(c) == call[c].phase
Undone(c) == DOMAIN call[c].st

\* The call goes on in phase ph, with s left to do.
Goes(c, ph, ds, s, t) ==
  Set(c, Rec(call[c].op, ph, call[c].ver, call[c].puts, ds, s, t, call[c].raced))

\* Parts of a write land, or of a drop.
Lands(c, g) ==
  /\ Phase(c) = "write" /\ g \subseteq Undone(c)
  /\ disk' = [k \in Resident |-> IF k \in g THEN call[c].ver ELSE disk[k]]
  /\ Goes(c, "write", call[c].drops, Without(c, g), call[c].told)
Drops(c, g) ==
  /\ Phase(c) \in {"delete", "clear"} /\ g \subseteq Undone(c)
  /\ disk' = [k \in Resident |-> IF k \in g THEN Absent ELSE disk[k]]
  /\ Goes(c, Phase(c), call[c].drops, Without(c, g), call[c].told)
Clears(c) ==
  /\ Op(c) = "purge" /\ Phase(c) = "list"
  /\ disk' = [k \in Resident |-> IF k \in Key THEN Absent ELSE disk[k]]
  /\ Goes(c, "cleared", call[c].drops, None, call[c].told)

\* A part is not done; or it takes more than a step.
Misses(c, k) ==
  /\ Phase(c) \in {"write", "delete"} /\ k \in Undone(c) /\ UNCHANGED disk
  /\ Goes(c, Phase(c), call[c].drops, Without(c, {k}), "failed")
Works(c) ==
  /\ Phase(c) = "write" /\ UNCHANGED disk
  /\ \E s \in ToDo : DOMAIN s = Undone(c) /\ Goes(c, "write", call[c].drops, s, call[c].told)

\* What is to be dropped is known.
Finds(c, seen) ==
  /\ Phase(c) = "list" /\ seen \subseteq Key /\ Present \cap Key \cap Undone(c) \subseteq seen
  /\ backend \notin {"redis", "mongo"} => Present \cap Key \subseteq seen
  /\ UNCHANGED disk
  /\ \/ /\ Op(c) = "purge"
        /\ Goes(c, "clear", call[c].drops, Todo(seen), call[c].told)
     \/ /\ Op(c) = "wipe"
        /\ Goes(c, "delete", call[c].drops, Todo(seen \cap Signal), call[c].told)

\* Everything is done: what is the last of a purge, or the deletes of a set.
Sweeps(c) ==
  /\ Op(c) = "purge" /\ Phase(c) = "clear" /\ UNCHANGED disk
  /\ \E t \in {"failed", call[c].told} : Goes(c, "cleared", call[c].drops, call[c].st, t)
Turns(c) ==
  /\ Op(c) = "set" /\ Phase(c) = "write" /\ call[c].st = None /\ call[c].told = "none"
  /\ UNCHANGED disk
  /\ Goes(c, "delete", call[c].drops, Todo(call[c].drops), call[c].told)

\* The call is over, or fails.
Returns(c) ==
  /\ Op(c) # "none" /\ Finished(c) /\ UNCHANGED <<setting, disk, next, wiped>>
  /\ Set(c, Idle)
  /\ \/ UNCHANGED acked
     \/ /\ Op(c) = "save" /\ call[c].told = "none" /\ call[c].raced = {} /\ call[c].ver > acked
        /\ acked' = call[c].ver
  /\ auth' = (auth /\ ~(Op(c) = "purge" /\ call[c].told = "none"))
Fails(c) == Op(c) # "none" /\ UNCHANGED disk /\ Set(c, Idle)

StepKinds(c) ==
  \/ Same /\ \/ \E g \in SUBSET Key : Lands(c, g) \/ Drops(c, g)
             \/ \E k \in Key : Misses(c, k)
             \/ \E seen \in SUBSET Key : Finds(c, seen)
             \/ Clears(c) \/ Works(c) \/ Sweeps(c) \/ Turns(c) \/ Fails(c)
  \/ Returns(c)

LEMMA PlacesAre == ASSUME WellNamed(naming), NEW g \in SUBSET Key PROVE Places(g) = g
BY DEF WellNamed, Places

LEMMA BatchIn == ASSUME NEW c \in Lane, NEW g \in Batch(c) PROVE g \subseteq Undone(c)
BY DEF Batch, Undone

LEMMA FoundIs == ASSUME WellNamed(naming) PROVE Found = Present \cap Key
BY DEF WellNamed, Found

\* What is left to do is known to be one of the session's keys.
LEMMA CallFacts ==
  ASSUME CallsOK, NEW c \in Lane
  PROVE  /\ call[c] \in CallRecord /\ Undone(c) \in SUBSET Key /\ call[c].st \in ToDo
         /\ call[c].drops \in SUBSET Key /\ call[c].puts \in SUBSET Key /\ call[c].raced \in SUBSET Key
         /\ call[c].told \in {"none", "failed"} /\ Op(c) \in Ops /\ Phase(c) \in Phases
         /\ call[c].ver \in Nat
         /\ call[c].st = None <=> Undone(c) = {}
         /\ Op(c) = "none" <=> call[c] = Idle
         /\ Phase(c) = "none" <=> call[c] = Idle
         /\ Op(c) = "purge" <=> Phase(c) \in {"clear", "cleared"} \/ (Phase(c) = "list" /\ Op(c) # "wipe")
<1>1. call[c] \in CallRecord /\ Shape(call[c])
  BY DEF CallsOK
<1>2. call[c].st \in ToDo
  BY <1>1, Fields
<1>3. Undone(c) \in SUBSET Key /\ (call[c].st = None <=> Undone(c) = {})
  BY <1>2, ToDoIs DEF Undone
<1> QED BY <1>1, <1>2, <1>3, Fields, IdleIs DEF Shape, Op, Phase

\* A step sets the call to a record with some fields replaced.
LEMMA GoesWith ==
  ASSUME CallsOK, NEW c \in Lane, NEW ph, NEW s, NEW t
  PROVE  /\ Set(c, [call[c] EXCEPT !.st = s]) => Goes(c, Phase(c), call[c].drops, s, call[c].told)
         /\ Set(c, [call[c] EXCEPT !.st = s, !.told = t]) => Goes(c, Phase(c), call[c].drops, s, t)
         /\ Set(c, [call[c] EXCEPT !.phase = ph, !.st = s]) => Goes(c, ph, call[c].drops, s, call[c].told)
         /\ Set(c, [call[c] EXCEPT !.phase = ph, !.told = t])
              => Goes(c, ph, call[c].drops, call[c].st, t)
<1>1. \E r \in CallRecord : r = call[c]
  BY DEF CallsOK
<1>2. PICK r \in CallRecord : r = call[c]
  BY <1>1
<1>3. r = Rec(r.op, r.phase, r.ver, r.puts, r.drops, r.st, r.told, r.raced)
  BY Fields
<1> DEFINE a == Rec(r.op, r.phase, r.ver, r.puts, r.drops, s, r.told, r.raced)
           b == Rec(r.op, ph, r.ver, r.puts, r.drops, r.st, r.told, r.raced)
<1>4. [r EXCEPT !.st = s] = a /\ [r EXCEPT !.phase = ph] = b
  BY <1>3, OneReplaced
<1>5. /\ [a EXCEPT !.told = t] = Rec(r.op, r.phase, r.ver, r.puts, r.drops, s, t, r.raced)
      /\ [b EXCEPT !.st = s] = Rec(r.op, ph, r.ver, r.puts, r.drops, s, r.told, r.raced)
      /\ [b EXCEPT !.told = t] = Rec(r.op, ph, r.ver, r.puts, r.drops, r.st, t, r.raced)
  BY OneReplaced
<1> HIDE DEF a, b
<1>6. /\ [r EXCEPT !.st = s, !.told = t] = [a EXCEPT !.told = t]
      /\ [r EXCEPT !.phase = ph, !.st = s] = [b EXCEPT !.st = s]
      /\ [r EXCEPT !.phase = ph, !.told = t] = [b EXCEPT !.told = t]
  BY <1>4, <1>5, MoreReplaced
<1> QED BY <1>2, <1>4, <1>5, <1>6 DEF Goes, Phase, a

LEMMA LandKind ==
  ASSUME Typed, NEW c \in Lane, NEW g \in Batch(c), Land(c, g)
  PROVE  Same /\ \E h \in SUBSET Key : Lands(c, h)
<1>1. Undone(c) \in SUBSET Key
  BY CallFacts DEF Typed
<1>2. g \subseteq Undone(c) /\ g \in SUBSET Key
  BY BatchIn, <1>1
<1>3. Places(g) = g
  BY <1>2, PlacesAre DEF Typed, DataOK
<1>4. Phase(c) = "write" /\ Set(c, [call[c] EXCEPT !.st = Without(c, g)])
  BY DEF Land, Phase
<1>5. Goes(c, "write", call[c].drops, Without(c, g), call[c].told)
  BY <1>4, GoesWith DEF Typed
<1>6. Lands(c, g)
  BY <1>2, <1>3, <1>4, <1>5 DEF Land, Lands
<1> QED BY <1>2, <1>6 DEF Land, Same

LEMMA DeleteKind ==
  ASSUME Typed, NEW c \in Lane, NEW g \in Batch(c), Delete(c, g)
  PROVE  Same /\ \E h \in SUBSET Key : Drops(c, h)
<1>1. Undone(c) \in SUBSET Key
  BY CallFacts DEF Typed
<1>2. g \subseteq Undone(c) /\ g \in SUBSET Key
  BY BatchIn, <1>1
<1>3. Places(g) = g
  BY <1>2, PlacesAre DEF Typed, DataOK
<1>4. Phase(c) \in {"delete", "clear"} /\ Set(c, [call[c] EXCEPT !.st = Without(c, g)])
  BY DEF Delete, Phase
<1>5. Goes(c, Phase(c), call[c].drops, Without(c, g), call[c].told)
  BY <1>4, GoesWith DEF Typed
<1>6. Drops(c, g)
  BY <1>2, <1>3, <1>4, <1>5 DEF Delete, Drops
<1> QED BY <1>2, <1>6 DEF Delete, Same

\* The parts of a file's write: its directory, its temporary file and the rename.
LEMMA FileKind ==
  ASSUME Typed, NEW c \in Lane, NEW k \in Key
  PROVE  /\ MakeDir(c, k) \/ OpenTemp(c, k) => Same /\ Works(c)
         /\ Rename(c, k) => Same /\ \E h \in SUBSET Key : Lands(c, h)
         /\ PartFails(c, k) => Same /\ Misses(c, k)
<1>1. call[c].st \in ToDo /\ CallsOK
  BY CallFacts DEF Typed
<1>2. ASSUME NEW from, NEW to \in Stages, Stage(c, k, from), GoOn(c, k, to), UNCHANGED disk
      PROVE  Works(c)
  <2> DEFINE s == [call[c].st EXCEPT ![k] = to]
  <2>1. call[c].st \in [Undone(c) -> Stages] /\ Undone(c) \in SUBSET Key
    BY <1>1, ToDoIs DEF Undone
  <2>2. DOMAIN s = Undone(c) /\ s \in [Undone(c) -> Stages]
    BY <2>1
  <2>3. s \in ToDo
    BY <2>1, <2>2 DEF ToDo
  <2>4. Phase(c) = "write" /\ Set(c, [call[c] EXCEPT !.st = s])
    BY <1>2 DEF Stage, GoOn, Phase
  <2>5. Goes(c, "write", call[c].drops, s, call[c].told)
    <3> HIDE DEF s
    <3> QED BY <2>4, <1>1, GoesWith
  <2> HIDE DEF s
  <2> QED BY <2>2, <2>3, <2>4, <2>5, <1>2 DEF Works
<1>3. MakeDir(c, k) \/ OpenTemp(c, k) => Same /\ Works(c)
  BY <1>2 DEF MakeDir, OpenTemp, Begun, Same, Stages
<1>4. ASSUME Rename(c, k) PROVE Same /\ \E h \in SUBSET Key : Lands(c, h)
  <2>1. Phase(c) = "write" /\ {k} \subseteq Undone(c) /\ {k} \in SUBSET Key
    BY <1>4 DEF Rename, Stage, Phase, Undone
  <2>2. Places({k}) = {k}
    BY PlacesAre DEF Typed, DataOK
  <2>3. Goes(c, "write", call[c].drops, Without(c, {k}), call[c].told)
    BY <1>4, <2>1, <1>1, GoesWith DEF Rename
  <2>4. Lands(c, {k})
    BY <1>4, <2>1, <2>2, <2>3 DEF Rename, Lands
  <2> QED BY <1>4, <2>1, <2>4 DEF Rename, Same
<1>5. ASSUME PartFails(c, k) PROVE Same /\ Misses(c, k)
  <2>1. Goes(c, Phase(c), call[c].drops, Without(c, {k}), "failed")
    BY <1>5, <1>1, GoesWith DEF PartFails
  <2> QED BY <1>5, <2>1 DEF PartFails, Misses, Same, Phase, Undone
<1> QED BY <1>3, <1>4, <1>5

LEMMA ListKind ==
  ASSUME Typed, NEW c \in Lane, List(c)
  PROVE  Same /\ \E seen \in SUBSET Key : Finds(c, seen)
<1> DEFINE later == IF call[c].op = "purge" THEN "clear" ELSE "delete"
<1>1. PICK seen \in SUBSET (Found \cup DOMAIN call[c].st) :
        /\ Listed(c, seen)
        /\ Set(c, [call[c] EXCEPT !.phase = later, !.st = Todo(Doomed(c, seen))])
  BY DEF List
<1>2. Goes(c, later, call[c].drops, Todo(Doomed(c, seen)), call[c].told)
  <2> HIDE DEF later
  <2> QED BY <1>1, GoesWith DEF Typed
<1>3. Found = Present \cap Key /\ Undone(c) \in SUBSET Key
  BY FoundIs, CallFacts DEF Typed, DataOK
<1>4. /\ seen \in SUBSET Key /\ Present \cap Key \cap Undone(c) \subseteq seen
      /\ backend \notin {"redis", "mongo"} => Present \cap Key \subseteq seen
  BY <1>1, <1>3 DEF Listed, Undone
<1>5. Phase(c) = "list" /\ Op(c) \in {"purge", "wipe"}
  BY DEF List, Phase, Typed, CallsOK, Shape, Idle, Op
<1>6. Doomed(c, seen) = IF Op(c) = "wipe" THEN seen \cap Signal ELSE seen
  BY DEF Doomed, Op, Typed, DataOK, WellNamed
<1>7. UNCHANGED disk
  BY DEF List, files
<1>8. ASSUME Op(c) = "purge" PROVE Finds(c, seen)
  <2>1. Goes(c, "clear", call[c].drops, Todo(seen), call[c].told)
    BY <1>2, <1>6, <1>8 DEF Op
  <2> QED BY <1>4, <1>5, <1>7, <1>8, <2>1 DEF Finds
<1>9. ASSUME Op(c) = "wipe" PROVE Finds(c, seen)
  <2>1. Goes(c, "delete", call[c].drops, Todo(seen \cap Signal), call[c].told)
    BY <1>2, <1>6, <1>9 DEF Op
  <2> QED BY <1>4, <1>5, <1>7, <1>9, <2>1 DEF Finds
<1> QED BY <1>4, <1>5, <1>8, <1>9 DEF List, Same

LEMMA EndKind ==
  ASSUME Typed, NEW c \in Lane
  PROVE  /\ \A left \in SUBSET temps : RemoveDir(c, left) => Same /\ Sweeps(c)
         /\ ClearAtOnce(c) => Same /\ Clears(c)
         /\ Fail(c) => Same /\ Fails(c)
         /\ Return(c) => (Same /\ Turns(c)) \/ Returns(c)
<1>1. CallsOK /\ Shape(call[c]) /\ naming.scope = Key
  BY DEF Typed, CallsOK, DataOK, WellNamed
<1>2. ASSUME NEW left \in SUBSET temps, RemoveDir(c, left) PROVE Same /\ Sweeps(c)
  <2> DEFINE t == IF left # {} \/ Found # {} THEN "failed" ELSE call[c].told
  <2>1. Set(c, [call[c] EXCEPT !.phase = "cleared", !.told = t])
    BY <1>2 DEF RemoveDir
  <2>2. t \in {"failed", call[c].told}
    OBVIOUS
  <2>3. Goes(c, "cleared", call[c].drops, call[c].st, t)
    <3> HIDE DEF t
    <3> QED BY <2>1, <1>1, GoesWith
  <2>4. Op(c) = "purge" /\ Phase(c) = "clear"
    BY <1>1, <1>2 DEF RemoveDir, Shape, Idle, Op, Phase
  <2> HIDE DEF t
  <2> QED BY <1>2, <2>2, <2>3, <2>4 DEF RemoveDir, Sweeps, Same
<1>3. ASSUME ClearAtOnce(c) PROVE Same /\ Clears(c)
  <2>1. Goes(c, "cleared", call[c].drops, None, call[c].told)
    BY <1>3, <1>1, GoesWith DEF ClearAtOnce
  <2> QED BY <1>3, <1>1, <2>1 DEF ClearAtOnce, Clears, Same, Op, Phase
<1>4. Fail(c) => Same /\ Fails(c)
  BY DEF Fail, Fails, Same, Op, files
<1>5. ASSUME Return(c), Deleting(c) PROVE Same /\ Turns(c)
  <2>1. Set(c, [call[c] EXCEPT !.phase = "delete", !.st = Todo(call[c].drops)])
    BY <1>5 DEF Return
  <2>2. Goes(c, "delete", call[c].drops, Todo(call[c].drops), call[c].told)
    BY <2>1, <1>1, GoesWith
  <2> QED BY <1>5, <2>2 DEF Return, Deleting, Finished, Turns, Same, Op, Phase, files, history
<1>6. ASSUME Return(c), ~Deleting(c) PROVE Returns(c)
  BY <1>6 DEF Return, Finished, Returns, Op, files
<1> QED BY <1>2, <1>3, <1>4, <1>5, <1>6

LEMMA Kinds ==
  ASSUME Typed, NEW c \in Lane, Steps(c)
  PROVE  StepKinds(c)
<1>1. CASE \E g \in Batch(c) \ {{}} : Land(c, g) \/ Delete(c, g)
  BY <1>1, LandKind, DeleteKind DEF StepKinds
<1>2. CASE \E k \in Key : MakeDir(c, k) \/ OpenTemp(c, k) \/ Rename(c, k) \/ PartFails(c, k)
  BY <1>2, FileKind DEF StepKinds
<1>3. CASE \E left \in SUBSET temps : RemoveDir(c, left)
  BY <1>3, EndKind DEF StepKinds
<1>4. CASE List(c)
  BY <1>4, ListKind DEF StepKinds
<1>5. CASE ClearAtOnce(c) \/ Fail(c) \/ Return(c)
  BY <1>5, EndKind DEF StepKinds
<1> QED BY <1>1, <1>2, <1>3, <1>4, <1>5 DEF Steps

-----------------------------------------------------------------------------
(* What a step leaves of the calls                                           *)

LEMMA GoesIs ==
  ASSUME CallsOK, NEW c \in Lane, NEW ph \in Phases, NEW ds \in SUBSET Key, NEW s \in ToDo,
         NEW t \in {"none", "failed"}, Goes(c, ph, ds, s, t)
  PROVE  /\ call' \in [Lane -> CallRecord] /\ \A d \in Lane \ {c} : call'[d] = call[d]
         /\ call'[c].op = Op(c) /\ call'[c].phase = ph /\ call'[c].ver = call[c].ver
         /\ call'[c].puts = call[c].puts /\ call'[c].drops = ds /\ call'[c].st = s
         /\ call'[c].told = t /\ call'[c].raced = call[c].raced
<1> DEFINE r == Rec(call[c].op, ph, call[c].ver, call[c].puts, ds, s, t, call[c].raced)
<1>1. call \in [Lane -> CallRecord] /\ call[c] \in CallRecord
  BY DEF CallsOK
<1>2. r \in CallRecord
  BY <1>1, Fields, RecIs
<1>3. /\ r.op = Op(c) /\ r.phase = ph /\ r.ver = call[c].ver /\ r.puts = call[c].puts
      /\ r.drops = ds /\ r.st = s /\ r.told = t /\ r.raced = call[c].raced
  BY RecFields DEF Op
<1> HIDE DEF r
<1>4. call' = [call EXCEPT ![c] = r]
  BY DEF Goes, Set, r
<1> QED BY <1>1, <1>2, <1>3, <1>4

LEMMA SetIdle ==
  ASSUME CallsOK, NEW c \in Lane, Set(c, Idle)
  PROVE  /\ call' \in [Lane -> CallRecord] /\ \A d \in Lane \ {c} : call'[d] = call[d]
         /\ call'[c] = Idle
BY IdleIs DEF CallsOK, Set

\* A call's fields but the note of what overlapped it.
Alike(r, q) ==
  /\ r.op = q.op /\ r.phase = q.phase /\ r.ver = q.ver /\ r.puts = q.puts /\ r.drops = q.drops
  /\ r.st = q.st /\ r.told = q.told

LEMMA RacedIs ==
  ASSUME NEW r \in CallRecord, NEW rs \in SUBSET Key
  PROVE  LET q == [r EXCEPT !.raced = rs] IN q \in CallRecord /\ Alike(q, r) /\ q.raced = rs
<1>1. [r EXCEPT !.raced = rs] = Rec(r.op, r.phase, r.ver, r.puts, r.drops, r.st, r.told, rs)
  BY Replaced
<1>2. Rec(r.op, r.phase, r.ver, r.puts, r.drops, r.st, r.told, rs) \in CallRecord
  BY Fields, RecIs
<1> QED BY <1>1, <1>2, RecFields DEF Alike

LEMMA BeginIs ==
  ASSUME CallsOK, NEW c \in Lane, NEW r \in CallRecord, r.op # "none", Begin(c, r)
  PROVE  /\ call' \in [Lane -> CallRecord] /\ call[c].op = "none" /\ Alike(call'[c], r)
         /\ \A d \in Lane \ {c} : Alike(call'[d], call[d]) /\ (call[d] = Idle => call'[d] = Idle)
         /\ r.op = "purge" =>
              /\ call'[c].raced = UNION {call[e].puts : e \in Busy}
              /\ \A d \in Busy : call[d].op = "save" => call'[d].raced = Key
         /\ r.op # "purge" =>
              /\ r.op = "save" /\ Purging # {} => call'[c].raced = Key
              /\ \A d \in Purging : call'[d].raced = call[d].raced \cup r.puts
              /\ \A d \in Lane \ (Purging \cup {c}) : call'[d] = call[d]
<1> DEFINE mine == IF r.op = "purge" THEN UNION {call[e].puts : e \in Busy}
                   ELSE IF r.op = "save" /\ Purging # {} THEN Key ELSE {}
           theirs(d) == IF r.op = "purge" /\ call[d].op = "save" THEN [call[d] EXCEPT !.raced = Key]
                        ELSE IF d \in Purging THEN [call[d] EXCEPT !.raced = @ \cup r.puts]
                        ELSE call[d]
<1>1. /\ call \in [Lane -> CallRecord] /\ call[c].op = "none"
      /\ call' = [d \in Lane |-> IF d = c THEN [r EXCEPT !.raced = mine] ELSE theirs(d)]
  BY DEF CallsOK, Begin
<1>2. /\ \A d \in Lane : call[d] \in CallRecord /\ call[d].raced \in SUBSET Key
                        /\ call[d].puts \in SUBSET Key
      /\ r.puts \in SUBSET Key /\ c \notin Busy
  BY <1>1, Fields DEF Busy
<1>3. mine \in SUBSET Key
  BY <1>2 DEF Busy
<1>4. LET q == [r EXCEPT !.raced = mine] IN q \in CallRecord /\ Alike(q, r) /\ q.raced = mine
  <2> HIDE DEF mine
  <2> QED BY <1>3, RacedIs
<1>5. ASSUME NEW d \in Lane, NEW rs \in SUBSET Key
      PROVE  LET q == [call[d] EXCEPT !.raced = rs]
             IN q \in CallRecord /\ Alike(q, call[d]) /\ q.raced = rs
  BY <1>2, RacedIs
<1>6. ASSUME NEW d \in Lane
      PROVE  /\ theirs(d) \in CallRecord /\ Alike(theirs(d), call[d])
             /\ r.op = "purge" /\ call[d].op = "save" => theirs(d).raced = Key
             /\ r.op # "purge" /\ d \in Purging => theirs(d).raced = call[d].raced \cup r.puts
             /\ d \notin Busy \/ (r.op # "purge" /\ d \notin Purging) => theirs(d) = call[d]
  <2>1. CASE r.op = "purge" /\ call[d].op = "save"
    BY <2>1, <1>5 DEF Busy, Purging
  <2>2. CASE ~(r.op = "purge" /\ call[d].op = "save") /\ d \in Purging
    <3>1. call[d].raced \cup r.puts \in SUBSET Key
      BY <1>2
    <3> QED BY <2>2, <3>1, <1>5 DEF Purging
  <2>3. CASE ~(r.op = "purge" /\ call[d].op = "save") /\ d \notin Purging
    BY <2>3, <1>2 DEF Alike, Purging
  <2> QED BY <2>1, <2>2, <2>3
<1>7. \A d \in Lane \ {c} : call'[d] = theirs(d)
  BY <1>1
<1>8. call'[c] = [r EXCEPT !.raced = mine] /\ call' \in [Lane -> CallRecord]
  <2> HIDE DEF mine, theirs
  <2> QED BY <1>1, <1>4, <1>6
<1>9. call'[c].raced = mine /\ Alike(call'[c], r)
  <2> HIDE DEF mine
  <2> QED BY <1>4, <1>8
<1>10. \A d \in Lane : call[d] = Idle => d \notin Busy
  BY IdleIs DEF Busy
<1>11. \A d \in Purging : d \in Lane \ {c}
  BY <1>2 DEF Purging, Busy
<1>12. \A d \in Busy : d \in Lane \ {c}
  BY <1>2 DEF Busy
<1> HIDE DEF theirs
<1> QED BY <1>1, <1>6, <1>7, <1>8, <1>9, <1>10, <1>11, <1>12

\* What a call begins with.
Begins(c, r) ==
  /\ Begin(c, r) /\ r.op # "none" /\ r.told = "none" /\ Shape(r)
  /\ UNCHANGED <<setting, files, auth>>
  /\ r.phase = "write" =>
       /\ next < MaxVersion /\ next' = next + 1 /\ r.ver = next + 1 /\ DOMAIN r.st = r.puts
       /\ UNCHANGED acked
  /\ r.phase = "delete" => r.op \in {"forget", "set"} /\ DOMAIN r.st = r.drops /\ UNCHANGED <<next, acked>>
  /\ r.phase # "list" => wiped' \in {wiped, TRUE}
  /\ r.phase = "list" => wiped' = TRUE /\ UNCHANGED next
  /\ r.op = "save" => r.phase = "write" /\ (Overlapping \/ ~Waiting("save"))
  /\ r.op = "set" => /\ ~Waiting("set") /\ (Straying => wiped')
                     /\ r.phase = "delete" /\ ~wiped' => \E k \in Signal \ r.drops : disk[k] # Absent
  /\ r.op = "wipe" => r.phase = "list" /\ UNCHANGED acked
  /\ r.op = "purge" => /\ r.phase = "list" /\ Purging = {} /\ acked' = Absent
                       /\ DOMAIN r.st = Present \cap Key

LEMMA RecAll ==
  ASSUME NEW op \in Ops, NEW ph \in Phases, NEW v \in Nat, NEW ps \in SUBSET Key,
         NEW ds \in SUBSET Key, NEW s \in ToDo, NEW r, r = Rec(op, ph, v, ps, ds, s, "none", {})
  PROVE  /\ r \in CallRecord /\ r.op = op /\ r.phase = ph /\ r.ver = v /\ r.puts = ps
         /\ r.drops = ds /\ r.st = s /\ r.told = "none"
<1>1. r \in CallRecord
  BY RecIs
<1>2. LET q == Rec(op, ph, v, ps, ds, s, "none", {})
      IN /\ q.op = op /\ q.phase = ph /\ q.ver = v /\ q.puts = ps /\ q.drops = ds
         /\ q.st = s /\ q.told = "none"
  BY RecFields
<1> QED BY <1>1, <1>2

LEMMA BuiltWrite ==
  ASSUME NEW op, NEW v, NEW ps, NEW ds, NEW s
  PROVE  [Idle EXCEPT !.op = op, !.phase = "write", !.ver = v, !.puts = ps, !.drops = ds, !.st = s]
              = Rec(op, "write", v, ps, ds, s, "none", {})
<1>1. ASSUME NEW r, r = [Idle EXCEPT !.op = op, !.phase = "write", !.ver = v, !.puts = ps, !.drops = ds, !.st = s]
      PROVE  r = Rec(op, "write", v, ps, ds, s, "none", {})
  BY <1>1 DEF Idle, Rec
<1> QED BY <1>1

LEMMA BuiltIs ==
  ASSUME NEW op, NEW ds, NEW s
  PROVE  /\ [Idle EXCEPT !.op = op, !.phase = "delete", !.drops = ds, !.st = s]
              = Rec(op, "delete", 0, {}, ds, s, "none", {})
         /\ [Idle EXCEPT !.op = op, !.phase = "list", !.st = s]
              = Rec(op, "list", 0, {}, {}, s, "none", {})
         /\ [Idle EXCEPT !.op = op, !.phase = "list", !.puts = {}, !.st = s]
              = Rec(op, "list", 0, {}, {}, s, "none", {})
<1>1. ASSUME NEW r, r = [Idle EXCEPT !.op = op, !.phase = "delete", !.drops = ds, !.st = s]
      PROVE  r = Rec(op, "delete", 0, {}, ds, s, "none", {})
  BY <1>1 DEF Idle, Rec
<1>2. ASSUME NEW r, r = [Idle EXCEPT !.op = op, !.phase = "list", !.st = s]
      PROVE  r = Rec(op, "list", 0, {}, {}, s, "none", {})
  BY <1>2 DEF Idle, Rec
<1>3. ASSUME NEW r, r = [Idle EXCEPT !.op = op, !.phase = "list", !.puts = {}, !.st = s]
      PROVE  r = Rec(op, "list", 0, {}, {}, s, "none", {})
  BY <1>3 DEF Idle, Rec
<1>4. [Idle EXCEPT !.op = op, !.phase = "delete", !.drops = ds, !.st = s] = Rec(op, "delete", 0, {}, ds, s, "none", {})
  BY <1>1
<1>5. [Idle EXCEPT !.op = op, !.phase = "list", !.st = s] = Rec(op, "list", 0, {}, {}, s, "none", {})
  BY <1>2
<1>6. [Idle EXCEPT !.op = op, !.phase = "list", !.puts = {}, !.st = s] = Rec(op, "list", 0, {}, {}, s, "none", {})
  BY <1>3
<1> QED BY <1>4, <1>5, <1>6

LEMMA WriteIs ==
  ASSUME Typed, NEW op \in Ops, NEW ks \in SUBSET Key, NEW ds \in SUBSET Key, NEW r, r = Write(op, ks, ds)
  PROVE  /\ r \in CallRecord /\ r.op = op /\ r.phase = "write" /\ r.ver = next + 1 /\ r.puts = ks
         /\ r.drops = ds /\ r.st = Parts(ks) /\ r.told = "none" /\ DOMAIN r.st = ks
<1> DEFINE v == next + 1
<1>1. r = Rec(op, "write", v, ks, ds, Parts(ks), "none", {})
  <2> HIDE DEF v
  <2>1. Write(op, ks, ds) = [Idle EXCEPT !.op = op, !.phase = "write", !.ver = v, !.puts = ks,
                                          !.drops = ds, !.st = Parts(ks)]
    BY DEF Write, v
  <2>2. [Idle EXCEPT !.op = op, !.phase = "write", !.ver = v, !.puts = ks, !.drops = ds, !.st = Parts(ks)]
          = Rec(op, "write", v, ks, ds, Parts(ks), "none", {})
    BY BuiltWrite
  <2> QED BY <2>1, <2>2
<1>2. v \in Nat /\ Parts(ks) \in ToDo /\ DOMAIN Parts(ks) = ks
  BY TodoIs DEF Typed, DataOK
<1> HIDE DEF v
<1>3. "write" \in Phases
  BY DEF Phases
<1>4. /\ r \in CallRecord /\ r.op = op /\ r.phase = "write" /\ r.ver = v /\ r.puts = ks
      /\ r.drops = ds /\ r.st = Parts(ks) /\ r.told = "none"
  BY <1>1, <1>2, <1>3, RecAll
<1> QED BY <1>2, <1>4 DEF v

LEMMA StartIs ==
  ASSUME Typed, NEW c \in Lane, Starts(c)
  PROVE  \E r \in CallRecord : Begins(c, r)
<1>1. {"creds"} \in SUBSET Key /\ {"meta"} \in SUBSET Key /\ Signal \in SUBSET Key
  BY DEF Key
<1>2. Found = Present \cap Key /\ Found \in SUBSET Key
  BY FoundIs DEF Typed, DataOK
<1>3. CASE SaveCreds(c)
  <2>0. PICK r : r = Write("save", {"creds"}, {})
    OBVIOUS
  <2>1. /\ r \in CallRecord /\ r.op = "save" /\ r.phase = "write" /\ r.ver = next + 1
        /\ r.puts = {"creds"} /\ r.drops = {} /\ DOMAIN r.st = {"creds"} /\ r.told = "none"
    <3>1. "save" \in Ops /\ {} \in SUBSET Key
      BY DEF Ops
    <3> QED BY <1>1, <2>0, <3>1, WriteIs
  <2>2. DOMAIN r.st = r.puts
    BY <2>1
  <2>3. Shape(r)
    BY <2>1 DEF Shape
  <2>4. Begin(c, r)
    BY <1>3, <2>0 DEF SaveCreds
  <2>5. Begins(c, r)
    BY <1>3, <2>1, <2>2, <2>3, <2>4 DEF SaveCreds, Begins
  <2> QED BY <2>1, <2>5
<1>4. CASE WriteMeta(c)
  <2>0. PICK r : r = Write("register", {"meta"}, {})
    OBVIOUS
  <2>1. /\ r \in CallRecord /\ r.op = "register" /\ r.phase = "write" /\ r.ver = next + 1
        /\ r.puts = {"meta"} /\ r.drops = {} /\ DOMAIN r.st = {"meta"} /\ r.told = "none"
    BY <1>1, <2>0, WriteIs DEF Ops
  <2>2. DOMAIN r.st = r.puts
    BY <2>1
  <2>3. Shape(r)
    BY <2>1 DEF Shape
  <2>4. Begin(c, r)
    BY <1>4, <2>0 DEF WriteMeta
  <2>5. Begins(c, r)
    BY <1>4, <2>1, <2>2, <2>3, <2>4 DEF WriteMeta, Begins
  <2> QED BY <2>1, <2>5
<1>5. CASE \E ks, ds \in SUBSET Signal : SetKeys(c, ks, ds)
  <2>1. PICK ks \in SUBSET Signal, ds \in SUBSET Signal : SetKeys(c, ks, ds)
    BY <1>5
  <2>0. PICK r : r = Write("set", ks, ds)
    OBVIOUS
  <2>2. ks \in SUBSET Key /\ ds \in SUBSET Key
    BY <1>1
  <2>3. /\ r \in CallRecord /\ r.op = "set" /\ r.phase = "write" /\ r.ver = next + 1
        /\ r.puts = ks /\ r.drops = ds /\ DOMAIN r.st = ks /\ r.told = "none"
    <3>1. "set" \in Ops
      BY DEF Ops
    <3> QED BY <2>0, <2>2, <3>1, WriteIs
  <2>4. DOMAIN r.st = r.puts
    BY <2>3
  <2>5. Shape(r)
    BY <2>1, <2>3 DEF Shape, SetKeys
  <2>6. Begin(c, r)
    BY <2>0, <2>1 DEF SetKeys
  <2>7. wiped' \in {wiped, TRUE} /\ (Straying => wiped')
    BY <2>1 DEF SetKeys, Typed, DataOK
  <2>8. Begins(c, r)
    BY <2>1, <2>3, <2>4, <2>5, <2>6, <2>7 DEF SetKeys, Begins
  <2> QED BY <2>3, <2>8
<1>6. CASE RemoveMeta(c)
  <2>0. PICK r : r = Rec("forget", "delete", 0, {}, {"meta"}, Todo({"meta"}), "none", {})
    OBVIOUS
  <2>1. /\ r \in CallRecord /\ r.op = "forget" /\ r.phase = "delete" /\ r.puts = {}
        /\ r.drops = {"meta"} /\ r.st = Todo({"meta"}) /\ r.told = "none"
    BY <1>1, <2>0, TodoIs, RecAll DEF Ops, Phases
  <2>2. DOMAIN r.st = r.drops
    BY <2>1, <1>1, TodoIs
  <2>3. Begin(c, r)
    BY <1>6, <2>0, BuiltIs DEF RemoveMeta
  <2>4. Shape(r)
    BY <2>1 DEF Shape
  <2>5. Begins(c, r)
    BY <1>6, <2>1, <2>2, <2>3, <2>4 DEF RemoveMeta, Begins, history
  <2> QED BY <2>1, <2>5
<1>9. CASE \E ds \in SUBSET Signal : DropKeys(c, ds)
  <2>1. PICK ds \in SUBSET Signal : DropKeys(c, ds)
    BY <1>9
  <2>0. PICK r : r = Rec("set", "delete", 0, {}, ds, Todo(ds), "none", {})
    OBVIOUS
  <2>2. ds \in SUBSET Key
    BY <1>1
  <2>3. /\ r \in CallRecord /\ r.op = "set" /\ r.phase = "delete" /\ r.puts = {}
        /\ r.drops = ds /\ r.st = Todo(ds) /\ r.told = "none"
    <3>1. "set" \in Ops /\ "delete" \in Phases /\ 0 \in Nat /\ {} \in SUBSET Key /\ Todo(ds) \in ToDo
      BY <2>2, TodoIs DEF Ops, Phases
    <3> QED BY <2>0, <2>2, <3>1, RecAll
  <2>4. DOMAIN r.st = r.drops
    BY <2>2, <2>3, TodoIs
  <2>5. Begin(c, r)
    BY <2>0, <2>1, BuiltIs DEF DropKeys
  <2>6. Shape(r)
    BY <2>3 DEF Shape
  <2>7. wiped' \in {wiped, TRUE} /\ (Straying => wiped')
    BY <2>1 DEF DropKeys, Typed, DataOK
  <2>8. ASSUME ~wiped' PROVE \E k \in Signal \ r.drops : disk[k] # Absent
    <3>1. ~(Present \cap Signal \subseteq ds)
      BY <2>1, <2>8 DEF DropKeys
    <3> QED BY <2>3, <3>1 DEF Present
  <2>9. Begins(c, r)
    BY <2>1, <2>3, <2>4, <2>5, <2>6, <2>7, <2>8 DEF DropKeys, Begins
  <2> QED BY <2>3, <2>9
<1>7. CASE ClearKeys(c)
  <2>0. PICK r : r = Rec("wipe", "list", 0, {}, {}, Todo(Found), "none", {})
    OBVIOUS
  <2>1. /\ r \in CallRecord /\ r.op = "wipe" /\ r.phase = "list" /\ r.puts = {} /\ r.drops = {}
        /\ r.told = "none"
    BY <1>2, <2>0, TodoIs, RecAll DEF Ops, Phases
  <2>2. Begin(c, r)
    BY <1>7, <2>0, BuiltIs DEF ClearKeys
  <2>3. Shape(r)
    BY <2>1 DEF Shape
  <2>4. Begins(c, r)
    BY <1>7, <2>1, <2>2, <2>3 DEF ClearKeys, Begins
  <2> QED BY <2>1, <2>4
<1>8. CASE Purge(c)
  <2>0. PICK r : r = Rec("purge", "list", 0, {}, {}, Todo(Found), "none", {})
    OBVIOUS
  <2>1. /\ r \in CallRecord /\ r.op = "purge" /\ r.phase = "list" /\ r.puts = {} /\ r.drops = {}
        /\ r.told = "none" /\ r.st = Todo(Found)
    BY <1>2, <2>0, TodoIs, RecAll DEF Ops, Phases
  <2>2. Begin(c, r)
    BY <1>8, <2>0, BuiltIs DEF Purge
  <2>3. Shape(r)
    BY <2>1 DEF Shape
  <2>4. DOMAIN r.st = Present \cap Key
    BY <2>1, <1>2, TodoIs
  <2>5. Begins(c, r)
    BY <1>8, <2>1, <2>2, <2>3, <2>4 DEF Purge, Begins
  <2> QED BY <2>1, <2>5
<1> QED BY <1>3, <1>4, <1>5, <1>6, <1>7, <1>8, <1>9 DEF Starts

-----------------------------------------------------------------------------
(* The types are kept                                                        *)

LEMMA StepCalls ==
  ASSUME Typed, NEW c \in Lane, StepKinds(c)
  PROVE  CallsOK' /\ UNCHANGED <<next, setting>> /\ \A d \in Lane \ {c} : call'[d] = call[d]
<1>1. UNCHANGED <<next, setting>>
  BY DEF StepKinds, Same, Returns, history
<1>2. /\ CallsOK /\ Shape(call[c]) /\ Left(call[c]) /\ call[c] \in CallRecord
      /\ Undone(c) \in SUBSET Key /\ call[c].st \in ToDo /\ call[c].drops \in SUBSET Key
      /\ call[c].told \in {"none", "failed"} /\ Phase(c) \in Phases
  BY CallFacts DEF Typed, CallsOK
<1>3. Idle \in CallRecord /\ Shape(Idle) /\ Left(Idle)
  BY IdleIs DEF Shape, Left
<1> DEFINE OK(q) == Shape(q) /\ Left(q)
           Fits(q, ph, ds, s) == /\ q.op = Op(c) /\ q.phase = ph /\ q.puts = call[c].puts
                                 /\ q.drops = ds /\ q.st = s /\ q.ver = call[c].ver
<1>4. ASSUME NEW ph \in Phases, NEW ds \in SUBSET Key, NEW s \in ToDo, NEW t \in {"none", "failed"},
             Goes(c, ph, ds, s, t), \A q \in CallRecord : Fits(q, ph, ds, s) => OK(q)
      PROVE  CallsOK' /\ \A d \in Lane \ {c} : call'[d] = call[d]
  <2>1. call' \in [Lane -> CallRecord] /\ \A d \in Lane \ {c} : call'[d] = call[d]
    BY <1>2, <1>4, GoesIs
  <2>2. Fits(call'[c], ph, ds, s) /\ call'[c] \in CallRecord
    <3>1. /\ call'[c].op = Op(c) /\ call'[c].phase = ph /\ call'[c].ver = call[c].ver
          /\ call'[c].puts = call[c].puts /\ call'[c].drops = ds /\ call'[c].st = s
      BY <1>2, <1>4, GoesIs
    <3> QED BY <2>1, <3>1
  <2>3. OK(call'[c])
    <3> HIDE DEF OK, Fits
    <3> QED BY <1>4, <2>2
  <2>4. \A d \in Lane : Shape(call'[d]) /\ Left(call'[d])
    BY <2>1, <2>3, <1>2 DEF CallsOK
  <2>5. \A d \in Lane : Shape(call[d])' /\ Left(call[d])'
    BY <2>4, <1>1 DEF Left, Shape
  <2> QED BY <2>1, <2>5 DEF CallsOK
<1>5. ASSUME NEW g \in SUBSET Key, Lands(c, g) \/ Drops(c, g) PROVE CallsOK' /\ \A d \in Lane \ {c} : call'[d] = call[d]
  <2>1. Goes(c, Phase(c), call[c].drops, Without(c, g), call[c].told) /\ Op(c) # "none"
    BY <1>2, <1>5, IdleIs DEF Lands, Drops, Shape, Op, Phase
  <2>2. Without(c, g) \in ToDo /\ DOMAIN Without(c, g) \subseteq DOMAIN call[c].st
    BY <1>2, WithoutIs
  <2>3. \A q \in CallRecord : Fits(q, Phase(c), call[c].drops, Without(c, g)) => OK(q)
    BY <1>2, <2>1, <2>2, IdleIs DEF Shape, Left, Op, Phase
  <2> HIDE DEF OK, Fits
  <2> QED BY <1>2, <1>4, <2>1, <2>2, <2>3
<1>6. ASSUME NEW k \in Key, Misses(c, k) PROVE CallsOK' /\ \A d \in Lane \ {c} : call'[d] = call[d]
  <2>1. Goes(c, Phase(c), call[c].drops, Without(c, {k}), "failed") /\ Op(c) # "none"
    BY <1>2, <1>6, IdleIs DEF Misses, Shape, Op, Phase
  <2>2. Without(c, {k}) \in ToDo /\ DOMAIN Without(c, {k}) \subseteq DOMAIN call[c].st
    BY <1>2, WithoutIs
  <2>3. \A q \in CallRecord : Fits(q, Phase(c), call[c].drops, Without(c, {k})) => OK(q)
    BY <1>2, <2>1, <2>2, IdleIs DEF Shape, Left, Op, Phase
  <2> HIDE DEF OK, Fits
  <2> QED BY <1>2, <1>4, <2>1, <2>2, <2>3
<1>7. ASSUME Works(c) PROVE CallsOK' /\ \A d \in Lane \ {c} : call'[d] = call[d]
  <2>1. PICK s \in ToDo : DOMAIN s = Undone(c) /\ Goes(c, "write", call[c].drops, s, call[c].told)
    BY <1>7 DEF Works
  <2>2. Phase(c) = "write" /\ Op(c) # "none"
    BY <1>2, <1>7, IdleIs DEF Works, Shape, Op, Phase
  <2>3. \A q \in CallRecord : Fits(q, "write", call[c].drops, s) => OK(q)
    BY <1>2, <2>1, <2>2, IdleIs DEF Shape, Left, Undone, Op, Phase
  <2> HIDE DEF OK, Fits
  <2> QED BY <1>2, <1>4, <2>1, <2>2, <2>3
<1>8. ASSUME NEW seen \in SUBSET Key, Finds(c, seen) PROVE CallsOK' /\ \A d \in Lane \ {c} : call'[d] = call[d]
  <2>1. CASE Op(c) = "purge"
    <3>1. Goes(c, "clear", call[c].drops, Todo(seen), call[c].told)
      BY <1>8, <2>1 DEF Finds
    <3>2. Todo(seen) \in ToDo
      BY TodoIs
    <3>3. \A q \in CallRecord : Fits(q, "clear", call[c].drops, Todo(seen)) => OK(q)
      BY <1>2, <2>1, IdleIs DEF Shape, Left, Op
    <3> HIDE DEF OK, Fits
    <3> QED BY <1>2, <1>4, <3>1, <3>2, <3>3 DEF Phases
  <2>2. CASE Op(c) = "wipe"
    <3> DEFINE ks == seen \cap Signal
    <3>1. Goes(c, "delete", call[c].drops, Todo(ks), call[c].told)
      BY <1>8, <2>2 DEF Finds
    <3>2. ks \in SUBSET Key /\ ks \subseteq Signal
      OBVIOUS
    <3> HIDE DEF ks
    <3>3. Todo(ks) \in ToDo /\ DOMAIN Todo(ks) = ks
      BY <3>2, TodoIs
    <3>4. \A q \in CallRecord : Fits(q, "delete", call[c].drops, Todo(ks)) => OK(q)
      BY <1>2, <2>2, <3>2, <3>3, IdleIs DEF Shape, Left, Op
    <3> HIDE DEF OK, Fits
    <3> QED BY <1>2, <1>4, <3>1, <3>2, <3>3, <3>4 DEF Phases
  <2> QED BY <1>8, <2>1, <2>2 DEF Finds
<1>9. ASSUME Clears(c) \/ Sweeps(c) PROVE CallsOK' /\ \A d \in Lane \ {c} : call'[d] = call[d]
  <2>1. /\ Op(c) = "purge"
        /\ \E s \in ToDo, t \in {"none", "failed"} : Goes(c, "cleared", call[c].drops, s, t)
    BY <1>2, <1>9, ToDoIs DEF Clears, Sweeps
  <2>2. PICK s \in ToDo, t \in {"none", "failed"} : Goes(c, "cleared", call[c].drops, s, t)
    BY <2>1
  <2>3. \A q \in CallRecord : Fits(q, "cleared", call[c].drops, s) => OK(q)
    BY <1>2, <2>1, IdleIs DEF Shape, Left, Op
  <2> HIDE DEF OK, Fits
  <2> QED BY <1>2, <1>4, <2>2, <2>3 DEF Phases
<1>10. ASSUME Turns(c) PROVE CallsOK' /\ \A d \in Lane \ {c} : call'[d] = call[d]
  <2> DEFINE ds == call[c].drops
  <2>1. Op(c) = "set" /\ Goes(c, "delete", ds, Todo(ds), call[c].told)
    BY <1>10 DEF Turns
  <2>2. Todo(ds) \in ToDo /\ DOMAIN Todo(ds) = ds
    BY <1>2, TodoIs
  <2>3. \A q \in CallRecord : Fits(q, "delete", ds, Todo(ds)) => OK(q)
    BY <1>2, <2>1, <2>2, IdleIs DEF Shape, Left, Op
  <2> HIDE DEF OK, Fits
  <2> QED BY <1>2, <1>4, <2>1, <2>2, <2>3 DEF Phases
<1>11. ASSUME Set(c, Idle) PROVE CallsOK' /\ \A d \in Lane \ {c} : call'[d] = call[d]
  <2>1. /\ call' \in [Lane -> CallRecord] /\ \A d \in Lane \ {c} : call'[d] = call[d]
        /\ call'[c] = Idle
    BY <1>2, <1>11, SetIdle
  <2>2. \A d \in Lane : Shape(call'[d]) /\ Left(call'[d])
    BY <2>1, <1>2, <1>3 DEF CallsOK
  <2>3. \A d \in Lane : Shape(call[d])' /\ Left(call[d])'
    BY <2>2, <1>1 DEF Left, Shape
  <2> QED BY <2>1, <2>3 DEF CallsOK
<1>12. CallsOK' /\ \A d \in Lane \ {c} : call'[d] = call[d]
  BY <1>5, <1>6, <1>7, <1>8, <1>9, <1>10, <1>11 DEF StepKinds, Fails, Returns
<1> QED BY <1>1, <1>12

LEMMA BeginCalls ==
  ASSUME Typed, NEW c \in Lane, NEW r \in CallRecord, Begins(c, r)
  PROVE  CallsOK' /\ next' \in next..MaxVersion
<1>1. next' \in next..MaxVersion /\ next \in 1..MaxVersion /\ (r.phase = "write" => r.ver \in 2..next')
  <2>1. r.phase \in {"write", "delete", "list"}
    BY IdleIs DEF Begins, Shape
  <2> QED BY <2>1, BoundAssumption DEF Begins, Typed, DataOK, history
<1>2. Shape(r) /\ (r.phase = "write" => DOMAIN r.st \subseteq r.puts)
      /\ (r.phase = "delete" => r.op # "wipe" /\ DOMAIN r.st \subseteq r.drops) /\ r.op # "none" /\ Begin(c, r)
  BY DEF Begins
<1>3. /\ call' \in [Lane -> CallRecord] /\ Alike(call'[c], r)
      /\ \A d \in Lane \ {c} : Alike(call'[d], call[d]) /\ (call[d] = Idle => call'[d] = Idle)
  BY <1>2, BeginIs DEF Typed
<1>4. \A d \in Lane : Shape(call[d]) /\ Left(call[d])
  BY DEF Typed, CallsOK
<1>5. Shape(call'[c]) /\ (call'[c].phase = "write" => DOMAIN call'[c].st \subseteq call'[c].puts
                                                       /\ call'[c].ver \in 2..next')
      /\ (call'[c].phase = "delete" =>
           DOMAIN call'[c].st \subseteq IF call'[c].op = "wipe" THEN Signal ELSE call'[c].drops)
  <2>1. Shape(call'[c])
    BY <1>2, <1>3, IdleIs DEF Shape, Alike
  <2> QED BY <2>1, <1>1, <1>2, <1>3 DEF Alike
<1>6. ASSUME NEW d \in Lane \ {c}
      PROVE  Shape(call'[d]) /\ (call'[d].phase = "write" => DOMAIN call'[d].st \subseteq call'[d].puts
                                                       /\ call'[d].ver \in 2..next')
             /\ (call'[d].phase = "delete" =>
                  DOMAIN call'[d].st \subseteq IF call'[d].op = "wipe" THEN Signal ELSE call'[d].drops)
  <2>1. Shape(call'[d])
    BY <1>3, <1>4, IdleIs DEF Shape, Alike
  <2>2. call[d].phase = "write" => call[d].ver \in 2..next'
    BY <1>1, <1>4 DEF Left
  <2> QED BY <2>1, <2>2, <1>3, <1>4 DEF Alike, Left
<1>7. \A d \in Lane : Shape(call[d])' /\ Left(call[d])'
  BY <1>5, <1>6 DEF Shape, Left
<1> QED BY <1>1, <1>3, <1>7 DEF CallsOK

\* What is stored after a step, key by key.
LEMMA Stored ==
  ASSUME Typed, NEW c \in Lane, StepKinds(c), NEW k \in Resident
  PROVE  \/ disk'[k] = disk[k]
         \/ /\ \E g \in SUBSET Key : Lands(c, g) /\ k \in g
            /\ disk'[k] = call[c].ver /\ Phase(c) = "write" /\ k \in Undone(c)
         \/ /\ \E g \in SUBSET Key : Drops(c, g) /\ k \in g
            /\ disk'[k] = Absent /\ Phase(c) \in {"delete", "clear"} /\ k \in Undone(c)
         \/ Clears(c) /\ disk'[k] = Absent /\ k \in Key
BY DEF StepKinds, Lands, Drops, Misses, Finds, Clears, Works, Sweeps, Turns, Fails, Returns

LEMMA DiskType ==
  ASSUME Typed, NEW c \in Lane, StepKinds(c)
  PROVE  disk' \in [Resident -> 0..MaxVersion]
<1>1. disk \in [Resident -> 0..MaxVersion] /\ next \in 1..MaxVersion
  BY DEF Typed, DataOK
<1>2. \A k \in Resident : disk[k] \in 0..MaxVersion
  BY <1>1
<1>3. Phase(c) = "write" => call[c].ver \in 0..MaxVersion
  BY <1>1, BoundAssumption DEF Typed, CallsOK, Left, Phase
<1>4. 0 \in 0..MaxVersion
  BY BoundAssumption
<1>5. ASSUME NEW g \in SUBSET Key, Lands(c, g) PROVE disk' \in [Resident -> 0..MaxVersion]
  BY <1>2, <1>3, <1>5 DEF Lands
<1>6. ASSUME NEW g \in SUBSET Key, Drops(c, g) PROVE disk' \in [Resident -> 0..MaxVersion]
  BY <1>2, <1>4, <1>6 DEF Drops, Absent
<1>7. ASSUME Clears(c) PROVE disk' \in [Resident -> 0..MaxVersion]
  BY <1>2, <1>4, <1>7 DEF Clears, Absent
<1>8. disk' = disk \/ Clears(c) \/ \E g \in SUBSET Key : Lands(c, g) \/ Drops(c, g)
  BY DEF StepKinds, Misses, Finds, Works, Sweeps, Turns, Fails, Returns
<1> QED BY <1>1, <1>5, <1>6, <1>7, <1>8

\* The directory and the temporary files, which no other property reads.
LEMMA FilesType ==
  ASSUME Typed, [Next]_vars PROVE dir' \in BOOLEAN /\ temps' \subseteq Lane \X Key
<1>1. dir \in BOOLEAN /\ temps \subseteq Lane \X Key
  BY DEF Typed, DataOK
<1>2. ASSUME NEW c \in Lane, Starts(c) PROVE UNCHANGED <<dir, temps>>
  BY <1>2, StartIs DEF Begins, files
<1>3. ASSUME NEW c \in Lane, NEW k \in Key, MakeDir(c, k) \/ OpenTemp(c, k) \/ Rename(c, k) \/ PartFails(c, k)
      PROVE  dir' \in BOOLEAN /\ temps' \subseteq Lane \X Key
  <2>1. dir' \in {dir, TRUE} /\ temps' \in {temps, temps \cup {<<c, k>>}, temps \ {<<c, k>>}}
    BY <1>3 DEF MakeDir, OpenTemp, Rename, PartFails
  <2>2. <<c, k>> \in Lane \X Key
    OBVIOUS
  <2> QED BY <1>1, <2>1, <2>2
<1>4. ASSUME NEW c \in Lane, NEW left \in SUBSET temps, RemoveDir(c, left)
      PROVE  dir' \in BOOLEAN /\ temps' \subseteq Lane \X Key
  BY <1>1, <1>4 DEF RemoveDir
<1>5. ASSUME NEW c \in Lane,
             (\E g \in Batch(c) \ {{}} : Land(c, g) \/ Delete(c, g))
               \/ ClearAtOnce(c) \/ List(c) \/ Fail(c) \/ Return(c)
      PROVE  UNCHANGED <<dir, temps>>
  BY <1>5 DEF Land, Delete, ClearAtOnce, List, Fail, Return, files
<1>6. ASSUME NEW c \in Lane, Steps(c) PROVE dir' \in BOOLEAN /\ temps' \subseteq Lane \X Key
  BY <1>1, <1>3, <1>4, <1>5, <1>6 DEF Steps
<1>7. CASE Load \/ Crash \/ UNCHANGED vars
  BY <1>1, <1>7 DEF Load, Crash, vars, files
<1> QED BY <1>1, <1>2, <1>6, <1>7 DEF Next

LEMMA InitTyped == ASSUME Init PROVE Typed
<1>1. Idle \in CallRecord /\ Shape(Idle) /\ Left(Idle)
  BY IdleIs DEF Shape, Left
<1>2. CallsOK
  <2>1. call \in [Lane -> CallRecord] /\ \A c \in Lane : call[c] = Idle
    BY <1>1 DEF Init
  <2> QED BY <2>1, <1>1 DEF CallsOK
<1>3. WellNamed(naming) /\ backend \in Backend
  BY NamesTold DEF Init
<1>4. disk \in [Resident -> 0..MaxVersion]
  BY BoundAssumption DEF Init, Absent
<1>5. next \in 1..MaxVersion /\ acked \in 0..next
  BY BoundAssumption DEF Init, Absent
<1> QED BY <1>2, <1>3, <1>4, <1>5 DEF Typed, DataOK, Init

LEMMA NextTyped == ASSUME Typed, [Next]_vars PROVE Typed'
<1>1. dir' \in BOOLEAN /\ temps' \subseteq Lane \X Key
  BY FilesType
<1>2. /\ backend \in Backend /\ WellNamed(naming) /\ disk \in [Resident -> 0..MaxVersion]
      /\ auth \in BOOLEAN /\ next \in 1..MaxVersion /\ acked \in 0..next /\ wiped \in BOOLEAN /\ CallsOK
  BY DEF Typed, DataOK
<1>3. ASSUME UNCHANGED setting PROVE backend' \in Backend /\ WellNamed(naming)'
  BY <1>2, <1>3 DEF setting, WellNamed
<1>4. ASSUME NEW c \in Lane, Starts(c) PROVE Typed'
  <2>1. PICK r \in CallRecord : Begins(c, r)
    BY <1>4, StartIs
  <2>2. CallsOK' /\ next' \in next..MaxVersion
    BY <2>1, BeginCalls
  <2>3. r.phase \in {"write", "delete", "list"} /\ r.op \in {"save", "register", "set", "forget", "wipe", "purge"}
        /\ (r.phase = "list" => r.op \in {"wipe", "purge"})
    BY <2>1, IdleIs DEF Begins, Shape
  <2>4. acked' \in {acked, Absent} /\ wiped' \in {wiped, TRUE}
    BY <2>1, <2>3 DEF Begins, history
  <2>5. next' \in 1..MaxVersion /\ acked' \in 0..next'
    BY <1>2, <2>2, <2>4, BoundAssumption DEF Absent
  <2>6. UNCHANGED <<setting, disk, auth>>
    BY <2>1 DEF Begins, files
  <2> QED BY <1>1, <1>2, <1>3, <2>2, <2>4, <2>5, <2>6 DEF Typed, DataOK
<1>5. ASSUME NEW c \in Lane, Steps(c) PROVE Typed'
  <2>1. StepKinds(c)
    BY <1>5, Kinds
  <2>2. CallsOK' /\ UNCHANGED <<next, setting>>
    BY <2>1, StepCalls
  <2>3. disk' \in [Resident -> 0..MaxVersion]
    BY <2>1, DiskType
  <2>4. acked' \in 0..next' /\ auth' \in BOOLEAN /\ wiped' \in BOOLEAN
    <3>1. CASE Returns(c)
      <4>1. Op(c) = "save" => Phase(c) = "write"
        BY <1>2, IdleIs DEF CallsOK, Shape, Op, Phase
      <4>2. Op(c) = "save" => call[c].ver \in 0..next
        BY <1>2, <4>1 DEF CallsOK, Left, Phase
      <4> QED BY <1>2, <2>2, <3>1, <4>2 DEF Returns
    <3>2. CASE Same
      BY <1>2, <2>2, <3>2 DEF Same, history
    <3> QED BY <2>1, <3>1, <3>2 DEF StepKinds
  <2> QED BY <1>1, <1>2, <1>3, <2>2, <2>3, <2>4 DEF Typed, DataOK
<1>6. CASE Load
  <2>1. CallsOK'
    BY <1>2, <1>6 DEF Load, CallsOK, Shape, Left, history
  <2> QED BY <1>1, <1>2, <1>3, <1>6, <2>1 DEF Load, files, history, Typed, DataOK
<1>7. CASE Crash
  <2>1. \A c \in Lane : call'[c] = Idle /\ call' \in [Lane -> CallRecord]
    BY <1>7, IdleIs DEF Crash
  <2>2. CallsOK'
    <3>1. call' \in [Lane -> CallRecord]
      BY <1>7, IdleIs DEF Crash
    <3>2. \A c \in Lane : Shape(call[c])' /\ Left(call[c])'
      BY <2>1, IdleIs DEF Shape, Left
    <3> QED BY <3>1, <3>2 DEF CallsOK
  <2> QED BY <1>1, <1>2, <1>3, <1>7, <2>2 DEF Crash, history, Typed, DataOK
<1>8. CASE UNCHANGED vars
  <2>1. CallsOK'
    BY <1>2, <1>8 DEF vars, CallsOK, Shape, Left, history
  <2> QED BY <1>1, <1>2, <1>3, <1>8, <2>1 DEF vars, files, history, Typed, DataOK
<1> QED BY <1>4, <1>5, <1>6, <1>7, <1>8 DEF Next

LEMMA AlwaysTyped == Spec => []Typed
<1>1. Init => Typed
  BY InitTyped
<1>2. Typed /\ [Next]_vars => Typed'
  BY NextTyped
<1> QED BY <1>1, <1>2, PTL DEF Spec

\* Every reachable state has the types that the runs check.
THEOREM TypeCorrect == Spec => []TypeOK
<1>1. Typed => TypeOK
  <2> SUFFICES ASSUME Typed PROVE TypeOK
    OBVIOUS
  <2>1. \A c \in Lane : DOMAIN call[c].st \subseteq Resident /\ call[c].raced \subseteq Key
    BY CallFacts DEF Typed, Undone, Resident
  <2>2. disk \in [Resident -> 0..MaxVersion] /\ next \in 1..MaxVersion /\ acked \in 0..next
    BY DEF Typed, DataOK
  <2>3. disk \in [Resident -> Torn..MaxVersion] /\ acked \in 0..MaxVersion
    BY <2>2, BoundAssumption DEF Torn
  <2> QED BY <2>1, <2>2, <2>3 DEF TypeOK, Typed, DataOK
<1> QED BY <1>1, AlwaysTyped, PTL

-----------------------------------------------------------------------------
(* Every change of the data was asked for                                    *)

LEMMA StepAsked ==
  ASSUME Typed, NEW c \in Lane, StepKinds(c), NEW k \in Resident, disk'[k] # disk[k]
  PROVE  /\ c \in Busy /\ k \in Key
         /\ \/ disk'[k] = call[c].ver /\ k \in call[c].puts
            \/ /\ disk'[k] = Absent
               /\ \/ call[c].op = "purge"
                  \/ call[c].op = "wipe" /\ k \in Signal
                  \/ call[c].op \in {"set", "forget"} /\ k \in call[c].drops
                     /\ call[c].phase = "delete"
<1>1. Shape(call[c]) /\ Left(call[c]) /\ Undone(c) \in SUBSET Key
  BY CallFacts DEF Typed, CallsOK
<1>2. CASE disk'[k] = call[c].ver /\ Phase(c) = "write" /\ k \in Undone(c)
  BY <1>1, <1>2, IdleIs DEF Shape, Left, Undone, Phase, Busy
<1>3. CASE disk'[k] = Absent /\ Phase(c) \in {"delete", "clear"} /\ k \in Undone(c)
  BY <1>1, <1>3, IdleIs DEF Shape, Left, Undone, Phase, Busy
<1>4. CASE Clears(c) /\ disk'[k] = Absent /\ k \in Key
  BY <1>4 DEF Clears, Op, Busy
<1> QED BY <1>2, <1>3, <1>4, Stored

\* No key of the session changes but as a call under way asked, and none of
\* another session or of the locks does: whatever calls overlap, in every adapter.
THEOREM AskedFor == Spec => ChangesAreAsked
<1>1. ASSUME Typed, [Next]_vars, NEW k \in Resident, disk'[k] # disk[k]
      PROVE  \E c \in Busy : k \in Key /\
                \/ disk'[k] = call[c].ver /\ k \in call[c].puts
                \/ /\ disk'[k] = Absent
                   /\ \/ call[c].op = "purge"
                      \/ call[c].op = "wipe" /\ k \in Signal
                      \/ call[c].op \in {"set", "forget"} /\ k \in call[c].drops
                         /\ call[c].phase = "delete"
  <2>1. ASSUME NEW c \in Lane, Starts(c) PROVE disk' = disk
    BY <1>1, <2>1, StartIs DEF Begins, files
  <2>2. CASE \E c \in Lane : Steps(c)
    BY <1>1, <2>2, Kinds, StepAsked
  <2>3. CASE Load \/ Crash \/ UNCHANGED vars
    BY <1>1, <2>3 DEF Load, Crash, vars, files
  <2> QED BY <1>1, <2>1, <2>2, <2>3 DEF Next
<1>2. Typed /\ [Next]_vars =>
        [\A k \in Resident : disk'[k] # disk[k] =>
           \E c \in Busy : k \in Key /\
             \/ disk'[k] = call[c].ver /\ k \in call[c].puts
             \/ /\ disk'[k] = Absent
                /\ \/ call[c].op = "purge"
                   \/ call[c].op = "wipe" /\ k \in Signal
                   \/ call[c].op \in {"set", "forget"} /\ k \in call[c].drops
                      /\ call[c].phase = "delete"]_vars
  BY <1>1
<1> QED BY <1>2, AlwaysTyped, PTL DEF Spec, ChangesAreAsked

-----------------------------------------------------------------------------
(* A purge leaves nothing but what overlapped it                             *)

\* A purge knows what the other calls may put, and has the rest still to do.
PurgeInv ==
  \A p \in Purging :
    /\ \A d \in Busy \ {p} : call[d].puts \subseteq call[p].raced
    /\ call[p].told = "none" => Present \cap Key \subseteq Undone(p) \cup call[p].raced

\* A step of a call that is not its last leaves what it is for.
LEMMA StepOwn ==
  ASSUME Typed, NEW c \in Lane, StepKinds(c)
  PROVE  \/ call'[c] = Idle
         \/ /\ call'[c].op = Op(c) /\ call'[c].puts = call[c].puts /\ call'[c].ver = call[c].ver
            /\ call'[c].raced = call[c].raced /\ call'[c].told \in {call[c].told, "failed"}
<1>1. /\ CallsOK /\ call[c].st \in ToDo /\ call[c].drops \in SUBSET Key /\ Undone(c) \in SUBSET Key
      /\ call[c].told \in {"none", "failed"} /\ Phase(c) \in Phases
  BY CallFacts DEF Typed
<1>2. ASSUME NEW ph \in Phases, NEW ds \in SUBSET Key, NEW s \in ToDo, NEW t \in {"none", "failed"},
             Goes(c, ph, ds, s, t)
      PROVE  /\ call'[c].op = Op(c) /\ call'[c].puts = call[c].puts /\ call'[c].ver = call[c].ver
             /\ call'[c].raced = call[c].raced /\ call'[c].told = t
  <2>1. CallsOK
    BY <1>1
  <2> QED BY <2>1, <1>2, GoesIs
<1>3. \A g : Without(c, g) \in ToDo
  BY <1>1, WithoutIs
<1>4. \A ks \in SUBSET Key : Todo(ks) \in ToDo
  BY TodoIs
<1>5. None \in ToDo
  BY ToDoIs
<1>6. \/ call'[c] = Idle
      \/ \E ph \in Phases, ds \in SUBSET Key, s \in ToDo, t \in {call[c].told, "failed"} : Goes(c, ph, ds, s, t)
  <2>1. ASSUME NEW g \in SUBSET Key, Lands(c, g) \/ Drops(c, g)
        PROVE  Goes(c, Phase(c), call[c].drops, Without(c, g), call[c].told)
    BY <2>1 DEF Lands, Drops
  <2>2. ASSUME NEW k \in Key, Misses(c, k)
        PROVE  Goes(c, Phase(c), call[c].drops, Without(c, {k}), "failed")
    BY <2>2 DEF Misses
  <2>3. ASSUME NEW seen \in SUBSET Key, Finds(c, seen)
        PROVE  \E ph \in Phases, s \in ToDo : Goes(c, ph, call[c].drops, s, call[c].told)
    <3>1. Todo(seen) \in ToDo /\ Todo(seen \cap Signal) \in ToDo /\ "clear" \in Phases /\ "delete" \in Phases
      BY <1>4 DEF Phases
    <3>2. \/ Goes(c, "clear", call[c].drops, Todo(seen), call[c].told)
          \/ Goes(c, "delete", call[c].drops, Todo(seen \cap Signal), call[c].told)
      BY <2>3 DEF Finds
    <3> QED BY <3>1, <3>2
  <2>4. ASSUME Clears(c) \/ Works(c) \/ Sweeps(c) \/ Turns(c)
        PROVE  \E ph \in Phases, s \in ToDo, t \in {call[c].told, "failed"} : Goes(c, ph, call[c].drops, s, t)
    BY <1>1, <1>4, <1>5, <2>4 DEF Clears, Works, Sweeps, Turns, Phases
  <2>5. ASSUME Fails(c) \/ Returns(c) PROVE call'[c] = Idle
    BY <1>1, <2>5, SetIdle DEF Fails, Returns
  <2> QED BY <1>1, <1>3, <1>4, <2>1, <2>2, <2>3, <2>4, <2>5 DEF StepKinds
<1>7. ASSUME NEW ph \in Phases, NEW ds \in SUBSET Key, NEW s \in ToDo, NEW t \in {call[c].told, "failed"},
             Goes(c, ph, ds, s, t)
      PROVE  /\ call'[c].op = Op(c) /\ call'[c].puts = call[c].puts /\ call'[c].ver = call[c].ver
             /\ call'[c].raced = call[c].raced /\ call'[c].told \in {call[c].told, "failed"}
  <2>1. t \in {"none", "failed"}
    BY <1>1, <1>7
  <2> QED BY <1>2, <1>7, <2>1
<1> QED BY <1>6, <1>7

\* What a purge has left to do, key by key.
LEMMA PurgeLeft ==
  ASSUME Typed, NEW p \in Purging, StepKinds(p), call'[p] # Idle, NEW k \in Key,
         k \in Undone(p), disk[k] # Absent, disk'[k] # Absent
  PROVE  k \in DOMAIN call'[p].st
<1>1. p \in Lane /\ Op(p) = "purge" /\ Phase(p) \in {"list", "clear", "cleared"}
  BY IdleIs DEF Purging, Busy, Typed, CallsOK, Shape, Op, Phase
<1>2. /\ CallsOK /\ call[p].st \in ToDo /\ call[p].drops \in SUBSET Key /\ Undone(p) \in SUBSET Key
      /\ call[p].told \in {"none", "failed"}
  BY <1>1, CallFacts DEF Typed
<1>3. k \in Resident /\ k \in Present
  BY DEF Resident, Present
<1>4. ASSUME NEW ph \in Phases, NEW ds \in SUBSET Key, NEW s \in ToDo, NEW t \in {"none", "failed"},
              Goes(p, ph, ds, s, t)
       PROVE  call'[p].st = s
  <2>1. CallsOK /\ p \in Lane
    BY <1>1, <1>2
  <2> QED BY <2>1, <1>4, GoesIs
<1>5. ASSUME NEW g \in SUBSET Key, Drops(p, g) PROVE k \in DOMAIN call'[p].st
  <2>1. k \notin g
    BY <1>3, <1>5 DEF Drops
  <2>2. Without(p, g) \in ToDo /\ DOMAIN Without(p, g) = DOMAIN call[p].st \ g
    BY <1>1, <1>2, WithoutIs
  <2>3. call'[p].st = Without(p, g)
    <3>1. Goes(p, Phase(p), call[p].drops, Without(p, g), call[p].told) /\ Phase(p) \in Phases
      BY <1>1, <1>5 DEF Drops, Phases
    <3> QED BY <1>2, <1>4, <2>2, <3>1
  <2> QED BY <2>1, <2>2, <2>3 DEF Undone
<1>6. ASSUME NEW seen \in SUBSET Key, Finds(p, seen) PROVE k \in DOMAIN call'[p].st
  <2>1. k \in seen /\ Goes(p, "clear", call[p].drops, Todo(seen), call[p].told)
    BY <1>1, <1>3, <1>6 DEF Finds
  <2>2. Todo(seen) \in ToDo /\ DOMAIN Todo(seen) = seen
    BY TodoIs
  <2>3. call'[p].st = Todo(seen)
    <3>1. Goes(p, "clear", call[p].drops, Todo(seen), call[p].told) /\ "clear" \in Phases /\ Todo(seen) \in ToDo
      BY <2>1, <2>2 DEF Phases
    <3> QED BY <1>2, <1>4, <3>1
  <2> QED BY <2>1, <2>2, <2>3
<1>7. ASSUME Sweeps(p) PROVE k \in DOMAIN call'[p].st
  <2>1. PICK t \in {"failed", call[p].told} : Goes(p, "cleared", call[p].drops, call[p].st, t)
    BY <1>7 DEF Sweeps
  <2>2. t \in {"none", "failed"} /\ "cleared" \in Phases
    BY <1>2 DEF Phases
  <2>3. call'[p].st = call[p].st
    BY <1>2, <1>4, <2>1, <2>2
  <2> QED BY <2>3 DEF Undone
<1>8. ~Clears(p)
  BY <1>3 DEF Clears
<1>9. \A g \in SUBSET Key : ~Lands(p, g)
  BY <1>1 DEF Lands
<1>10. \A j \in Key : ~Misses(p, j)
  BY <1>1 DEF Misses
<1>11. ~Works(p) /\ ~Turns(p)
  BY <1>1 DEF Works, Turns
<1>12. ~Fails(p) /\ ~Returns(p)
  BY <1>1, <1>2, SetIdle DEF Fails, Returns
<1> QED BY <1>5, <1>6, <1>7, <1>8, <1>9, <1>10, <1>11, <1>12 DEF StepKinds

LEMMA PurgeStep ==
  ASSUME Typed, PurgeInv, NEW c \in Lane, StepKinds(c) PROVE PurgeInv'
<1> SUFFICES ASSUME NEW p \in Purging'
             PROVE  /\ \A d \in Busy' \ {p} : call'[d].puts \subseteq call'[p].raced
                    /\ call'[p].told = "none" =>
                         Present' \cap Key \subseteq DOMAIN call'[p].st \cup call'[p].raced
  BY DEF PurgeInv, Undone
<1>1. /\ \A d \in Lane \ {c} : call'[d] = call[d]
      /\ \/ call'[c] = Idle
         \/ /\ call'[c].op = Op(c) /\ call'[c].puts = call[c].puts
            /\ call'[c].raced = call[c].raced /\ call'[c].told \in {call[c].told, "failed"}
  BY StepCalls, StepOwn
<1>2. \A d \in Busy' : /\ d \in Busy /\ call'[d] # Idle
                       /\ call'[d].puts = call[d].puts /\ call'[d].raced = call[d].raced
                       /\ call'[d].op = call[d].op /\ call'[d].told \in {call[d].told, "failed"}
  BY <1>1, IdleIs DEF Busy, Op
<1>3. p \in Busy' /\ p \in Purging
  BY <1>2 DEF Purging
<1>4. p \in Lane /\ Op(p) = "purge" /\ Phase(p) # "write"
  BY <1>3, IdleIs DEF Purging, Busy, Typed, CallsOK, Shape, Op, Phase
<1>5. \A d \in Busy' \ {p} : call'[d].puts \subseteq call'[p].raced
  BY <1>2, <1>3 DEF PurgeInv
<1>6. ASSUME call'[p].told = "none", NEW k \in Key, disk'[k] # Absent
      PROVE  k \in DOMAIN call'[p].st \cup call'[p].raced
  <2>1. k \in Resident
    BY DEF Resident
  <2>2. CASE disk'[k] = disk[k]
    <3>1. k \in Undone(p) \cup call[p].raced
      <4>1. k \in Present /\ call[p].told = "none"
        BY <1>2, <1>3, <1>6, <2>1, <2>2 DEF Present
      <4> QED BY <1>3, <4>1 DEF PurgeInv
    <3>2. CASE p = c /\ k \in Undone(p)
      BY <1>2, <1>3, <1>6, <2>2, <3>2, PurgeLeft
    <3>3. CASE p # c
      BY <1>1, <1>4, <3>1, <3>3 DEF Undone
    <3> QED BY <1>2, <1>3, <3>1, <3>2, <3>3
  <2>3. CASE Phase(c) = "write" /\ k \in Undone(c)
    <3>1. c # p /\ c \in Busy
      BY <1>4, <2>3, IdleIs DEF Busy, Typed, CallsOK, Shape, Op, Phase
    <3>2. k \in call[c].puts
      BY <2>3 DEF Typed, CallsOK, Left, Undone, Phase
    <3> QED BY <1>2, <1>3, <3>1, <3>2 DEF PurgeInv
  <2> QED BY <1>6, <2>1, <2>2, <2>3, Stored
<1>7. call'[p].told = "none" => Present' \cap Key \subseteq DOMAIN call'[p].st \cup call'[p].raced
  BY <1>6 DEF Present
<1> QED BY <1>5, <1>7

LEMMA PurgeBegin ==
  ASSUME Typed, PurgeInv, NEW c \in Lane, NEW r \in CallRecord, Begins(c, r) PROVE PurgeInv'
<1> SUFFICES ASSUME NEW p \in Purging'
             PROVE  /\ \A d \in Busy' \ {p} : call'[d].puts \subseteq call'[p].raced
                    /\ call'[p].told = "none" =>
                         Present' \cap Key \subseteq DOMAIN call'[p].st \cup call'[p].raced
  BY DEF PurgeInv, Undone
<1>1. Begin(c, r) /\ r.op # "none" /\ Present' = Present
  BY DEF Begins, files, Present
<1>2. /\ call[c].op = "none" /\ Alike(call'[c], r)
      /\ \A d \in Lane \ {c} : Alike(call'[d], call[d])
      /\ r.op = "purge" => call'[c].raced = UNION {call[e].puts : e \in Busy}
      /\ r.op # "purge" => \A d \in Purging : call'[d].raced = call[d].raced \cup r.puts
  BY <1>1, BeginIs DEF Typed
<1>3. \A d \in Busy' \ {c} : d \in Busy
  BY <1>2 DEF Busy, Alike
<1>4. p \in Busy' /\ call'[p].op = "purge"
  BY DEF Purging
<1>5. CASE r.op = "purge"
  <2>1. p = c
    <3>1. Purging = {}
      BY <1>5 DEF Begins
    <3> QED BY <1>2, <1>3, <1>4, <3>1 DEF Purging, Busy, Alike
  <2>2. \A d \in Busy' \ {p} : call'[d].puts = call[d].puts /\ d \in Busy
    BY <1>2, <1>3, <2>1 DEF Busy, Alike
  <2>3. \A d \in Busy' \ {p} : call'[d].puts \subseteq call'[p].raced
    BY <1>2, <1>5, <2>1, <2>2
  <2>4. Present' \cap Key \subseteq DOMAIN call'[p].st
    BY <1>1, <1>2, <1>5, <2>1 DEF Begins, Alike
  <2> QED BY <2>3, <2>4
<1>6. CASE r.op # "purge"
  <2>1. p # c /\ p \in Purging /\ p \in Lane
    BY <1>2, <1>3, <1>4, <1>6 DEF Purging, Busy, Alike
  <2>2. call'[p].raced = call[p].raced \cup r.puts /\ Alike(call'[p], call[p])
    BY <1>2, <1>6, <2>1
  <2>3. ASSUME NEW d \in Busy' \ {p} PROVE call'[d].puts \subseteq call'[p].raced
    <3>1. CASE d = c
      BY <1>2, <2>2, <3>1 DEF Alike
    <3>2. CASE d # c
      BY <1>2, <1>3, <2>1, <2>2, <3>2 DEF PurgeInv, Busy, Alike
    <3> QED BY <3>1, <3>2
  <2>4. call'[p].told = "none" => Present' \cap Key \subseteq DOMAIN call'[p].st \cup call'[p].raced
    BY <1>1, <2>1, <2>2 DEF PurgeInv, Alike, Undone
  <2> QED BY <2>3, <2>4
<1> QED BY <1>5, <1>6

LEMMA PurgeNext == ASSUME Typed, PurgeInv, [Next]_vars PROVE PurgeInv'
<1>1. ASSUME NEW c \in Lane, Starts(c) PROVE PurgeInv'
  BY <1>1, StartIs, PurgeBegin
<1>2. ASSUME NEW c \in Lane, Steps(c) PROVE PurgeInv'
  BY <1>2, Kinds, PurgeStep
<1>3. CASE Load \/ UNCHANGED vars
  BY <1>3 DEF Load, vars, files, PurgeInv, Purging, Busy, Present, Undone
<1>4. CASE Crash
  <2>1. \A c \in Lane : call'[c].op = "none"
    BY <1>4, IdleIs DEF Crash
  <2> QED BY <2>1 DEF PurgeInv, Purging, Busy
<1> QED BY <1>1, <1>2, <1>3, <1>4 DEF Next

LEMMA AlwaysPurge == Spec => []PurgeInv
<1>1. Init => PurgeInv
  BY IdleIs DEF Init, PurgeInv, Purging, Busy
<1>2. Typed /\ PurgeInv /\ [Next]_vars => PurgeInv'
  BY PurgeNext
<1> QED BY <1>1, <1>2, AlwaysTyped, PTL DEF Spec

\* A purge that returns without an error left nothing of the session, in every
\* adapter, except what a write that overlapped it may have put.
THEOREM Purged == Spec => PurgeIsComplete
<1>1. ASSUME Typed, PurgeInv, [Next]_vars, NEW c \in Purging,
             auth, ~auth', call[c].told = "none", Finished(c)
      PROVE  Present' \cap Key \subseteq call[c].raced
  <2>1. disk' = disk
    <3>1. ASSUME NEW d \in Lane, Starts(d) PROVE disk' = disk
      BY <3>1, <1>1, StartIs DEF Begins, files
    <3>2. ASSUME NEW d \in Lane, Steps(d) PROVE disk' = disk
      <4>1. StepKinds(d)
        BY <1>1, <3>2, Kinds
      <4>2. ~Same
        BY <1>1 DEF Same
      <4> QED BY <4>1, <4>2 DEF StepKinds, Returns
    <3> QED BY <1>1, <3>1, <3>2 DEF Next, Load, Crash, vars, files
  <2>2. Present \cap Key \subseteq Undone(c) \cup call[c].raced
    BY <1>1 DEF PurgeInv
  <2>3. Undone(c) = {}
    <3>1. call[c].st = None /\ c \in Lane
      BY <1>1 DEF Finished, Purging, Busy
    <3> QED BY <3>1, ToDoIs DEF Undone
  <2> QED BY <2>1, <2>2, <2>3 DEF Present
<1>2. Typed /\ PurgeInv /\ [Next]_vars =>
        [\A c \in Purging :
           call'[c] = Idle /\ auth /\ ~auth' /\ call[c].told = "none" /\ Finished(c) =>
             Present' \cap Key \subseteq call[c].raced]_vars
  BY <1>1
<1> QED BY <1>2, AlwaysTyped, AlwaysPurge, PTL DEF Spec, PurgeIsComplete

-----------------------------------------------------------------------------
(* How a write, or the deletes after it, go on                               *)

LEMMA OwnKinds ==
  ASSUME Typed, NEW c \in Lane, StepKinds(c), Phase(c) \in {"write", "delete"}, Op(c) # "wipe",
         call'[c] # Idle
  PROVE  LET n == call'[c]
         IN /\ n.drops = call[c].drops
            /\ \/ \E g \in SUBSET Key : /\ Lands(c, g) /\ n.phase = "write" /\ n.told = call[c].told
                                        /\ DOMAIN n.st = Undone(c) \ g
               \/ \E g \in SUBSET Key : Drops(c, g) /\ n.phase = "delete" /\ n.told = call[c].told
               \/ \E k \in Undone(c) : /\ n.phase = Phase(c) /\ n.told = "failed" /\ disk' = disk
                                      /\ DOMAIN n.st = Undone(c) \ {k}
               \/ /\ Phase(c) = "write" /\ n.phase = "write" /\ n.told = call[c].told /\ disk' = disk
                  /\ DOMAIN n.st = Undone(c)
               \/ Turns(c) /\ n.phase = "delete" /\ n.told = call[c].told
<1>1. /\ CallsOK /\ call[c].st \in ToDo /\ call[c].drops \in SUBSET Key /\ Undone(c) \in SUBSET Key
      /\ call[c].told \in {"none", "failed"} /\ Phase(c) \in Phases
  BY CallFacts DEF Typed
<1>2. ASSUME NEW ph \in Phases, NEW ds \in SUBSET Key, NEW s \in ToDo, NEW t \in {"none", "failed"},
             Goes(c, ph, ds, s, t)
      PROVE  call'[c].phase = ph /\ call'[c].st = s /\ call'[c].told = t /\ call'[c].drops = ds
  <2>1. CallsOK
    BY <1>1
  <2> QED BY <2>1, <1>2, GoesIs
<1>3. \A g : Without(c, g) \in ToDo /\ DOMAIN Without(c, g) = Undone(c) \ g
  BY <1>1, WithoutIs DEF Undone
<1>4. ASSUME NEW g \in SUBSET Key, Lands(c, g)
      PROVE  /\ call'[c].phase = "write" /\ call'[c].told = call[c].told /\ DOMAIN call'[c].st = Undone(c) \ g
             /\ call'[c].drops = call[c].drops
  <2>1. Goes(c, "write", call[c].drops, Without(c, g), call[c].told) /\ "write" \in Phases
    BY <1>4 DEF Lands, Phases
  <2>2. Without(c, g) \in ToDo
    BY <1>3
  <2>3. /\ call'[c].phase = "write" /\ call'[c].st = Without(c, g) /\ call'[c].told = call[c].told
        /\ call'[c].drops = call[c].drops
    BY <1>1, <1>2, <2>1, <2>2
  <2> QED BY <1>3, <2>3
<1>5. ASSUME NEW g \in SUBSET Key, Drops(c, g)
      PROVE  call'[c].phase = "delete" /\ call'[c].told = call[c].told /\ call'[c].drops = call[c].drops
  <2>1. Goes(c, Phase(c), call[c].drops, Without(c, g), call[c].told) /\ Phase(c) = "delete"
    BY <1>5 DEF Drops
  <2> QED BY <1>1, <1>2, <1>3, <2>1
<1>6. ASSUME NEW k \in Key, Misses(c, k)
      PROVE  /\ k \in Undone(c) /\ call'[c].phase = Phase(c) /\ call'[c].told = "failed" /\ disk' = disk
             /\ DOMAIN call'[c].st = Undone(c) \ {k} /\ call'[c].drops = call[c].drops
  <2>1. /\ Goes(c, Phase(c), call[c].drops, Without(c, {k}), "failed")
        /\ k \in Undone(c) /\ disk' = disk
    BY <1>6 DEF Misses
  <2> QED BY <1>1, <1>2, <1>3, <2>1
<1>7. ASSUME Works(c)
      PROVE  /\ call'[c].phase = "write" /\ call'[c].told = call[c].told /\ disk' = disk
             /\ DOMAIN call'[c].st = Undone(c) /\ call'[c].drops = call[c].drops /\ Phase(c) = "write"
  <2>1. PICK s \in ToDo : DOMAIN s = Undone(c) /\ Goes(c, "write", call[c].drops, s, call[c].told)
    BY <1>7 DEF Works
  <2>2. disk' = disk /\ "write" \in Phases /\ Phase(c) = "write"
    BY <1>7 DEF Works, Phases
  <2> QED BY <1>1, <1>2, <2>1, <2>2
<1>8. ASSUME Turns(c)
      PROVE  call'[c].phase = "delete" /\ call'[c].told = call[c].told /\ call'[c].drops = call[c].drops
  <2>1. Goes(c, "delete", call[c].drops, Todo(call[c].drops), call[c].told) /\ "delete" \in Phases
    BY <1>8 DEF Turns, Phases
  <2>2. Todo(call[c].drops) \in ToDo
    BY <1>1, TodoIs
  <2> QED BY <1>1, <1>2, <2>1, <2>2
<1>9. ~Clears(c) /\ ~Sweeps(c) /\ \A seen \in SUBSET Key : ~Finds(c, seen)
  BY DEF Clears, Sweeps, Finds
<1>10. ~Fails(c) /\ ~Returns(c)
  BY <1>1, SetIdle DEF Fails, Returns
<1> QED BY <1>4, <1>5, <1>6, <1>7, <1>8, <1>9, <1>10 DEF StepKinds

-----------------------------------------------------------------------------
(* Credentials whose save was confirmed stay                                 *)

\* A save its caller still waits for; the others of its parts may go on anyway.
Awaited(c) == call[c].op = "save" /\ (call[c].told = "none" \/ backend # "file")

AckInv ==
  /\ acked <= disk["creds"]
  /\ Purging # {} => acked = 0 /\ \A c \in Lane : call[c].op = "save" => call[c].raced = Key
  /\ \A c, d \in Lane : Awaited(c) /\ Awaited(d) => c = d
  /\ \A c \in Lane : call[c].op = "save" =>
       /\ call[c].told = "failed" => Undone(c) = {}
       /\ Undone(c) # {} => acked <= call[c].ver
       /\ Undone(c) = {} /\ call[c].told = "none" /\ call[c].raced = {} => call[c].ver <= disk["creds"]

\* Only a save or a purge touches the credentials.
LEMMA CredsChange ==
  ASSUME Typed, NEW c \in Lane, StepKinds(c)
  PROVE  \/ disk'["creds"] = disk["creds"]
         \/ Op(c) = "save" /\ "creds" \in Undone(c) /\ disk'["creds"] = call[c].ver
         \/ Op(c) = "purge" /\ c \in Purging
<1>1. "creds" \in Resident /\ "creds" \in Key /\ "creds" \notin Signal
  BY SignalAssumption DEF Resident, Key
<1>2. Shape(call[c]) /\ Left(call[c])
  BY DEF Typed, CallsOK
<1>3. CASE disk'["creds"] = call[c].ver /\ Phase(c) = "write" /\ "creds" \in Undone(c)
  BY <1>1, <1>2, <1>3, IdleIs DEF Shape, Left, Undone, Op, Phase
<1>4. CASE Phase(c) \in {"delete", "clear"} /\ "creds" \in Undone(c)
  BY <1>1, <1>2, <1>4, IdleIs DEF Shape, Left, Undone, Op, Phase, Purging, Busy
<1>5. CASE Clears(c)
  BY <1>5 DEF Clears, Op, Purging, Busy
<1> QED BY <1>1, <1>3, <1>4, <1>5, Stored

\* A save lands, fails, or takes another step on the way.
LEMMA OwnSave ==
  ASSUME Typed, NEW c \in Lane, StepKinds(c), Op(c) = "save", call'[c] # Idle
  PROVE  LET n == call'[c]
         IN \/ n.told = "failed" /\ DOMAIN n.st = {} /\ disk'["creds"] = disk["creds"]
            \/ n.told = call[c].told /\ DOMAIN n.st = Undone(c) /\ disk'["creds"] = disk["creds"]
            \/ n.told = call[c].told /\ DOMAIN n.st = {} /\ disk'["creds"] = call[c].ver
<1>1. Phase(c) = "write" /\ Undone(c) \subseteq {"creds"}
  BY IdleIs DEF Typed, CallsOK, Shape, Left, Undone, Op, Phase
<1>2. "creds" \in Resident
  BY DEF Resident, Key
<1>3. ASSUME NEW g \in SUBSET Key, Lands(c, g), DOMAIN call'[c].st = Undone(c) \ g
      PROVE  \/ DOMAIN call'[c].st = {} /\ disk'["creds"] = call[c].ver
             \/ DOMAIN call'[c].st = Undone(c) /\ disk'["creds"] = disk["creds"]
  <2>1. g = {} \/ g = {"creds"}
    BY <1>1, <1>3 DEF Lands
  <2> QED BY <1>1, <1>2, <1>3, <2>1 DEF Lands
<1>4. \A g \in SUBSET Key : ~Drops(c, g)
  BY <1>1 DEF Drops
<1>5. ~Turns(c)
  BY DEF Turns
<1>6. ASSUME NEW k \in Undone(c) PROVE Undone(c) \ {k} = {}
  BY <1>1
<1> QED BY <1>1, <1>3, <1>4, <1>5, <1>6, OwnKinds

LEMMA AckStep ==
  ASSUME Typed, AckInv, NEW c \in Lane, StepKinds(c) PROVE AckInv'
<1>1. /\ \A d \in Lane \ {c} : call'[d] = call[d]
      /\ \/ call'[c] = Idle
         \/ /\ call'[c].op = Op(c) /\ call'[c].ver = call[c].ver
            /\ call'[c].raced = call[c].raced /\ call'[c].told \in {call[c].told, "failed"}
      /\ backend' = backend
  BY StepCalls, StepOwn DEF setting
<1>2. \A d \in Lane : call'[d].op # "none" =>
        /\ call[d].op = call'[d].op /\ call'[d] # Idle /\ call'[d].ver = call[d].ver
        /\ call'[d].raced = call[d].raced /\ call'[d].told \in {call[d].told, "failed"}
  BY <1>1, IdleIs DEF Op
<1>3. Busy' \subseteq Busy /\ Purging' = Purging \cap Busy'
  BY <1>2 DEF Busy, Purging
<1>4. \A d \in Lane : Awaited(d)' => Awaited(d)
  <2>1. \A d \in Lane : call[d].told \in {"none", "failed"}
    BY CallFacts DEF Typed
  <2> QED BY <1>1, <1>2, <2>1 DEF Awaited
<1>5. \A d \in Lane : call[d].op = "save" => d \in Busy \ Purging
  BY DEF Busy, Purging
<1>6. acked \in Nat /\ disk["creds"] \in Nat /\ disk'["creds"] \in Nat
      /\ \A d \in Lane : call[d].ver \in Nat /\ call[d].told \in {"none", "failed"}
  <2>1. disk \in [Resident -> 0..MaxVersion] /\ "creds" \in Resident /\ acked \in 0..next /\ next \in 1..MaxVersion
    BY DEF Typed, DataOK, Resident, Key
  <2>2. disk' \in [Resident -> 0..MaxVersion]
    BY DiskType
  <2>3. \A d \in Lane : call[d].ver \in Nat /\ call[d].told \in {"none", "failed"}
    BY CallFacts DEF Typed
  <2> QED BY <2>1, <2>2, <2>3
<1>7. \/ acked' = acked
      \/ /\ Op(c) = "save" /\ call[c].told = "none" /\ call[c].raced = {} /\ acked' = call[c].ver
         /\ Undone(c) = {} /\ disk' = disk /\ call'[c] = Idle
  <2>1. ASSUME Returns(c), acked' # acked
        PROVE  /\ Op(c) = "save" /\ call[c].told = "none" /\ call[c].raced = {} /\ acked' = call[c].ver
               /\ Undone(c) = {} /\ disk' = disk /\ call'[c] = Idle
    <3>1. call[c].st = None /\ Set(c, Idle) /\ disk' = disk
      BY <2>1 DEF Returns, Finished
    <3>2. Undone(c) = {} /\ call'[c] = Idle
      BY <3>1, ToDoIs, SetIdle DEF Undone, Typed
    <3> QED BY <2>1, <3>1, <3>2 DEF Returns
  <2> QED BY <2>1 DEF StepKinds, Same, history
<1>8. "creds" \in Key
  BY DEF Key
<1>9. Purging # {} => acked' = 0
  BY <1>5, <1>7, <1>8 DEF AckInv, Op
<1>10. acked' <= disk'["creds"]
  <2>1. CASE Purging # {}
    BY <1>6, <1>9, <2>1
  <2>2. CASE Purging = {} /\ acked' = acked
    BY <1>6, <2>2, CredsChange DEF AckInv, Op
  <2>3. CASE acked' # acked
    BY <1>6, <1>7, <2>3 DEF AckInv, Op
  <2> QED BY <2>1, <2>2, <2>3
<1>11. Purging' # {} => acked' = 0 /\ \A d \in Lane : call'[d].op = "save" => call'[d].raced = Key
  BY <1>2, <1>3, <1>9 DEF AckInv
<1>12. \A d, e \in Lane : Awaited(d)' /\ Awaited(e)' => d = e
  BY <1>4 DEF AckInv
<1>13. ASSUME NEW d \in Lane, call'[d].op = "save"
       PROVE  /\ call'[d].told = "failed" => DOMAIN call'[d].st = {}
              /\ DOMAIN call'[d].st # {} => acked' <= call'[d].ver
              /\ DOMAIN call'[d].st = {} /\ call'[d].told = "none" /\ call'[d].raced = {} =>
                   call'[d].ver <= disk'["creds"]
  <2>1. call[d].op = "save" /\ call'[d] # Idle /\ d \in Busy \ Purging
    BY <1>2, <1>5, <1>13
  <2>2. Purging # {} => call[d].raced # {}
    BY <1>8, <2>1 DEF AckInv
  <2>3. CASE d = c
    <3>1. acked' = acked
      BY <1>7, <2>1, <2>3
    <3> QED BY <1>2, <1>6, <1>13, <2>1, <2>3, <3>1, OwnSave DEF AckInv, Op, Undone
  <2>4. CASE d # c
    <3>1. call'[d] = call[d]
      BY <1>1, <2>4
    <3>2. call[d].told = "none" => Awaited(d)
      BY <2>1 DEF Awaited
    <3>3. Undone(d) # {} => call[d].told = "none"
      BY <1>6, <2>1 DEF AckInv
    <3>4. Undone(d) # {} => acked' <= call[d].ver
      <4>1. ASSUME acked' # acked PROVE Awaited(c)
        BY <1>7, <4>1 DEF Awaited, Op
      <4> QED BY <2>1, <2>4, <3>2, <3>3, <4>1 DEF AckInv
    <3>5. ASSUME Undone(d) = {}, call[d].told = "none", call[d].raced = {}
          PROVE  call[d].ver <= disk'["creds"]
      <4>1. Purging = {} /\ Awaited(d)
        BY <2>2, <3>2, <3>5
      <4>2. ASSUME Op(c) = "save", Undone(c) # {} PROVE FALSE
        <5>1. Awaited(c)
          BY <1>6, <4>2 DEF AckInv, Awaited, Op
        <5> QED BY <2>4, <4>1, <5>1 DEF AckInv
      <4>3. disk'["creds"] = disk["creds"]
        BY <4>1, <4>2, CredsChange
      <4> QED BY <2>1, <3>5, <4>3 DEF AckInv
    <3>6. call[d].told = "failed" => Undone(d) = {}
      BY <2>1 DEF AckInv
    <3> QED BY <3>1, <3>4, <3>5, <3>6 DEF Undone
  <2> QED BY <2>3, <2>4
<1> QED BY <1>10, <1>11, <1>12, <1>13 DEF AckInv, Undone

LEMMA AckBegin ==
  ASSUME ~Overlapping, Typed, AckInv, NEW c \in Lane, NEW r \in CallRecord, Begins(c, r) PROVE AckInv'
<1>1. /\ Begin(c, r) /\ r.op # "none" /\ r.told = "none" /\ Shape(r) /\ disk' = disk /\ backend' = backend
  BY DEF Begins, files, setting
<1>2. /\ call[c].op = "none" /\ Alike(call'[c], r)
      /\ \A d \in Lane \ {c} : Alike(call'[d], call[d])
      /\ r.op = "purge" => \A d \in Busy : call[d].op = "save" => call'[d].raced = Key
      /\ r.op # "purge" =>
           /\ r.op = "save" /\ Purging # {} => call'[c].raced = Key
           /\ \A d \in Lane \ (Purging \cup {c}) : call'[d] = call[d]
  BY <1>1, BeginIs DEF Typed
<1>3. \A d \in Busy' \ {c} : d \in Busy /\ (d \in Purging' <=> d \in Purging)
  BY <1>2 DEF Busy, Purging, Alike
<1>4. acked \in Nat /\ disk["creds"] \in Nat /\ next \in Nat /\ acked <= next
  <2>1. disk \in [Resident -> 0..MaxVersion] /\ "creds" \in Resident /\ acked \in 0..next /\ next \in 1..MaxVersion
    BY DEF Typed, DataOK, Resident, Key
  <2> QED BY <2>1
<1>5. Key # {}
  BY DEF Key
<1>6. \A d \in Lane \ {c} : Awaited(d)' => Awaited(d)
  BY <1>1, <1>2 DEF Awaited, Alike
<1>7. ASSUME NEW d \in Lane \ {c}, Awaited(c)' PROVE ~Awaited(d)
  <2>1. r.op = "save"
    BY <1>2, <1>7 DEF Awaited, Alike
  <2>2. ~Waiting("save")
    BY <2>1 DEF Begins
  <2> QED BY <2>2 DEF Waiting, Awaited, Busy
<1>8. \A d, e \in Lane : Awaited(d)' /\ Awaited(e)' => d = e
  BY <1>6, <1>7 DEF AckInv
<1>9. CASE r.op = "purge"
  <2>1. acked' = 0
    BY <1>9 DEF Begins, Absent
  <2>2. ASSUME NEW d \in Lane, call'[d].op = "save" PROVE call'[d].raced = Key
    <3>1. d # c
      BY <1>2, <1>9, <2>2 DEF Alike
    <3>2. call[d].op = "save" /\ d \in Busy
      BY <1>2, <2>2, <3>1 DEF Alike, Busy
    <3> QED BY <1>2, <1>9, <3>2
  <2>3. ASSUME NEW d \in Lane, call'[d].op = "save"
        PROVE  /\ call'[d].told = "failed" => DOMAIN call'[d].st = {}
               /\ call'[d].raced = Key /\ call'[d].ver \in Nat
    <3>1. d # c
      BY <1>2, <1>9, <2>3 DEF Alike
    <3>2. Alike(call'[d], call[d]) /\ call[d].op = "save" /\ call[d].ver \in Nat
      BY <1>2, <2>3, <3>1, CallFacts DEF Alike, Typed
    <3> QED BY <2>2, <2>3, <3>2 DEF AckInv, Alike, Undone
  <2> QED BY <1>1, <1>4, <1>5, <1>8, <2>1, <2>2, <2>3 DEF AckInv, Undone
<1>10. CASE r.op # "purge"
  <2>1. acked' = acked
    <3>1. r.phase \in {"write", "delete", "list"} /\ (r.phase = "list" => r.op = "wipe")
      BY <1>1, <1>10, IdleIs DEF Shape
    <3> QED BY <3>1 DEF Begins
  <2>2. c \notin Purging' /\ Purging' \subseteq Purging
    BY <1>2, <1>3, <1>10 DEF Busy, Purging, Alike
  <2>3. Purging' # {} => acked' = 0 /\ \A d \in Lane : call'[d].op = "save" => call'[d].raced = Key
    <3> SUFFICES ASSUME Purging' # {}, NEW d \in Lane, call'[d].op = "save"
                 PROVE  acked' = 0 /\ call'[d].raced = Key
      BY <2>1, <2>2 DEF AckInv
    <3>1. Purging # {} /\ acked' = 0
      BY <2>1, <2>2 DEF AckInv
    <3>2. CASE d = c
      <4>1. r.op = "save"
        BY <1>2, <3>2 DEF Alike
      <4> QED BY <1>2, <1>10, <3>1, <3>2, <4>1
    <3>3. CASE d # c
      <4>1. call[d].op = "save" /\ d \notin Purging
        BY <1>2, <3>3 DEF Alike, Purging
      <4>2. call'[d] = call[d]
        BY <1>2, <1>10, <3>3, <4>1
      <4> QED BY <3>1, <4>1, <4>2 DEF AckInv
    <3> QED BY <3>2, <3>3
  <2>4. ASSUME NEW d \in Lane, call'[d].op = "save"
        PROVE  /\ call'[d].told = "failed" => DOMAIN call'[d].st = {}
               /\ DOMAIN call'[d].st # {} => acked' <= call'[d].ver
               /\ DOMAIN call'[d].st = {} /\ call'[d].told = "none" /\ call'[d].raced = {} =>
                    call'[d].ver <= disk'["creds"]
    <3>1. CASE d = c
      <4>1. r.op = "save" /\ r.phase = "write" /\ r.puts = {"creds"}
        BY <1>1, <1>2, <2>4, <3>1, IdleIs DEF Alike, Shape
      <4>2. r.ver = next + 1 /\ DOMAIN r.st # {} /\ r.told = "none"
        BY <4>1 DEF Begins
      <4> QED BY <1>2, <1>4, <2>1, <3>1, <4>2 DEF Alike
    <3>2. CASE d # c
      <4>1. call[d].op = "save" /\ d \notin Purging
        BY <1>2, <2>4, <3>2 DEF Alike, Purging
      <4>2. call'[d] = call[d]
        BY <1>2, <1>10, <3>2, <4>1
      <4> QED BY <1>1, <2>1, <4>1, <4>2 DEF AckInv, Undone
    <3> QED BY <3>1, <3>2
  <2> QED BY <1>1, <1>8, <2>1, <2>3, <2>4 DEF AckInv, Undone
<1> QED BY <1>9, <1>10

LEMMA AckNext == ASSUME ~Overlapping, Typed, AckInv, [Next]_vars PROVE AckInv'
<1>1. ASSUME NEW c \in Lane, Starts(c) PROVE AckInv'
  BY <1>1, StartIs, AckBegin
<1>2. ASSUME NEW c \in Lane, Steps(c) PROVE AckInv'
  BY <1>2, Kinds, AckStep
<1>3. CASE Load \/ UNCHANGED vars
  BY <1>3 DEF Load, vars, files, setting, history, AckInv, Purging, Busy, Awaited, Undone
<1>4. CASE Crash
  <2>1. \A c \in Lane : call'[c].op = "none"
    BY <1>4, IdleIs DEF Crash
  <2>2. disk' = disk /\ acked' = acked
    BY <1>4 DEF Crash, history
  <2> QED BY <2>1, <2>2 DEF AckInv, Purging, Busy, Awaited
<1> QED BY <1>1, <1>2, <1>3, <1>4 DEF Next

\* Credentials whose save was confirmed are there, or newer ones, until a purge:
\* in every adapter, as long as a save does not start while another is under way.
THEOREM CredsSurvive ==
  ASSUME ~Overlapping PROVE Spec => []AckedCredsSurvive
<1>1. Init => AckInv
  <2> SUFFICES ASSUME Init PROVE AckInv
    OBVIOUS
  <2>1. \A c \in Lane : call[c].op = "none"
    BY IdleIs DEF Init
  <2>2. disk["creds"] = 0 /\ acked = 0
    BY SignalAssumption DEF Init, Absent, Resident, Key
  <2> QED BY <2>1, <2>2 DEF AckInv, Purging, Busy, Awaited
<1>2. Typed /\ AckInv /\ [Next]_vars => AckInv'
  BY AckNext
<1>3. Typed /\ TypeOK /\ AckInv => AckedCredsSurvive
  <2>1. Typed => acked \in Nat /\ disk["creds"] \in Nat
    <3> SUFFICES ASSUME Typed PROVE acked \in Nat /\ disk["creds"] \in Nat
      OBVIOUS
    <3>1. disk \in [Resident -> 0..MaxVersion] /\ "creds" \in Resident /\ acked \in 0..next /\ next \in 1..MaxVersion
      BY DEF Typed, DataOK, Resident, Key
    <3> QED BY <3>1
  <2> QED BY <2>1 DEF AckInv, AckedCredsSurvive
<1> QED BY <1>1, <1>2, <1>3, AlwaysTyped, TypeCorrect, PTL DEF Spec

-----------------------------------------------------------------------------
(* A rotation of the Signal keys never leaves the session without one        *)

\* A set that may still delete: one whose writes failed will not.
Live(c) == call[c].op = "set" /\ ~(call[c].phase = "write" /\ call[c].told = "failed")

\* What a set puts is there before it deletes anything, and then it spares a key.
OneIsSpared(c) ==
  call[c].op = "set" =>
    /\ call[c].phase = "write" /\ call[c].told = "none" =>
         \A k \in call[c].puts \ Undone(c) : disk[k] # Absent
    /\ call[c].phase = "delete" => \E k \in Signal \ call[c].drops : disk[k] # Absent

KeyInv ==
  ~wiped =>
    /\ \E k \in Signal : disk[k] # Absent
    /\ \A c, d \in Lane : Live(c) /\ Live(d) => c = d
    /\ \A c \in Lane : call[c].op \notin {"wipe", "purge"} /\ OneIsSpared(c)

\* Short of a reset, a key is lost only to the deletes of a set.
LEMMA KeyLost ==
  ASSUME Typed, NEW c \in Lane, StepKinds(c), Op(c) \notin {"wipe", "purge"},
         NEW k \in Signal, disk[k] # Absent, disk'[k] = Absent
  PROVE  Op(c) = "set" /\ Phase(c) = "delete" /\ k \in call[c].drops
<1>1. k \in Resident /\ k # "meta"
  BY SignalAssumption DEF Resident, Key
<1>2. Phase(c) = "write" => call[c].ver # Absent
  BY DEF Typed, CallsOK, Left, Phase, Absent
<1>3. ~Clears(c)
  BY DEF Clears
<1>4. Phase(c) \in {"delete", "clear"} /\ k \in Undone(c)
  BY <1>1, <1>2, <1>3, Stored
<1>5. Phase(c) = "delete" /\ k \in call[c].drops
  BY <1>4, IdleIs DEF Typed, CallsOK, Shape, Left, Undone, Op, Phase
<1> QED BY <1>1, <1>5, IdleIs DEF Typed, CallsOK, Shape, Op, Phase

\* A set's own step leaves its puts where they are, and adds to them; its
\* deletes begin when all are there, and spare the key they spared before.
LEMMA OwnSet ==
  ASSUME Typed, NEW c \in Lane, StepKinds(c), Op(c) = "set", call'[c] # Idle, OneIsSpared(c)
  PROVE  LET n == call'[c]
         IN /\ n.phase = "write" /\ n.told = "none" =>
                 \A k \in call[c].puts \ DOMAIN n.st : disk'[k] # Absent
            /\ n.phase = "delete" =>
                 Live(c) /\ \E k \in Signal \ call[c].drops : disk'[k] # Absent
            /\ n.phase \in {"write", "delete"} /\ n.drops = call[c].drops
<1>1. /\ Phase(c) \in {"write", "delete"} /\ call[c].puts \cap call[c].drops = {}
      /\ Phase(c) = "write" => call[c].puts # {}
      /\ call[c].puts \subseteq Signal /\ Signal \subseteq Resident /\ Left(call[c])
  BY IdleIs DEF Typed, CallsOK, Shape, Op, Phase, Resident, Key
<1>2. ASSUME NEW g \in SUBSET Key, Lands(c, g), call'[c].phase = "write", call'[c].told = call[c].told,
             DOMAIN call'[c].st = Undone(c) \ g, call'[c].told = "none",
             NEW k \in call[c].puts \ DOMAIN call'[c].st
      PROVE  disk'[k] # Absent
  <2>1. CASE k \in g
    BY <1>1, <1>2, <2>1 DEF Lands, Left, Phase, Absent
  <2>2. CASE k \notin g
    BY <1>1, <1>2, <2>2 DEF Lands, OneIsSpared, Op, Phase
  <2> QED BY <2>1, <2>2
<1>3. ASSUME NEW g \in SUBSET Key, Drops(c, g)
      PROVE  Live(c) /\ \E k \in Signal \ call[c].drops : disk'[k] # Absent
  <2>1. Phase(c) = "delete" /\ g \subseteq call[c].drops
    BY <1>1, <1>3 DEF Drops, Left, Undone, Phase, Op
  <2>2. PICK k \in Signal \ call[c].drops : disk[k] # Absent
    BY <2>1 DEF OneIsSpared, Op, Phase
  <2>3. disk'[k] # Absent
    BY <1>1, <1>3, <2>1, <2>2 DEF Drops
  <2> QED BY <2>1, <2>3 DEF Live, Op, Phase
<1>4. ASSUME Turns(c)
      PROVE  Live(c) /\ \E k \in Signal \ call[c].drops : disk'[k] # Absent
  <2>1. Phase(c) = "write" /\ call[c].told = "none" /\ call[c].st = None /\ disk' = disk
    BY <1>4 DEF Turns
  <2>2. Undone(c) = {}
    BY <2>1, ToDoIs DEF Undone
  <2>3. PICK k \in call[c].puts : k \in Signal \ call[c].drops
    BY <1>1, <2>1
  <2>4. disk'[k] # Absent
    BY <2>1, <2>2, <2>3 DEF OneIsSpared, Op, Phase
  <2> QED BY <2>1, <2>3, <2>4 DEF Live, Op
<1>5. ASSUME NEW k \in Undone(c), call'[c].phase = Phase(c), disk' = disk, call'[c].phase = "delete"
      PROVE  Live(c) /\ \E j \in Signal \ call[c].drops : disk'[j] # Absent
  BY <1>5 DEF OneIsSpared, Live, Op, Phase
<1>6. ASSUME call'[c].phase = "write", call'[c].told = call[c].told, disk' = disk,
             DOMAIN call'[c].st = Undone(c), call'[c].told = "none", Phase(c) = "write",
             NEW k \in call[c].puts \ DOMAIN call'[c].st
      PROVE  disk'[k] # Absent
  BY <1>6 DEF OneIsSpared, Op, Phase
<1> DEFINE Kept == call'[c].phase = "write" /\ call'[c].told = "none" =>
                     \A k \in call[c].puts \ DOMAIN call'[c].st : disk'[k] # Absent
           Spares == call'[c].phase = "delete" =>
                       Live(c) /\ \E k \in Signal \ call[c].drops : disk'[k] # Absent
<1>7. Kept /\ Spares
  <2>1. CASE \E g \in SUBSET Key : Lands(c, g) /\ call'[c].phase = "write" /\ call'[c].told = call[c].told
                                   /\ DOMAIN call'[c].st = Undone(c) \ g
    <3>1. PICK g \in SUBSET Key : Lands(c, g) /\ call'[c].phase = "write" /\ call'[c].told = call[c].told
                                   /\ DOMAIN call'[c].st = Undone(c) \ g
      BY <2>1
    <3>2. ASSUME call'[c].told = "none", NEW k \in call[c].puts \ DOMAIN call'[c].st PROVE disk'[k] # Absent
      BY <1>2, <3>1, <3>2
    <3> QED BY <3>1, <3>2
  <2>2. CASE \E g \in SUBSET Key : Drops(c, g) /\ call'[c].phase = "delete" /\ call'[c].told = call[c].told
    <3>1. PICK g \in SUBSET Key : Drops(c, g) /\ call'[c].phase = "delete"
      BY <2>2
    <3>2. Live(c) /\ \E k \in Signal \ call[c].drops : disk'[k] # Absent
      BY <1>3, <3>1
    <3> QED BY <3>1, <3>2
  <2>3. CASE \E k \in Undone(c) : /\ call'[c].phase = Phase(c) /\ call'[c].told = "failed" /\ disk' = disk
                                 /\ DOMAIN call'[c].st = Undone(c) \ {k}
    <3>1. PICK k \in Undone(c) : call'[c].phase = Phase(c) /\ call'[c].told = "failed" /\ disk' = disk
      BY <2>3
    <3>2. ASSUME call'[c].phase = "delete" PROVE Live(c) /\ \E q \in Signal \ call[c].drops : disk'[q] # Absent
      BY <1>5, <3>1, <3>2
    <3> QED BY <3>1, <3>2
  <2>4. CASE /\ Phase(c) = "write" /\ call'[c].phase = "write" /\ call'[c].told = call[c].told
             /\ disk' = disk /\ DOMAIN call'[c].st = Undone(c)
    <3>1. ASSUME call'[c].told = "none", NEW k \in call[c].puts \ DOMAIN call'[c].st PROVE disk'[k] # Absent
      BY <1>6, <2>4, <3>1
    <3> QED BY <2>4, <3>1
  <2>5. CASE Turns(c) /\ call'[c].phase = "delete" /\ call'[c].told = call[c].told
    <3>1. Live(c) /\ \E k \in Signal \ call[c].drops : disk'[k] # Absent
      BY <1>4, <2>5
    <3> QED BY <2>5, <3>1
  <2> HIDE DEF Kept, Spares
  <2> QED BY <1>1, <2>1, <2>2, <2>3, <2>4, <2>5, OwnKinds
<1>8. call'[c].phase \in {"write", "delete"} /\ call'[c].drops = call[c].drops
  BY <1>1, OwnKinds
<1> QED BY <1>7, <1>8

LEMMA KeyStep ==
  ASSUME Typed, KeyInv, NEW c \in Lane, StepKinds(c) PROVE KeyInv'
<1>1. /\ \A d \in Lane \ {c} : call'[d] = call[d]
      /\ \/ call'[c] = Idle
         \/ /\ call'[c].op = Op(c) /\ call'[c].puts = call[c].puts
            /\ call'[c].told \in {call[c].told, "failed"}
  BY StepCalls, StepOwn
<1>2. \A d \in Lane : call'[d].op # "none" =>
        call[d].op = call'[d].op /\ call'[d] # Idle /\ call'[d].puts = call[d].puts
  BY <1>1, IdleIs DEF Op
<1>3. wiped' = wiped
  BY DEF StepKinds, Same, Returns, history
<1> SUFFICES ASSUME ~wiped
             PROVE  /\ \E k \in Signal : disk'[k] # Absent
                    /\ \A d, e \in Lane : Live(d)' /\ Live(e)' => d = e
                    /\ \A d \in Lane : call'[d].op \notin {"wipe", "purge"} /\ OneIsSpared(d)'
  BY <1>3 DEF KeyInv
<1>4. /\ \E k \in Signal : disk[k] # Absent
      /\ \A d, e \in Lane : Live(d) /\ Live(e) => d = e
      /\ \A d \in Lane : call[d].op \notin {"wipe", "purge"} /\ OneIsSpared(d)
  BY DEF KeyInv
<1>5. \A k \in Signal : disk[k] # Absent /\ disk'[k] = Absent =>
        Op(c) = "set" /\ Phase(c) = "delete" /\ k \in call[c].drops
  BY <1>4, KeyLost DEF Op
<1>6. \E k \in Signal : disk'[k] # Absent
  <2>1. CASE Op(c) = "set" /\ Phase(c) = "delete"
    <3>1. PICK k \in Signal \ call[c].drops : disk[k] # Absent
      BY <1>4, <2>1 DEF OneIsSpared, Op, Phase
    <3> QED BY <1>5, <3>1
  <2>2. CASE ~(Op(c) = "set" /\ Phase(c) = "delete")
    BY <1>4, <1>5, <2>2
  <2> QED BY <2>1, <2>2
<1>7. ASSUME call'[c].op = "set"
      PROVE  Live(c)' => Live(c)
  <2>1. Op(c) = "set" /\ call'[c] # Idle
    BY <1>2, <1>7 DEF Op
  <2>2. Phase(c) \in {"write", "delete"} /\ call[c].told \in {"none", "failed"}
    BY <2>1, IdleIs, CallFacts DEF Typed, CallsOK, Shape, Op, Phase
  <2>3. (call'[c].phase = "delete" => Live(c)) /\ call'[c].phase \in {"write", "delete"}
    BY <1>4, <2>1, OwnSet
  <2>4. call[c].op = "set"
    BY <2>1 DEF Op
  <2>5. call'[c].phase = "write" /\ call'[c].told # "failed" => call[c].told = "none"
    BY <1>1, <2>1, <2>2
  <2> QED BY <2>1, <2>3, <2>4, <2>5 DEF Live, Op
<1>8. \A d \in Lane : Live(d)' => Live(d)
  BY <1>1, <1>7 DEF Live
<1>9. \A d, e \in Lane : Live(d)' /\ Live(e)' => d = e
  BY <1>4, <1>8
<1>10. ASSUME NEW d \in Lane PROVE call'[d].op \notin {"wipe", "purge"} /\ OneIsSpared(d)'
  <2>1. call'[d].op \notin {"wipe", "purge"}
    BY <1>2, <1>4
  <2>2. ASSUME call'[d].op = "set" PROVE OneIsSpared(d)'
    <3>1. call[d].op = "set" /\ call'[d] # Idle /\ call'[d].puts = call[d].puts
      BY <1>2, <2>2
    <3>2. CASE d = c
      <4>1. call'[c].drops = call[c].drops
        BY <1>4, <3>1, <3>2, OwnSet DEF Op
      <4>2. /\ call'[c].phase = "write" /\ call'[c].told = "none" =>
                 \A k \in call[c].puts \ DOMAIN call'[c].st : disk'[k] # Absent
            /\ call'[c].phase = "delete" => \E k \in Signal \ call[c].drops : disk'[k] # Absent
        BY <1>4, <3>1, <3>2, OwnSet DEF Op
      <4> QED BY <3>1, <3>2, <4>1, <4>2 DEF OneIsSpared, Undone
    <3>3. CASE d # c /\ Live(d)
      <4>1. ~(Op(c) = "set" /\ Phase(c) = "delete")
        BY <1>4, <3>3 DEF Live, Op, Phase
      <4>2. call[d].puts \subseteq Signal
        BY <3>1, IdleIs DEF Typed, CallsOK, Shape
      <4>3. \A k \in Signal : disk[k] # Absent => disk'[k] # Absent
        BY <1>5, <4>1
      <4>4. call'[d] = call[d] /\ OneIsSpared(d)
        BY <1>1, <1>4, <3>3
      <4> QED BY <4>2, <4>3, <4>4 DEF OneIsSpared, Undone
    <3>4. CASE d # c /\ ~Live(d)
      <4>1. call'[d] = call[d]
        BY <1>1, <3>4
      <4> QED BY <3>1, <3>4, <4>1 DEF Live, OneIsSpared
    <3> QED BY <3>2, <3>3, <3>4
  <2>3. call'[d].op # "set" => OneIsSpared(d)'
    BY DEF OneIsSpared
  <2> QED BY <2>1, <2>2, <2>3
<1> QED BY <1>6, <1>9, <1>10

LEMMA KeyBegin ==
  ASSUME Typed, KeyInv, NEW c \in Lane, NEW r \in CallRecord, Begins(c, r)
  PROVE  KeyInv'
<1>1. /\ Begin(c, r) /\ r.op # "none" /\ Shape(r) /\ disk' = disk
  BY DEF Begins, files
<1>2. /\ Alike(call'[c], r) /\ \A d \in Lane \ {c} : Alike(call'[d], call[d])
  BY <1>1, BeginIs DEF Typed
<1> SUFFICES ASSUME ~wiped'
             PROVE  /\ \E k \in Signal : disk'[k] # Absent
                    /\ \A d, e \in Lane : Live(d)' /\ Live(e)' => d = e
                    /\ \A d \in Lane : call'[d].op \notin {"wipe", "purge"} /\ OneIsSpared(d)'
  BY DEF KeyInv
<1>3. ~wiped /\ r.op \notin {"wipe", "purge"}
  <2>1. r.phase # "list"
    BY DEF Begins
  <2>2. ~wiped
    <3>1. wiped' = wiped \/ wiped' = TRUE
      BY <2>1 DEF Begins
    <3> QED BY <3>1
  <2>3. r.op \notin {"wipe", "purge"}
    BY <2>1 DEF Begins
  <2> QED BY <2>2, <2>3
<1>4. /\ \E k \in Signal : disk[k] # Absent
      /\ \A d, e \in Lane : Live(d) /\ Live(e) => d = e
      /\ \A d \in Lane : call[d].op \notin {"wipe", "purge"} /\ OneIsSpared(d)
  BY <1>3 DEF KeyInv
<1>5. ASSUME r.op = "set", NEW d \in Lane \ {c} PROVE ~Live(d)
  <2>1. ~Waiting("set") /\ ~Straying
    BY <1>5 DEF Begins
  <2>2. ASSUME call[d].op = "set" PROVE call[d].told = "failed" /\ call[d].phase = "write"
    <3>1. d \in Busy
      BY <2>2 DEF Busy
    <3>2. call[d].phase \in {"write", "delete"} /\ call[d].told \in {"none", "failed"}
      BY <2>2, IdleIs, CallFacts DEF Typed, CallsOK, Shape
    <3> QED BY <2>1, <2>2, <3>1, <3>2 DEF Waiting, Straying
  <2> QED BY <2>2 DEF Live
<1>6. \A d \in Lane \ {c} : Live(d)' => Live(d)
  BY <1>2 DEF Live, Alike
<1>7. Live(c)' => r.op = "set"
  BY <1>2 DEF Live, Alike
<1>8. \A d, e \in Lane : Live(d)' /\ Live(e)' => d = e
  BY <1>4, <1>5, <1>6, <1>7
<1>9. OneIsSpared(c)'
  <2>1. r.op = "set" /\ r.phase = "write" => DOMAIN r.st = r.puts
    BY DEF Begins
  <2>2. r.op = "set" /\ r.phase = "delete" => \E k \in Signal \ r.drops : disk[k] # Absent
    BY DEF Begins
  <2> QED BY <1>1, <1>2, <2>1, <2>2 DEF OneIsSpared, Alike, Undone
<1>10. \A d \in Lane \ {c} : OneIsSpared(d)'
  BY <1>1, <1>2, <1>4 DEF OneIsSpared, Alike, Undone
<1>11. \A d \in Lane : call'[d].op \notin {"wipe", "purge"}
  BY <1>2, <1>3, <1>4 DEF Alike
<1> QED BY <1>1, <1>4, <1>8, <1>9, <1>10, <1>11

LEMMA KeyNext ==
  ASSUME Typed, KeyInv, [Next]_vars PROVE KeyInv'
<1>1. ASSUME NEW c \in Lane, Starts(c) PROVE KeyInv'
  BY <1>1, StartIs, KeyBegin
<1>2. ASSUME NEW c \in Lane, Steps(c) PROVE KeyInv'
  BY <1>2, Kinds, KeyStep
<1>3. CASE Load \/ UNCHANGED vars
  BY <1>3 DEF Load, vars, files, history, KeyInv, Live, OneIsSpared, Undone
<1>4. CASE Crash
  <2>1. \A c \in Lane : call'[c].op = "none"
    BY <1>4, IdleIs DEF Crash
  <2>2. disk' = disk /\ wiped' = wiped
    BY <1>4 DEF Crash, history
  <2> QED BY <2>1, <2>2 DEF KeyInv, Live, OneIsSpared
<1> QED BY <1>1, <1>2, <1>3, <1>4 DEF Next

\* However a rotation fails, and whenever the process dies, a session that had
\* Signal keys has one, until they are dropped on purpose or, in the file adapter
\* alone, a set begins behind which unlinks of one that failed still go on.
THEOREM KeysSurvive ==
  ASSUME Signal # {} PROVE Spec => []SomeKeySurvives
<1>1. Init => KeyInv
  <2> SUFFICES ASSUME Init PROVE KeyInv
    OBVIOUS
  <2>1. \A c \in Lane : call[c].op = "none"
    BY IdleIs DEF Init
  <2>2. \A k \in Signal : disk[k] # Absent
    BY SignalAssumption DEF Init, Absent, Resident, Key, Holds
  <2> QED BY <2>1, <2>2 DEF KeyInv, Live, OneIsSpared
<1>2. Typed /\ KeyInv /\ [Next]_vars => KeyInv'
  BY KeyNext
<1>3. KeyInv => SomeKeySurvives
  BY DEF KeyInv, SomeKeySurvives
<1> QED BY <1>1, <1>2, <1>3, AlwaysTyped, PTL DEF Spec

-----------------------------------------------------------------------------
(* What discovery finds is what has data                                     *)

\* The names mean to the adapter what they meant at first.
Fixed == backend \in Backend /\ naming = Naming(backend)

LEMMA SettingStays == ASSUME [Next]_vars PROVE UNCHANGED setting
<1>1. ASSUME NEW c \in Lane, Starts(c) PROVE UNCHANGED setting
  BY <1>1 DEF Starts, SaveCreds, WriteMeta, RemoveMeta, ClearKeys, Purge, SetKeys, DropKeys
<1>2. ASSUME NEW c \in Lane, Steps(c) PROVE UNCHANGED setting
  <2>1. ASSUME NEW g, Land(c, g) \/ Delete(c, g) PROVE UNCHANGED setting
    BY <2>1 DEF Land, Delete
  <2>2. ASSUME NEW k, MakeDir(c, k) \/ OpenTemp(c, k) \/ Rename(c, k) \/ PartFails(c, k)
        PROVE  UNCHANGED setting
    BY <2>2 DEF MakeDir, OpenTemp, Rename, PartFails
  <2>3. ASSUME NEW left, RemoveDir(c, left) PROVE UNCHANGED setting
    BY <2>3 DEF RemoveDir
  <2>4. ASSUME ClearAtOnce(c) \/ List(c) \/ Fail(c) \/ Return(c) PROVE UNCHANGED setting
    BY <2>4 DEF ClearAtOnce, List, Fail, Return
  <2> QED BY <1>2, <2>1, <2>2, <2>3, <2>4 DEF Steps
<1>3. CASE Load \/ Crash \/ UNCHANGED vars
  BY <1>3 DEF Load, Crash, vars
<1> QED BY <1>1, <1>2, <1>3 DEF Next

\* discover() and load() find the sessions that have data and no others, and no
\* read of the names takes one key for another: for any ids, any Signal keys and
\* names of them and every adapter, unless the locks of Redis are kept under the
\* namespace's own prefix, as they are by default.
THEOREM DiscoveryIsTrue ==
  ASSUME "redis" \in Backend => ~IsPrefix(NamespacePrefix, LockPrefix \o LockKey(Session))
  PROVE  Spec => []DiscoveredHaveData
<1>1. Init => Fixed
  BY DEF Init, Fixed
<1>2. Fixed /\ [Next]_vars => Fixed'
  BY SettingStays DEF Fixed, setting, Naming, ReadBack, Full
<1>3. ASSUME Fixed PROVE DiscoveredHaveData
  <2>1. Full("lock") = LockPrefix \o LockKey(Session)
    BY SignalAssumption DEF Full
  <2>2. naming.owner = {<<k, IdOf(k)>> : k \in Named}
    BY <1>3, <2>1, OwnersAre DEF Fixed
  <2>3. Discovered = {IdOf(k) : k \in Named \cap Present}
    <3>1. ASSUME NEW k \in Named \cap Present PROVE IdOf(k) \in Discovered
      <4>1. <<k, IdOf(k)>> \in naming.owner
        BY <2>2, <3>1
      <4> QED BY <3>1, <4>1 DEF Discovered
    <3>2. ASSUME NEW id \in Discovered PROVE \E k \in Named \cap Present : id = IdOf(k)
      <4>1. PICK q \in naming.owner : q[1] \in Present /\ q[2] = id
        BY <3>2 DEF Discovered
      <4>2. PICK k \in Named : q = <<k, IdOf(k)>>
        BY <2>2, <4>1
      <4> QED BY <4>1, <4>2
    <3> QED BY <3>1, <3>2
  <2>4. Session \in Discovered <=> Present \cap Key # {}
    <3>1. ASSUME NEW k \in Named PROVE IdOf(k) = Session <=> k \in Key
      BY IdsAre, SignalAssumption DEF IdOf, Named, Key
    <3>2. \A k \in Key : k \in Named
      BY DEF Named
    <3> QED BY <2>3, <3>1, <3>2
  <2>5. Neighbour \in Discovered <=> "neighbour" \in Present
    BY <2>3, IdsAre, HoldsIs DEF IdOf, Named
  <2>6. Discovered \subseteq {Session, Neighbour}
    BY <2>3 DEF IdOf
  <2>7. WellNamed(naming)
    BY <1>3, NamesTold DEF Fixed
  <2> QED BY <2>4, <2>5, <2>6, <2>7, IdsAre DEF DiscoveredHaveData
<1> QED BY <1>1, <1>2, <1>3, PTL DEF Spec
=============================================================================
