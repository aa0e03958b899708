------------------------------ MODULE DataLemmas ------------------------------
(***************************************************************************)
(* Facts about the operators on data that several models share: induction  *)
(* stated with sets, the elements a filter keeps, and sums over finite     *)
(* sets.  Nothing here is about a particular component.                    *)
(***************************************************************************)
EXTENDS Selection, Integers, SequencesExt, FiniteSetTheorems, NaturalsInduction,
        WellFoundedInduction, SequenceTheorems, TLAPS

LEMMA Least ==
  ASSUME NEW S \in SUBSET Nat, S # {}
  PROVE  \E m \in S : \A n \in S : m <= n
<1>1. PICK m \in S : \A n \in S : <<n, m>> \notin OpToRel(<, Nat)
  BY WFMin, NatLessThanWellFounded
<1>2. ASSUME NEW n \in S, n < m PROVE FALSE
  BY <1>1, <1>2 DEF OpToRel
<1>. QED  BY <1>2

(* Induction: what holds of 0 and of the successor of every number it      *)
(* holds of, holds of every number.                                        *)
LEMMA InductionOverNat ==
  ASSUME NEW S, 0 \in S, \A n \in Nat : n \in S => n + 1 \in S
  PROVE  \A n \in Nat : n \in S
<1>. SUFFICES ASSUME Nat \ S # {} PROVE FALSE
  OBVIOUS
<1>1. PICK m \in Nat \ S : \A n \in Nat \ S : m <= n
  BY Least
<1>2. m - 1 \in Nat /\ m - 1 \in S
  BY <1>1
<1>. QED  BY <1>1, <1>2

-----------------------------------------------------------------------------
(* Selected.                                                               *)
Keeps(kept, s, S) ==
  kept = [i \in 0 .. Len(s) |->
            IF i = 0 THEN <<>>
            ELSE IF s[i] \in S THEN Append(kept[i - 1], s[i]) ELSE kept[i - 1]]

LEMMA KeepsExists ==
  ASSUME NEW T, NEW s \in Seq(T), NEW S
  PROVE  \E kept : Keeps(kept, s, S)
<1> DEFINE Upto(n) ==
  \E kept : kept = [i \in 0 .. n |->
            IF i = 0 THEN <<>>
            ELSE IF s[i] \in S THEN Append(kept[i - 1], s[i]) ELSE kept[i - 1]]
           D == {n \in Nat : Upto(n)}
<1>1. 0 \in D
  <2>1. [i \in 0 .. 0 |-> <<>>] = [i \in 0 .. 0 |->
            IF i = 0 THEN <<>>
            ELSE IF s[i] \in S THEN Append([j \in 0 .. 0 |-> <<>>][i - 1], s[i]) ELSE [j \in 0 .. 0 |-> <<>>][i - 1]]
    OBVIOUS
  <2>. QED  BY <2>1
<1>2. ASSUME NEW n \in Nat, n \in D PROVE n + 1 \in D
  <2>1. PICK k : k = [i \in 0 .. n |->
            IF i = 0 THEN <<>>
            ELSE IF s[i] \in S THEN Append(k[i - 1], s[i]) ELSE k[i - 1]]
    BY <1>2
  <2> DEFINE g == [i \in 0 .. n + 1 |->
            IF i = n + 1 THEN (IF s[i] \in S THEN Append(k[n], s[i]) ELSE k[n]) ELSE k[i]]
  <2>2. ASSUME NEW i \in 0 .. n + 1
        PROVE  g[i] = IF i = 0 THEN <<>>
                      ELSE IF s[i] \in S THEN Append(g[i - 1], s[i]) ELSE g[i - 1]
    <3>1. CASE i = n + 1
      <4>1. g[i] = IF s[i] \in S THEN Append(k[n], s[i]) ELSE k[n]
        BY <3>1
      <4>2. i # 0 /\ g[i - 1] = k[n]
        BY <3>1
      <4> HIDE DEF g
      <4>. QED  BY <4>1, <4>2
    <3>2. CASE i = 0
      <4>1. g[0] = k[0] /\ k[0] = <<>>
        BY <2>1
      <4> HIDE DEF g
      <4>. QED  BY <3>2, <4>1
    <3>3. CASE i \in 1 .. n
      <4>1. g[i] = k[i] /\ g[i - 1] = k[i - 1]
        BY <3>3
      <4>2. k[i] = IF s[i] \in S THEN Append(k[i - 1], s[i]) ELSE k[i - 1]
        <5>1. i \in 0 .. n /\ i # 0
          BY <3>3
        <5>. QED  BY <2>1, <5>1
      <4> HIDE DEF g
      <4>. QED  BY <3>3, <4>1, <4>2
    <3>. QED  BY <3>1, <3>2, <3>3
  <2>3. g = [i \in 0 .. n + 1 |->
              IF i = 0 THEN <<>> ELSE IF s[i] \in S THEN Append(g[i - 1], s[i]) ELSE g[i - 1]]
    <3>1. g = [i \in 0 .. n + 1 |-> g[i]]
      OBVIOUS
    <3> HIDE DEF g
    <3>. QED  BY <2>2, <3>1
  <2> HIDE DEF g
  <2>. QED  BY <2>3
<1> HIDE DEF D
<1>3. Len(s) \in D
  BY <1>1, <1>2, InductionOverNat
<1>. QED  BY <1>3 DEF D, Keeps

LEMMA SelectedKeeps ==
  ASSUME NEW T, NEW s \in Seq(T), NEW S
  PROVE  \E kept : Keeps(kept, s, S) /\ Selected(s, S) = kept[Len(s)]
<1> DEFINE f == CHOOSE kept : Keeps(kept, s, S)
<1>1. Keeps(f, s, S)
  BY KeepsExists
<1>2. Selected(s, S) = f[Len(s)]
  BY DEF Selected, Keeps
<1>. QED  BY <1>1, <1>2

LEMMA KeepsStep ==
  ASSUME NEW f, NEW s, NEW S, Keeps(f, s, S), NEW m \in Nat, Len(s) \in Nat, m + 1 <= Len(s)
  PROVE  f[m + 1] = IF s[m + 1] \in S THEN Append(f[m], s[m + 1]) ELSE f[m]
<1>1. m + 1 \in 0 .. Len(s) /\ m + 1 # 0 /\ m + 1 - 1 = m
  OBVIOUS
<1>2. \A i \in 0 .. Len(s) :
        f[i] = IF i = 0 THEN <<>>
               ELSE IF s[i] \in S THEN Append(f[i - 1], s[i]) ELSE f[i - 1]
  BY DEF Keeps
<1>3. ASSUME NEW i \in 0 .. Len(s), i # 0, i - 1 = m
      PROVE  f[i] = IF s[i] \in S THEN Append(f[m], s[i]) ELSE f[m]
  <2>1. f[i] = IF s[i] \in S THEN Append(f[i - 1], s[i]) ELSE f[i - 1]
    BY <1>2, <1>3
  <2>. QED  BY <1>3, <2>1
<1>. QED  BY <1>1, <1>3

(* What is kept of a prefix depends on nothing after it.                   *)
LEMMA KeepsAgree ==
  ASSUME NEW T, NEW s \in Seq(T), NEW S, NEW f, Keeps(f, s, S),
         NEW U, NEW r \in Seq(U), NEW R, NEW g, Keeps(g, r, R),
         NEW n \in 0 .. Len(s), n <= Len(r),
         \A i \in 1 .. n : s[i] = r[i] /\ (s[i] \in S <=> r[i] \in R)
  PROVE  f[n] = g[n]
<1> DEFINE D == {m \in Nat : m <= n => f[m] = g[m]}
<1>0. Len(s) \in Nat /\ Len(r) \in Nat /\ n \in Nat
  OBVIOUS
<1>1. 0 \in D
  <2>1. f[0] = <<>> /\ g[0] = <<>>
    BY <1>0 DEF Keeps
  <2>. QED  BY <2>1
<1>2. ASSUME NEW m \in Nat, m \in D PROVE m + 1 \in D
  <2>. SUFFICES ASSUME m + 1 <= n PROVE f[m + 1] = g[m + 1]
    OBVIOUS
  <2>1. f[m] = g[m] /\ m + 1 \in 1 .. n /\ m + 1 \in 0 .. Len(s) /\ m + 1 \in 0 .. Len(r)
    BY <1>0, <1>2
  <2>2. f[m + 1] = IF s[m + 1] \in S THEN Append(f[m], s[m + 1]) ELSE f[m]
    BY <1>0, KeepsStep
  <2>3. g[m + 1] = IF r[m + 1] \in R THEN Append(g[m], r[m + 1]) ELSE g[m]
    BY <1>0, KeepsStep
  <2>. QED  BY <2>1, <2>2, <2>3
<1> HIDE DEF D
<1>3. n \in D
  BY <1>0, <1>1, <1>2, InductionOverNat
<1>. QED  BY <1>3 DEF D

LEMMA SelectedEmpty == ASSUME NEW S PROVE Selected(<<>>, S) = <<>>
<1>1. <<>> \in Seq({})
  OBVIOUS
<1>2. PICK f : Keeps(f, <<>>, S) /\ Selected(<<>>, S) = f[Len(<<>>)]
  BY <1>1, SelectedKeeps
<1>. QED  BY <1>2 DEF Keeps

LEMMA SelectedAppend ==
  ASSUME NEW T, NEW s \in Seq(T), NEW x \in T, NEW S
  PROVE  Selected(Append(s, x), S) = IF x \in S THEN Append(Selected(s, S), x) ELSE Selected(s, S)
<1> DEFINE r == Append(s, x)
<1>1. r \in Seq(T) /\ Len(r) = Len(s) + 1 /\ Len(s) \in Nat /\ r[Len(r)] = x
      /\ \A i \in 1 .. Len(s) : r[i] = s[i]
  BY AppendProperties
<1> HIDE DEF r
<1>2. PICK f : Keeps(f, s, S) /\ Selected(s, S) = f[Len(s)]
  BY SelectedKeeps
<1>3. PICK g : Keeps(g, r, S) /\ Selected(r, S) = g[Len(r)]
  BY <1>1, SelectedKeeps
<1>4. Len(s) \in 0 .. Len(s) /\ Len(s) <= Len(r)
  BY <1>1
<1>5. f[Len(s)] = g[Len(s)]
  BY <1>1, <1>2, <1>3, <1>4, KeepsAgree
<1>6. Len(r) \in 0 .. Len(r) /\ Len(r) # 0 /\ Len(r) - 1 = Len(s)
  BY <1>1
<1>7. g[Len(r)] = IF r[Len(r)] \in S THEN Append(g[Len(s)], r[Len(r)]) ELSE g[Len(s)]
  BY <1>3, <1>6 DEF Keeps
<1>. QED  BY <1>1, <1>2, <1>3, <1>5, <1>7 DEF r

LEMMA SelectedSame ==
  ASSUME NEW T, NEW s \in Seq(T), NEW S, NEW R, \A i \in 1 .. Len(s) : s[i] \in S <=> s[i] \in R
  PROVE  Selected(s, S) = Selected(s, R)
<1>1. PICK f : Keeps(f, s, S) /\ Selected(s, S) = f[Len(s)]
  BY SelectedKeeps
<1>2. PICK g : Keeps(g, s, R) /\ Selected(s, R) = g[Len(s)]
  BY SelectedKeeps
<1>3. Len(s) \in 0 .. Len(s) /\ Len(s) <= Len(s)
  OBVIOUS
<1>4. f[Len(s)] = g[Len(s)]
  BY <1>1, <1>2, <1>3, KeepsAgree
<1>. QED  BY <1>1, <1>2, <1>4

LEMMA SelectedType ==
  ASSUME NEW T, NEW s \in Seq(T), NEW S
  PROVE  Selected(s, S) \in Seq(T \cap S)
<1>1. PICK f : Keeps(f, s, S) /\ Selected(s, S) = f[Len(s)]
  BY SelectedKeeps
<1> DEFINE D == {m \in Nat : m <= Len(s) => f[m] \in Seq(T \cap S)}
<1>0. Len(s) \in Nat /\ \A i \in 1 .. Len(s) : s[i] \in T
  OBVIOUS
<1>2. 0 \in D
  <2>1. f[0] = <<>>
    BY <1>0, <1>1 DEF Keeps
  <2>2. <<>> \in Seq(T \cap S)
    OBVIOUS
  <2>. QED  BY <2>1, <2>2, Zenon
<1>3. ASSUME NEW m \in Nat, m \in D PROVE m + 1 \in D
  <2>. SUFFICES ASSUME m + 1 <= Len(s) PROVE f[m + 1] \in Seq(T \cap S)
    OBVIOUS
  <2>1. f[m] \in Seq(T \cap S) /\ s[m + 1] \in T
    BY <1>0, <1>3
  <2>2. f[m + 1] = IF s[m + 1] \in S THEN Append(f[m], s[m + 1]) ELSE f[m]
    BY <1>0, <1>1, KeepsStep
  <2>. QED  BY <2>1, <2>2
<1> HIDE DEF D
<1>4. Len(s) \in D
  BY <1>0, <1>2, <1>3, InductionOverNat
<1>. QED  BY <1>0, <1>1, <1>4 DEF D

-----------------------------------------------------------------------------
(* Prefixes.                                                               *)
LEMMA PrefixOf ==
  ASSUME NEW S, NEW s \in Seq(S), NEW T, NEW t \in Seq(T)
  PROVE  IsPrefix(s, t) <=> Len(s) <= Len(t) /\ \A i \in 1 .. Len(s) : s[i] = t[i]
<1> DEFINE a == SubSeq(s, 1, Len(s))
           b == SubSeq(t, 1, Len(s))
<1>. SUFFICES ASSUME Len(s) <= Len(t) PROVE a = b <=> \A i \in 1 .. Len(s) : s[i] = t[i]
  BY DEF IsPrefix
<1>1. /\ Len(s) \in Nat /\ Len(t) \in Nat
      /\ \A i \in 1 .. Len(s) : s[i] \in S /\ t[i] \in T
  OBVIOUS
<1>2. a \in Seq(S) /\ Len(a) = Len(s) /\ \A i \in 1 .. Len(s) : a[i] = s[i]
  BY <1>1, SubSeqProperties
<1>3. b \in Seq(T) /\ Len(b) = Len(s) /\ \A i \in 1 .. Len(s) : b[i] = t[i]
  BY <1>1, SubSeqProperties
<1> HIDE DEF a, b
<1>4. ASSUME \A i \in 1 .. Len(s) : s[i] = t[i] PROVE a = b
  <2>1. a \in Seq(S \cup T) /\ b \in Seq(S \cup T)
    BY <1>2, <1>3, SeqMonotonic
  <2>. QED  BY <1>2, <1>3, <1>4, <2>1, SeqEqual
<1>. QED  BY <1>2, <1>3, <1>4

LEMMA PrefixOfAppend ==
  ASSUME NEW S, NEW s \in Seq(S), NEW t \in Seq(S), NEW x \in S, IsPrefix(s, t)
  PROVE  IsPrefix(s, Append(t, x))
<1>1. Append(t, x) \in Seq(S) /\ Len(Append(t, x)) = Len(t) + 1
      /\ \A i \in 1 .. Len(t) : Append(t, x)[i] = t[i]
  BY AppendProperties
<1>2. Len(s) <= Len(t) /\ \A i \in 1 .. Len(s) : s[i] = t[i]
  BY PrefixOf
<1>3. Len(s) \in Nat /\ Len(t) \in Nat
  OBVIOUS
<1>4. Len(s) <= Len(Append(t, x)) /\ \A i \in 1 .. Len(s) : s[i] = Append(t, x)[i]
  BY <1>1, <1>2, <1>3
<1>. QED  BY <1>1, <1>4, PrefixOf

-----------------------------------------------------------------------------
(* Sums over finite sets.                                                  *)
SumOver(q, S) == MapThenSumSet(LAMBDA x : q[x], S)

Pick(s) == CHOOSE x \in s : TRUE
SumsUpto(f, q, S, n) ==
  f = [s \in {t \in SUBSET S : Cardinality(t) <= n} |->
         IF s = {} THEN 0 ELSE q[Pick(s)] + f[s \ {Pick(s)}]]
IsSum(f, q, S) ==
  f = [s \in SUBSET S |-> IF s = {} THEN 0 ELSE q[Pick(s)] + f[s \ {Pick(s)}]]

LEMMA PickIn == ASSUME NEW s, s # {} PROVE Pick(s) \in s
  BY DEF Pick

LEMMA SubsetCard ==
  ASSUME NEW S, IsFiniteSet(S), NEW s \in SUBSET S
  PROVE  /\ IsFiniteSet(s) /\ Cardinality(s) \in Nat /\ Cardinality(s) <= Cardinality(S)
         /\ (s = {} <=> Cardinality(s) = 0)
         /\ \A x \in s : /\ s \ {x} \in SUBSET S /\ IsFiniteSet(s \ {x})
                        /\ Cardinality(s \ {x}) = Cardinality(s) - 1
<1>1. IsFiniteSet(s) /\ Cardinality(s) <= Cardinality(S)
  BY FS_Subset
<1>2. Cardinality(s) \in Nat /\ (s = {} <=> Cardinality(s) = 0)
  BY <1>1, FS_CardinalityType, FS_EmptySet
<1>3. ASSUME NEW x \in s
      PROVE  s \ {x} \in SUBSET S /\ IsFiniteSet(s \ {x}) /\ Cardinality(s \ {x}) = Cardinality(s) - 1
  BY <1>1, FS_RemoveElement
<1>. QED  BY <1>1, <1>2, <1>3

LEMMA SumExists ==
  ASSUME NEW q, NEW S, IsFiniteSet(S)
  PROVE  \E f : IsSum(f, q, S)
<1> DEFINE Small(n) == {t \in SUBSET S : Cardinality(t) <= n}
           D == {n \in Nat : \E f : SumsUpto(f, q, S, n)}
<1>1. 0 \in D
  <2> DEFINE f == [s \in Small(0) |-> 0]
  <2>1. \A s \in Small(0) : s = {}
    BY SubsetCard
  <2>2. f = [s \in Small(0) |-> IF s = {} THEN 0 ELSE q[Pick(s)] + f[s \ {Pick(s)}]]
    BY <2>1
  <2>. QED  BY <2>2 DEF SumsUpto
<1>2. ASSUME NEW n \in Nat, n \in D PROVE n + 1 \in D
  <2>1. PICK f : SumsUpto(f, q, S, n)
    BY <1>2
  <2> DEFINE g == [s \in Small(n + 1) |->
                     IF s \in Small(n) THEN f[s] ELSE q[Pick(s)] + f[s \ {Pick(s)}]]
  <2>2. ASSUME NEW s \in Small(n + 1)
        PROVE  g[s] = IF s = {} THEN 0 ELSE q[Pick(s)] + g[s \ {Pick(s)}]
    <3>1. CASE s = {}
      <4>1. s \in Small(n) /\ s \in Small(n + 1)
        BY <3>1, SubsetCard
      <4>2. g[s] = f[s] /\ f[s] = 0
        BY <2>1, <3>1, <4>1 DEF SumsUpto
      <4>. QED  BY <3>1, <4>2
    <3>2. CASE s # {}
      <4> DEFINE t == s \ {Pick(s)}
      <4>1. Pick(s) \in s
        BY <3>2, PickIn
      <4>2. t \in Small(n) /\ t \in Small(n + 1)
        <5>1. t \in SUBSET S /\ Cardinality(t) = Cardinality(s) - 1 /\ Cardinality(s) \in Nat
          BY <4>1, SubsetCard
        <5>. QED  BY <5>1
      <4>3. g[t] = f[t]
        BY <4>2
      <4>4. g[s] = q[Pick(s)] + f[t]
        <5>1. CASE s \in Small(n)
          <6>1. g[s] = f[s]
            BY <5>1
          <6>2. f[s] = q[Pick(s)] + f[t]
            BY <2>1, <3>2, <5>1 DEF SumsUpto
          <6>. QED  BY <6>1, <6>2
        <5>2. CASE s \notin Small(n)
          BY <5>2
        <5>. QED  BY <5>1, <5>2
      <4> HIDE DEF g, t
      <4>5. g[s] = q[Pick(s)] + g[t]
        BY <4>3, <4>4
      <4>. QED  BY <3>2, <4>5 DEF t
    <3>. QED  BY <3>1, <3>2
  <2>3. g = [s \in Small(n + 1) |-> g[s]]
    OBVIOUS
  <2> HIDE DEF g
  <2>4. g = [s \in Small(n + 1) |-> IF s = {} THEN 0 ELSE q[Pick(s)] + g[s \ {Pick(s)}]]
    BY <2>2, <2>3
  <2>5. SumsUpto(g, q, S, n + 1)
    BY <2>4 DEF SumsUpto
  <2>. QED  BY <2>5
<1>3. Cardinality(S) \in Nat
  BY FS_CardinalityType
<1>4. Cardinality(S) \in D
  <2> HIDE DEF D
  <2>. QED  BY <1>1, <1>2, <1>3, InductionOverNat
<1>5. {t \in SUBSET S : Cardinality(t) <= Cardinality(S)} = SUBSET S
  BY SubsetCard
<1>6. PICK f : SumsUpto(f, q, S, Cardinality(S))
  BY <1>4
<1>7. IsSum(f, q, S)
  BY <1>5, <1>6 DEF SumsUpto, IsSum
<1>. QED  BY <1>7

LEMMA SumIsSum ==
  ASSUME NEW q, NEW S, IsFiniteSet(S)
  PROVE  \E f : IsSum(f, q, S) /\ SumOver(q, S) = f[S]
<1> DEFINE f == CHOOSE g : IsSum(g, q, S)
<1>1. IsSum(f, q, S)
  BY SumExists
<1>2. SumOver(q, S) = f[S]
  BY DEF SumOver, MapThenSumSet, MapThenFoldSet, IsSum, Pick
<1>. QED  BY <1>1, <1>2

LEMMA SumStep ==
  ASSUME NEW f, NEW q, NEW S, IsSum(f, q, S), NEW s \in SUBSET S
  PROVE  /\ s = {} => f[s] = 0
         /\ s # {} => f[s] = q[Pick(s)] + f[s \ {Pick(s)}]
  BY DEF IsSum

(* A sum is a number, and depends on the values in the set only.           *)
LEMMA SumsAgree ==
  ASSUME NEW f, NEW q, NEW S, IsFiniteSet(S), IsSum(f, q, S),
         NEW g, NEW r, NEW T, IsFiniteSet(T), IsSum(g, r, T),
         \A x \in S \cap T : q[x] \in Int /\ q[x] = r[x]
  PROVE  \A s \in SUBSET (S \cap T) : f[s] \in Int /\ f[s] = g[s]
<1> DEFINE D == {n \in Nat : \A s \in SUBSET (S \cap T) : Cardinality(s) <= n => f[s] \in Int /\ f[s] = g[s]}
<1>0. IsFiniteSet(S \cap T) /\ \A s \in SUBSET (S \cap T) : s \in SUBSET S /\ s \in SUBSET T
  BY FS_Intersection
<1>1. 0 \in D
  <2>1. \A s \in SUBSET (S \cap T) : Cardinality(s) <= 0 => s = {}
    BY <1>0, SubsetCard
  <2>2. f[{}] = 0 /\ g[{}] = 0
    BY SumStep
  <2>. QED  BY <2>1, <2>2
<1>2. ASSUME NEW n \in Nat, n \in D PROVE n + 1 \in D
  <2>. SUFFICES ASSUME NEW s \in SUBSET (S \cap T), Cardinality(s) <= n + 1
                PROVE  f[s] \in Int /\ f[s] = g[s]
    OBVIOUS
  <2>0. s \in SUBSET S /\ s \in SUBSET T
    BY <1>0
  <2>1. CASE s = {}
    <3>1. f[s] = 0 /\ g[s] = 0
      BY <2>0, <2>1, SumStep
    <3>. QED  BY <3>1
  <2>2. CASE s # {}
    <3> DEFINE t == s \ {Pick(s)}
    <3>1. Pick(s) \in s
      BY <2>2, PickIn
    <3>2. t \in SUBSET (S \cap T) /\ Cardinality(t) <= n
      <4>1. t \in SUBSET (S \cap T) /\ Cardinality(t) = Cardinality(s) - 1 /\ Cardinality(s) \in Nat
        BY <1>0, <3>1, SubsetCard
      <4>. QED  BY <4>1
    <3>3. f[t] \in Int /\ f[t] = g[t]
      BY <1>2, <3>2
    <3>4. f[s] = q[Pick(s)] + f[t] /\ g[s] = r[Pick(s)] + g[t]
      <4>1. f[s] = q[Pick(s)] + f[s \ {Pick(s)}]
        BY <2>0, <2>2 DEF IsSum
      <4>2. g[s] = r[Pick(s)] + g[s \ {Pick(s)}]
        BY <2>0, <2>2 DEF IsSum
      <4>. QED  BY <4>1, <4>2
    <3>5. q[Pick(s)] \in Int /\ q[Pick(s)] = r[Pick(s)]
      BY <3>1
    <3> HIDE DEF t
    <3>. QED  BY <3>3, <3>4, <3>5
  <2>. QED  BY <2>1, <2>2
<1> HIDE DEF D
<1>3. \A n \in Nat : n \in D
  BY <1>1, <1>2, InductionOverNat
<1>4. ASSUME NEW s \in SUBSET (S \cap T) PROVE f[s] \in Int /\ f[s] = g[s]
  <2>1. Cardinality(s) \in Nat
    BY <1>0, SubsetCard
  <2>. QED  BY <1>3, <2>1 DEF D
<1>. QED  BY <1>4

LEMMA SumEmpty == ASSUME NEW q PROVE SumOver(q, {}) = 0
<1>1. PICK f : IsSum(f, q, {}) /\ SumOver(q, {}) = f[{}]
  BY FS_EmptySet, SumIsSum
<1>. QED  BY <1>1, SumStep

LEMMA SumSame ==
  ASSUME NEW q, NEW r, NEW S, IsFiniteSet(S), \A x \in S : q[x] \in Int /\ q[x] = r[x]
  PROVE  SumOver(q, S) \in Int /\ SumOver(q, S) = SumOver(r, S)
<1>1. PICK f : IsSum(f, q, S) /\ SumOver(q, S) = f[S]
  BY SumIsSum
<1>2. PICK g : IsSum(g, r, S) /\ SumOver(r, S) = g[S]
  BY SumIsSum
<1>3. S \in SUBSET (S \cap S) /\ \A x \in S \cap S : q[x] \in Int /\ q[x] = r[x]
  OBVIOUS
<1>. QED  BY <1>1, <1>2, <1>3, SumsAgree

(* The order in which a sum takes its elements does not matter.            *)
LEMMA SumAnyOrder ==
  ASSUME NEW f, NEW q, NEW S, IsFiniteSet(S), IsSum(f, q, S), \A x \in S : q[x] \in Int
  PROVE  \A s \in SUBSET S : \A y \in s : f[s] = q[y] + f[s \ {y}]
<1> DEFINE D == {n \in Nat : \A s \in SUBSET S : Cardinality(s) <= n => \A y \in s : f[s] = q[y] + f[s \ {y}]}
<1>0. \A s \in SUBSET S : f[s] \in Int
  <2>1. S \cap S = S
    OBVIOUS
  <2>. QED  BY <2>1, SumsAgree
<1>1. 0 \in D
  BY SubsetCard
<1>2. ASSUME NEW n \in Nat, n \in D PROVE n + 1 \in D
  <2>. SUFFICES ASSUME NEW s \in SUBSET S, Cardinality(s) <= n + 1, NEW y \in s
                PROVE  f[s] = q[y] + f[s \ {y}]
    OBVIOUS
  <2> DEFINE x == Pick(s)
  <2>1. x \in s /\ f[s] = q[x] + f[s \ {x}]
    BY PickIn, SumStep
  <2>2. CASE x = y
    BY <2>1, <2>2
  <2>3. CASE x # y
    <3>1. /\ s \ {x} \in SUBSET S /\ Cardinality(s \ {x}) <= n
          /\ s \ {y} \in SUBSET S /\ Cardinality(s \ {y}) <= n
          /\ s \ {x, y} \in SUBSET S
      <4>1. /\ s \ {x} \in SUBSET S /\ Cardinality(s \ {x}) = Cardinality(s) - 1
            /\ s \ {y} \in SUBSET S /\ Cardinality(s \ {y}) = Cardinality(s) - 1
            /\ Cardinality(s) \in Nat
        BY <2>1, SubsetCard
      <4>. QED  BY <4>1
    <3>2. y \in s \ {x} /\ x \in s \ {y} /\ (s \ {x}) \ {y} = s \ {x, y} /\ (s \ {y}) \ {x} = s \ {x, y}
      BY <2>1, <2>3
    <3> HIDE DEF x
    <3>3. f[s \ {x}] = q[y] + f[s \ {x, y}] /\ f[s \ {y}] = q[x] + f[s \ {x, y}]
      BY <1>2, <3>1, <3>2
    <3>4. q[x] \in Int /\ q[y] \in Int /\ f[s \ {x, y}] \in Int
      BY <1>0, <2>1, <3>1
    <3>. QED  BY <2>1, <3>3, <3>4
  <2>. QED  BY <2>2, <2>3
<1> HIDE DEF D
<1>3. \A n \in Nat : n \in D
  BY <1>1, <1>2, InductionOverNat
<1>4. ASSUME NEW s \in SUBSET S, NEW y \in s PROVE f[s] = q[y] + f[s \ {y}]
  <2>1. Cardinality(s) \in Nat
    BY SubsetCard
  <2>. QED  BY <1>3, <2>1 DEF D
<1>. QED  BY <1>4

LEMMA SumRemove ==
  ASSUME NEW q, NEW S, IsFiniteSet(S), \A x \in S : q[x] \in Int, NEW y \in S
  PROVE  SumOver(q, S) = q[y] + SumOver(q, S \ {y})
<1>1. IsFiniteSet(S \ {y})
  BY FS_RemoveElement
<1>2. PICK f : IsSum(f, q, S) /\ SumOver(q, S) = f[S]
  BY SumIsSum
<1>3. PICK g : IsSum(g, q, S \ {y}) /\ SumOver(q, S \ {y}) = g[S \ {y}]
  BY <1>1, SumIsSum
<1>4. f[S] = q[y] + f[S \ {y}]
  <2>1. S \in SUBSET S
    OBVIOUS
  <2>. QED  BY <1>2, <2>1, SumAnyOrder
<1>5. f[S \ {y}] = g[S \ {y}]
  <2>1. S \ {y} \in SUBSET (S \cap (S \ {y})) /\ \A x \in S \cap (S \ {y}) : q[x] \in Int /\ q[x] = q[x]
    OBVIOUS
  <2>. QED  BY <1>1, <1>2, <1>3, <2>1, SumsAgree
<1>. QED  BY <1>2, <1>3, <1>4, <1>5

LEMMA SumAdd ==
  ASSUME NEW q, NEW S, IsFiniteSet(S), NEW y, y \notin S, \A x \in S \cup {y} : q[x] \in Int
  PROVE  SumOver(q, S \cup {y}) = SumOver(q, S) + q[y]
<1> DEFINE T == S \cup {y}
<1>1. IsFiniteSet(T) /\ T \ {y} = S /\ y \in T
  BY FS_AddElement
<1>2. SumOver(q, S) \in Int
  BY SumSame
<1>3. q[y] \in Int
  OBVIOUS
<1>4. SumOver(q, T) = q[y] + SumOver(q, T \ {y})
  BY <1>1, SumRemove
<1> HIDE DEF T
<1>5. SumOver(q, T \ {y}) = SumOver(q, S)
  BY <1>1, Zenon
<1>6. ASSUME NEW a \in Int, NEW b \in Int PROVE a + b = b + a
  OBVIOUS
<1>7. SumOver(q, T) = SumOver(q, S) + q[y]
  BY <1>2, <1>3, <1>4, <1>5, <1>6, Zenon
<1>. QED  BY <1>7 DEF T

LEMMA SumOfOne == ASSUME NEW q, NEW a, q[a] \in Int PROVE SumOver(q, {a}) = q[a]
<1>1. SumOver(q, {} \cup {a}) = SumOver(q, {}) + q[a]
  <2>1. IsFiniteSet({}) /\ a \notin {} /\ \A x \in {} \cup {a} : q[x] \in Int
    BY FS_EmptySet
  <2>. QED  BY <2>1, SumAdd
<1>2. {} \cup {a} = {a}
  OBVIOUS
<1>3. SumOver(q, {a}) = SumOver(q, {}) + q[a]
  BY <1>1, <1>2, Zenon
<1>. QED  BY <1>3, SumEmpty

LEMMA SumOfTwo ==
  ASSUME NEW q, NEW a, NEW b, a # b, q[a] \in Int, q[b] \in Int
  PROVE  SumOver(q, {a, b}) = q[a] + q[b]
<1>1. SumOver(q, {a} \cup {b}) = SumOver(q, {a}) + q[b]
  <2>1. IsFiniteSet({a}) /\ b \notin {a} /\ \A x \in {a} \cup {b} : q[x] \in Int
    BY FS_Singleton
  <2>. QED  BY <2>1, SumAdd
<1>2. {a} \cup {b} = {a, b}
  OBVIOUS
<1>3. SumOver(q, {a, b}) = SumOver(q, {a}) + q[b]
  BY <1>1, <1>2, Zenon
<1>. QED  BY <1>3, SumOfOne

(* A sum grows with the one value that does.                               *)
LEMMA SumBump ==
  ASSUME NEW q, NEW S, IsFiniteSet(S), NEW y, NEW r, r[y] = q[y] + 1,
         \A x \in S \ {y} : r[x] = q[x], \A x \in S : q[x] \in Int
  PROVE  /\ y \in S => SumOver(r, S) = SumOver(q, S) + 1
         /\ y \notin S => SumOver(r, S) = SumOver(q, S)
         /\ SumOver(q, S) \in Int
<1>1. \A x \in S : q[x] \in Int /\ r[x] \in Int
  OBVIOUS
<1>2. SumOver(q, S) \in Int
  BY SumSame
<1>3. CASE y \notin S
  <2>1. \A x \in S : q[x] \in Int /\ q[x] = r[x]
    BY <1>3
  <2>2. SumOver(q, S) = SumOver(r, S)
    BY <2>1, SumSame
  <2>. QED  BY <1>2, <1>3, <2>2
<1>4. CASE y \in S
  <2>1. IsFiniteSet(S \ {y}) /\ \A x \in S \ {y} : q[x] \in Int /\ q[x] = r[x]
    BY FS_RemoveElement
  <2>2. SumOver(q, S \ {y}) \in Int /\ SumOver(q, S \ {y}) = SumOver(r, S \ {y})
    BY <2>1, SumSame
  <2>3. SumOver(q, S) = q[y] + SumOver(q, S \ {y})
    BY <1>1, <1>4, SumRemove
  <2>4. SumOver(r, S) = r[y] + SumOver(r, S \ {y})
    BY <1>1, <1>4, SumRemove
  <2>5. q[y] \in Int /\ r[y] = q[y] + 1
    BY <1>4
  <2>6. SumOver(r, S) = SumOver(q, S) + 1
    BY <2>2, <2>3, <2>4, <2>5
  <2>. QED  BY <1>2, <1>4, <2>6
<1>. QED  BY <1>3, <1>4

(* A sum after one of its values has changed, or one more has come.        *)
LEMMA SumMoves ==
  ASSUME NEW q, NEW S, IsFiniteSet(S), NEW y, NEW r, NEW d \in Int, r[y] \in Int,
         y \in S => r[y] = q[y] + d, y \notin S => r[y] = d,
         \A x \in S \ {y} : r[x] = q[x], \A x \in S : q[x] \in Int
  PROVE  SumOver(r, S \cup {y}) = SumOver(q, S) + d /\ SumOver(q, S) \in Int
<1> DEFINE T == S \ {y}
<1>1. IsFiniteSet(T) /\ y \notin T /\ T \cup {y} = S \cup {y} /\ \A x \in T : q[x] \in Int /\ q[x] = r[x]
  BY FS_RemoveElement
<1>2. \A x \in T \cup {y} : r[x] \in Int
  <2>1. \A x \in T : r[x] \in Int
    BY <1>1
  <2>. QED  BY <2>1
<1>3. SumOver(r, T) = SumOver(q, T) /\ SumOver(q, T) \in Int
  <2> HIDE DEF T
  <2>1. SumOver(q, T) \in Int /\ SumOver(q, T) = SumOver(r, T)
    BY <1>1, SumSame
  <2>. QED  BY <2>1
<1>4. SumOver(r, T \cup {y}) = SumOver(r, T) + r[y]
  <2> HIDE DEF T
  <2>. QED  BY <1>1, <1>2, SumAdd
<1>5. SumOver(r, S \cup {y}) = SumOver(q, T) + r[y]
  BY <1>1, <1>3, <1>4, Zenon
<1>6. CASE y \in S
  <2>1. SumOver(q, S) = q[y] + SumOver(q, T) /\ q[y] \in Int
    BY <1>6, SumRemove
  <2>2. r[y] = q[y] + d
    BY <1>6
  <2>. QED  BY <1>3, <1>5, <2>1, <2>2
<1>7. CASE y \notin S
  <2>1. T = S /\ r[y] = d
    BY <1>7
  <2>2. SumOver(q, T) = SumOver(q, S)
    BY <2>1
  <2>. QED  BY <1>3, <1>5, <2>1, <2>2
<1>. QED  BY <1>6, <1>7

LEMMA SumOfFunction == ASSUME NEW f PROVE SumFunction(f) = SumOver(f, DOMAIN f)
  BY DEF SumOver, SumFunction, SumFunctionOnSet, FoldFunctionOnSet, MapThenSumSet

-----------------------------------------------------------------------------
(* Small sets and sequences.                                               *)
LEMMA FinitePair == ASSUME NEW a, NEW b PROVE IsFiniteSet({a, b})
<1>1. IsFiniteSet({a} \cup {b})
  BY FS_Singleton, FS_AddElement
<1>2. {a} \cup {b} = {a, b}
  OBVIOUS
<1>. QED  BY <1>1, <1>2, Zenon

LEMMA MinOfTwo ==
  ASSUME NEW a \in Int, NEW b \in Int
  PROVE  Min({a, b}) = IF a <= b THEN a ELSE b
<1> DEFINE m == IF a <= b THEN a ELSE b
<1>1. m \in {a, b} /\ \A y \in {a, b} : m <= y
  OBVIOUS
<1>2. \A x \in {a, b} : (\A y \in {a, b} : x <= y) => x = m
  OBVIOUS
<1> HIDE DEF m
<1>3. Min({a, b}) = m
  BY <1>1, <1>2 DEF Min
<1>. QED  BY <1>3 DEF m

LEMMA Images ==
  ASSUME NEW S, IsFiniteSet(S), NEW f
  PROVE  IsFiniteSet({f[x] : x \in S}) /\ Cardinality({f[x] : x \in S}) <= Cardinality(S)
<1> DEFINE T == {f[x] : x \in S}
           g == [x \in S |-> f[x]]
<1>1. g \in Surjection(S, T)
  BY DEF Surjection
<1> HIDE DEF g, T
<1>2. IsFiniteSet(T) /\ Cardinality(T) <= Cardinality(S)
  BY <1>1, FS_Surjection
<1>. QED  BY <1>2 DEF T

LEMMA ToSetEmpty == ToSet(<<>>) = {}
  BY DEF ToSet

LEMMA ToSetAppend ==
  ASSUME NEW T, NEW s \in Seq(T), NEW x \in T
  PROVE  ToSet(Append(s, x)) = ToSet(s) \cup {x} /\ Append(s, x) \in Seq(T)
<1>1. /\ Append(s, x) \in Seq(T) /\ Len(Append(s, x)) = Len(s) + 1 /\ Len(s) \in Nat
      /\ \A i \in 1 .. Len(s) : Append(s, x)[i] = s[i]
      /\ Append(s, x)[Len(s) + 1] = x
      /\ DOMAIN s = 1 .. Len(s) /\ DOMAIN Append(s, x) = 1 .. Len(s) + 1
  BY AppendProperties
<1> DEFINE r == Append(s, x)
<1> HIDE DEF r
<1>2. ASSUME NEW y \in ToSet(s) \cup {x} PROVE y \in ToSet(r)
  <2>1. CASE y = x
    <3>1. Len(s) + 1 \in DOMAIN r
      BY <1>1 DEF r
    <3>. QED  BY <1>1, <2>1, <3>1 DEF ToSet, r
  <2>2. CASE y \in ToSet(s)
    <3>1. PICK i \in DOMAIN s : y = s[i]
      BY <2>2 DEF ToSet
    <3>2. i \in DOMAIN r /\ r[i] = y
      BY <1>1, <3>1 DEF r
    <3>. QED  BY <3>2 DEF ToSet
  <2>. QED  BY <2>1, <2>2
<1>3. ASSUME NEW y \in ToSet(r) PROVE y \in ToSet(s) \cup {x}
  <2>1. PICK i \in DOMAIN r : y = r[i]
    BY <1>3 DEF ToSet
  <2>2. i \in DOMAIN s \/ i = Len(s) + 1
    BY <1>1, <2>1 DEF r
  <2>. QED  BY <1>1, <2>1, <2>2 DEF ToSet, r
<1>. QED  BY <1>1, <1>2, <1>3 DEF r

LEMMA LastOfAppend ==
  ASSUME NEW T, NEW s \in Seq(T), NEW x \in T
  PROVE  Last(Append(s, x)) = x /\ Append(s, x) # <<>>
<1>1. Append(s, x) \in Seq(T) /\ Len(Append(s, x)) = Len(s) + 1 /\ Len(s) \in Nat
      /\ Append(s, x)[Len(s) + 1] = x
  BY AppendProperties
<1>. QED  BY <1>1 DEF Last

LEMMA PairIs == ASSUME NEW x, NEW y PROVE <<x, y>> = <<x>> \o <<y>>
<1>1. <<x, y>> = Append(<<x>>, y)
  OBVIOUS
<1>2. <<x>> \in Seq({x, y}) /\ y \in {x, y}
  OBVIOUS
<1>. QED  BY <1>1, <1>2, AppendIsConcat

LEMMA TripleIs == ASSUME NEW x, NEW y, NEW z PROVE <<x, y, z>> = <<x, y>> \o <<z>>
  OBVIOUS

LEMMA ToSetConcat ==
  ASSUME NEW T, NEW s \in Seq(T), NEW t \in Seq(T)
  PROVE  ToSet(s \o t) = ToSet(s) \cup ToSet(t)
<1>1. Range(s \o t) = Range(s) \cup Range(t)
  BY RangeConcatenation
<1>. QED  BY <1>1 DEF Range, ToSet

LEMMA LastIn ==
  ASSUME NEW T, NEW s \in Seq(T), s # <<>>
  PROVE  Last(s) \in ToSet(s) /\ Last(s) \in T
<1>1. Len(s) \in 1 .. Len(s) /\ DOMAIN s = 1 .. Len(s)
  BY EmptySeq, LenProperties
<1>. QED  BY <1>1 DEF Last, ToSet

LEMMA LastOfConcat ==
  ASSUME NEW T, NEW s \in Seq(T), NEW t \in Seq(T)
  PROVE  /\ t # <<>> => Last(s \o t) = Last(t)
         /\ t = <<>> => s \o t = s
<1>1. ASSUME t # <<>> PROVE Last(s \o t) = Last(t)
  <2>1. Len(t) \in Nat \ {0} /\ Len(s) \in Nat
    BY <1>1, EmptySeq, LenProperties
  <2>2. Len(s \o t) = Len(s) + Len(t) /\ (s \o t)[Len(s) + Len(t)] = t[Len(t)]
    BY <2>1, ConcatProperties
  <2>. QED  BY <2>2 DEF Last
<1>2. t = <<>> => s \o t = s
  BY ConcatEmptySeq
<1>. QED  BY <1>1, <1>2

-----------------------------------------------------------------------------
(* What a filter keeps: the elements that are in the set, and each once if *)
(* the sequence has each once.                                             *)
LEMMA SelectedHolds ==
  ASSUME NEW T, NEW s \in Seq(T), NEW S
  PROVE  /\ ToSet(Selected(s, S)) = ToSet(s) \cap S
         /\ IsInjective(s) => /\ IsFiniteSet(ToSet(s) \cap S)
                              /\ Len(Selected(s, S)) = Cardinality(ToSet(s) \cap S)
<1>1. PICK f : Keeps(f, s, S) /\ Selected(s, S) = f[Len(s)]
  BY SelectedKeeps
<1> DEFINE First(m) == {s[i] : i \in 1 .. m} \cap S
           Holds(m) == /\ f[m] \in Seq(T) /\ ToSet(f[m]) = First(m)
                       /\ IsInjective(s) => IsFiniteSet(First(m)) /\ Len(f[m]) = Cardinality(First(m))
           D == {m \in Nat : m <= Len(s) => Holds(m)}
<1>0. Len(s) \in Nat /\ DOMAIN s = 1 .. Len(s) /\ \A i \in 1 .. Len(s) : s[i] \in T
  OBVIOUS
<1>2. 0 \in D
  <2>1. f[0] = <<>>
    BY <1>0, <1>1 DEF Keeps
  <2>2. First(0) = {}
    OBVIOUS
  <2>3. f[0] \in Seq(T) /\ ToSet(f[0]) = First(0) /\ Len(f[0]) = 0
    BY <2>1, <2>2, ToSetEmpty
  <2>4. IsFiniteSet(First(0)) /\ Cardinality(First(0)) = 0
    BY <2>2, FS_EmptySet
  <2>. QED  BY <2>3, <2>4
<1>3. ASSUME NEW m \in Nat, m \in D PROVE m + 1 \in D
  <2>. SUFFICES ASSUME m + 1 <= Len(s) PROVE Holds(m + 1)
    OBVIOUS
  <2>1. Holds(m) /\ m + 1 \in 1 .. Len(s) /\ s[m + 1] \in T
    BY <1>0, <1>3
  <2>2. f[m + 1] = IF s[m + 1] \in S THEN Append(f[m], s[m + 1]) ELSE f[m]
    BY <1>0, <1>1, KeepsStep
  <2>3. {s[i] : i \in 1 .. m + 1} = {s[i] : i \in 1 .. m} \cup {s[m + 1]}
    OBVIOUS
  <2>4. CASE s[m + 1] \in S
    <3>1. First(m + 1) = First(m) \cup {s[m + 1]}
      BY <2>3, <2>4
    <3>2. f[m + 1] = Append(f[m], s[m + 1])
      BY <2>2, <2>4
    <3>3. ToSet(f[m + 1]) = ToSet(f[m]) \cup {s[m + 1]} /\ f[m + 1] \in Seq(T)
      BY <2>1, <3>2, ToSetAppend
    <3>4. Len(f[m + 1]) = Len(f[m]) + 1
      BY <2>1, <3>2
    <3>5. ASSUME IsInjective(s)
          PROVE  IsFiniteSet(First(m + 1)) /\ Len(f[m + 1]) = Cardinality(First(m + 1))
      <4>1. s[m + 1] \notin First(m)
        <5>1. \A i \in 1 .. m : s[i] # s[m + 1]
          BY <1>0, <2>1, <3>5 DEF IsInjective
        <5>. QED  BY <5>1
      <4> HIDE DEF First
      <4>2. IsFiniteSet(First(m)) /\ Len(f[m]) = Cardinality(First(m))
        BY <2>1, <3>5
      <4>3. IsFiniteSet(First(m) \cup {s[m + 1]})
            /\ Cardinality(First(m) \cup {s[m + 1]}) = Cardinality(First(m)) + 1
        BY <4>1, <4>2, FS_AddElement
      <4>. QED  BY <3>1, <3>4, <4>2, <4>3
    <3> HIDE DEF First
    <3>. QED  BY <2>1, <3>1, <3>3, <3>5
  <2>5. CASE s[m + 1] \notin S
    <3>1. First(m + 1) = First(m) /\ f[m + 1] = f[m]
      BY <2>2, <2>3, <2>5
    <3> HIDE DEF First
    <3>. QED  BY <2>1, <3>1
  <2>. QED  BY <2>4, <2>5
<1>4. Len(s) \in D
  <2> HIDE DEF D
  <2>. QED  BY <1>0, <1>2, <1>3, InductionOverNat
<1>5. First(Len(s)) = ToSet(s) \cap S
  BY <1>0 DEF ToSet
<1>6. Holds(Len(s))
  BY <1>0, <1>4
<1>7. /\ ToSet(f[Len(s)]) = ToSet(s) \cap S
      /\ IsInjective(s) => /\ IsFiniteSet(ToSet(s) \cap S)
                           /\ Len(f[Len(s)]) = Cardinality(ToSet(s) \cap S)
  <2> HIDE DEF First
  <2>. QED  BY <1>5, <1>6, Zenon
<1>. QED  BY <1>1, <1>7, Zenon

LEMMA SelectedConcat ==
  ASSUME NEW T, NEW s \in Seq(T), NEW t \in Seq(T), NEW S
  PROVE  Selected(s \o t, S) = Selected(s, S) \o Selected(t, S)
<1> DEFINE r == s \o t
<1>1. /\ r \in Seq(T) /\ Len(r) = Len(s) + Len(t) /\ Len(s) \in Nat /\ Len(t) \in Nat
      /\ \A i \in 1 .. Len(s) + Len(t) : r[i] = IF i <= Len(s) THEN s[i] ELSE t[i - Len(s)]
  BY ConcatProperties
<1> HIDE DEF r
<1>2. PICK f : Keeps(f, s, S) /\ Selected(s, S) = f[Len(s)]
  BY SelectedKeeps
<1>3. PICK g : Keeps(g, r, S) /\ Selected(r, S) = g[Len(r)]
  BY <1>1, SelectedKeeps
<1>4. PICK h : Keeps(h, t, S) /\ Selected(t, S) = h[Len(t)]
  BY SelectedKeeps
<1>5. f[Len(s)] \in Seq(T)
  <2>1. Selected(s, S) \in Seq(T \cap S)
    BY SelectedType
  <2>2. Selected(s, S) \in Seq(T)
    BY <2>1, SeqMonotonic
  <2>. QED  BY <1>2, <2>2, Zenon
<1> DEFINE Holds(n) == h[n] \in Seq(T) /\ g[Len(s) + n] = f[Len(s)] \o h[n]
           D == {n \in Nat : n <= Len(t) => Holds(n)}
<1>6. 0 \in D
  <2>1. h[0] = <<>>
    BY <1>1, <1>4 DEF Keeps
  <2>2. f[Len(s)] = g[Len(s)]
    <3>1. /\ Len(s) \in 0 .. Len(s) /\ Len(s) <= Len(r)
          /\ \A i \in 1 .. Len(s) : s[i] = r[i] /\ (s[i] \in S <=> r[i] \in S)
      BY <1>1
    <3> DEFINE n == Len(s)
    <3>2. n \in 0 .. Len(s) /\ n <= Len(r) /\ \A i \in 1 .. n : s[i] = r[i] /\ (s[i] \in S <=> r[i] \in S)
      BY <3>1
    <3> HIDE DEF n
    <3>3. f[n] = g[n]
      BY <1>1, <1>2, <1>3, <3>2, KeepsAgree
    <3>. QED  BY <3>3 DEF n
  <2>3. f[Len(s)] \o <<>> = f[Len(s)] /\ <<>> \in Seq(T)
    BY <1>5, ConcatEmptySeq
  <2>4. Len(s) + 0 = Len(s)
    BY <1>1
  <2>5. h[0] \in Seq(T) /\ g[Len(s) + 0] = f[Len(s)] \o h[0]
    BY <2>1, <2>2, <2>3, <2>4, Zenon
  <2>. QED  BY <2>5
<1>7. ASSUME NEW n \in Nat, n \in D PROVE n + 1 \in D
  <2>. SUFFICES ASSUME n + 1 <= Len(t) PROVE Holds(n + 1)
    <3> HIDE DEF Holds
    <3>. QED  BY <1>7
  <2>0. Holds(n)
    <3> HIDE DEF Holds
    <3>1. n <= Len(t)
      BY <1>1
    <3>. QED  BY <1>7, <3>1
  <2>1. /\ h[n] \in Seq(T) /\ g[Len(s) + n] = f[Len(s)] \o h[n]
        /\ Len(s) + n \in Nat /\ Len(s) + n + 1 <= Len(r) /\ Len(r) \in Nat
        /\ Len(s) + (n + 1) = Len(s) + n + 1
    <3>1. /\ Len(s) + n \in Nat /\ Len(s) + n + 1 <= Len(r) /\ Len(r) \in Nat
          /\ Len(s) + (n + 1) = Len(s) + n + 1
      BY <1>1
    <3>. QED  BY <2>0, <3>1, Zenon
  <2>2. r[Len(s) + n + 1] = t[n + 1] /\ t[n + 1] \in T
    BY <1>1
  <2>3. h[n + 1] = IF t[n + 1] \in S THEN Append(h[n], t[n + 1]) ELSE h[n]
    BY <1>1, <1>4, KeepsStep
  <2>4. g[Len(s) + n + 1] = IF r[Len(s) + n + 1] \in S THEN Append(g[Len(s) + n], r[Len(s) + n + 1])
                            ELSE g[Len(s) + n]
    <3> DEFINE m == Len(s) + n
    <3>1. m \in Nat /\ Len(r) \in Nat /\ m + 1 <= Len(r)
      BY <2>1
    <3> HIDE DEF m
    <3>2. g[m + 1] = IF r[m + 1] \in S THEN Append(g[m], r[m + 1]) ELSE g[m]
      BY <1>3, <3>1, KeepsStep
    <3>. QED  BY <3>2 DEF m
  <2>5. Append(f[Len(s)] \o h[n], t[n + 1]) = f[Len(s)] \o Append(h[n], t[n + 1])
        /\ Append(h[n], t[n + 1]) \in Seq(T)
    <3>1. Append(f[Len(s)] \o h[n], t[n + 1]) = f[Len(s)] \o Append(h[n], t[n + 1])
      <4> DEFINE a == f[Len(s)]
                 b == h[n]
                 x == t[n + 1]
      <4>1. a \in Seq(T) /\ b \in Seq(T) /\ x \in T
        BY <1>5, <2>1, <2>2
      <4> HIDE DEF a, b, x
      <4>2. Append(a \o b, x) = a \o Append(b, x)
        <5>1. a \o b \in Seq(T) /\ <<x>> \in Seq(T)
          BY <4>1, ConcatProperties
        <5>2. Append(a \o b, x) = (a \o b) \o <<x>>
          BY <4>1, <5>1, AppendIsConcat
        <5>3. Append(b, x) = b \o <<x>>
          BY <4>1, AppendIsConcat
        <5>4. (a \o b) \o <<x>> = a \o (b \o <<x>>)
          BY <4>1, <5>1, ConcatAssociative
        <5>. QED  BY <5>2, <5>3, <5>4, Zenon
      <4>. QED  BY <4>2 DEF a, b, x
    <3>2. Append(h[n], t[n + 1]) \in Seq(T)
      BY <2>1, <2>2, AppendProperties
    <3>. QED  BY <3>1, <3>2
  <2>6. CASE t[n + 1] \in S
    <3>1. h[n + 1] = Append(h[n], t[n + 1])
      BY <2>3, <2>6
    <3>2. g[Len(s) + n + 1] = Append(g[Len(s) + n], t[n + 1])
      BY <2>2, <2>4, <2>6
    <3>. QED  BY <2>1, <2>5, <3>1, <3>2, Zenon
  <2>7. CASE t[n + 1] \notin S
    <3>1. h[n + 1] = h[n]
      BY <2>3, <2>7
    <3>2. g[Len(s) + n + 1] = g[Len(s) + n]
      BY <2>2, <2>4, <2>7
    <3>. QED  BY <2>1, <3>1, <3>2, Zenon
  <2>. QED  BY <2>6, <2>7
<1> HIDE DEF D
<1>8. Len(t) \in D
  BY <1>1, <1>6, <1>7, InductionOverNat
<1>9. g[Len(s) + Len(t)] = f[Len(s)] \o h[Len(t)]
  <2>1. Holds(Len(t))
    <3> HIDE DEF Holds
    <3>. QED  BY <1>1, <1>8 DEF D
  <2>. QED  BY <2>1
<1>10. Selected(r, S) = Selected(s, S) \o Selected(t, S)
  BY <1>1, <1>2, <1>3, <1>4, <1>9, Zenon
<1>. QED  BY <1>10 DEF r
===============================================================================
