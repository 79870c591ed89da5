-------------------------- MODULE CollectionLemmas --------------------------
(***************************************************************************)
(* Facts about the operators the models are built from: recursion over     *)
(* finite sets and over numbers, what Selected, FlattenSeq and SumFunction *)
(* compute, and sequences without repetition. The library says what a      *)
(* definition by recursion is only for a function that is known to exist,  *)
(* so each fold is first shown to be the last value of a function.         *)
(***************************************************************************)
EXTENDS Integers, Filters, FiniteSetTheorems, SequenceTheorems, FunctionTheorems, WellFoundedInduction,
  NaturalsInduction, TLAPS

-----------------------------------------------------------------------------
(* Recursion.                                                              *)

\* A set that has 0 and with every number the next one has all of them.
LEMMA AllNumbers ==
  ASSUME NEW G, 0 \in G, \A n \in Nat : n \in G => n + 1 \in G
  PROVE  \A n \in Nat : n \in G
<1> DEFINE B == {n \in Nat : n \notin G}
<1> SUFFICES ASSUME B # {} PROVE FALSE
  OBVIOUS
<1>1. IsWellFoundedOn(OpToRel(<, Nat), Nat)
  BY NatLessThanWellFounded
<1>2. PICK x \in B : \A y \in B : ~ (<<y, x>> \in OpToRel(<, Nat))
  <2> HIDE DEF B
  <2>1. B \subseteq Nat
    BY DEF B
  <2> QED
    BY <1>1, <2>1, WFMin
<1>3. x \in Nat /\ x # 0 /\ x - 1 \in Nat /\ x - 1 < x
  OBVIOUS
<1>4. x - 1 \in B
  BY <1>3
<1> QED
  BY <1>2, <1>3, <1>4 DEF OpToRel

\* A recursion over the subsets of a finite set that takes one element away at a time.
Recursion(D, V, base, pick, F) ==
  /\ IsFiniteSet(D) /\ base \in V /\ F \in [V \X D -> V]
  /\ pick \in [SUBSET D -> D \union {D}]
  /\ \A s \in SUBSET D : s # {} => pick[s] \in s

Solves(D, V, base, pick, F, iter) ==
  /\ iter \in [SUBSET D -> V]
  /\ \A s \in SUBSET D :
       iter[s] = IF s = {} THEN base ELSE F[<<iter[s \ {pick[s]}], pick[s]>>]

\* It has a solution.
LEMMA SetRecursion ==
  ASSUME NEW D, NEW V, NEW base, NEW pick, NEW F, Recursion(D, V, base, pick, F)
  PROVE  \E iter : Solves(D, V, base, pick, F, iter)
<1> USE DEF Recursion
<1> DEFINE Level(n) == {s \in SUBSET D : Cardinality(s) <= n}
           Value(g, s) == IF s = {} THEN base ELSE F[<<g[s \ {pick[s]}], pick[s]>>]
           Solved(n) == \E g \in [Level(n) -> V] : \A s \in Level(n) : g[s] = Value(g, s)
           G == {n \in Nat : Solved(n)}
<1>1. \A s \in SUBSET D : IsFiniteSet(s) /\ Cardinality(s) \in Nat /\ Cardinality(s) <= Cardinality(D)
  BY FS_Subset, FS_CardinalityType
<1>2. ASSUME NEW s \in SUBSET D, s # {}
      PROVE  s \ {pick[s]} \in SUBSET D /\ Cardinality(s \ {pick[s]}) = Cardinality(s) - 1 /\ pick[s] \in D
  <2>1. IsFiniteSet(s)
    BY <1>1
  <2> DEFINE p == pick[s]
  <2>3. p \in s
    BY <1>2
  <2>2. Cardinality(s \ {p}) = Cardinality(s) - 1
    <3> HIDE DEF p
    <3> QED
      BY <2>1, <2>3, FS_RemoveElement
  <2> QED
    BY <2>2, <2>3
<1>3. 0 \in G
  <2>1. \A s \in Level(0) : s = {}
    BY <1>1, FS_EmptySet
  <2> DEFINE none == [s \in Level(0) |-> base]
  <2>2. none \in [Level(0) -> V] /\ \A s \in Level(0) : none[s] = Value(none, s)
    BY <2>1
  <2>3. Solved(0)
    <3> HIDE DEF none
    <3> QED
      BY <2>2
  <2> QED
    BY <2>3
<1>4. ASSUME NEW n \in Nat, n \in G PROVE n + 1 \in G
  <2>1. PICK g \in [Level(n) -> V] : \A s \in Level(n) : g[s] = Value(g, s)
    BY <1>4
  <2> DEFINE more == [s \in Level(n + 1) |-> IF s \in Level(n) THEN g[s] ELSE Value(g, s)]
  <2>2. ASSUME NEW s \in Level(n + 1), s # {}
        PROVE  s \ {pick[s]} \in Level(n) /\ s \ {pick[s]} \in Level(n + 1) /\ pick[s] \in D
    BY <1>1, <1>2, <2>2
  <2>3. ASSUME NEW s \in Level(n + 1) PROVE more[s] = Value(g, s)
    BY <2>1
  <2>4. ASSUME NEW s \in Level(n + 1) PROVE Value(g, s) = Value(more, s) /\ Value(g, s) \in V
    <3>1. CASE s = {}
      BY <3>1
    <3>2. CASE s # {}
      <4>1. more[s \ {pick[s]}] = g[s \ {pick[s]}] /\ g[s \ {pick[s]}] \in V
        BY <2>2, <3>2
      <4> QED
        BY <3>2, <4>1, <2>2
    <3> QED
      BY <3>1, <3>2
  <2>5. more \in [Level(n + 1) -> V]
    <3>1. \A s \in Level(n + 1) : more[s] \in V
      BY <2>3, <2>4
    <3> QED
      BY <3>1
  <2>6. \A s \in Level(n + 1) : more[s] = Value(more, s)
    BY <2>3, <2>4
  <2>7. Solved(n + 1)
    <3> HIDE DEF more
    <3> QED
      BY <2>5, <2>6
  <2> HIDE DEF Solved
  <2> QED
    BY <2>7
<1>5. \A n \in Nat : n \in G
  <2> HIDE DEF G
  <2> QED
    BY <1>3, <1>4, AllNumbers
<1>6. Cardinality(D) \in Nat /\ Level(Cardinality(D)) = SUBSET D
  BY <1>1
<1>7. Solved(Cardinality(D))
  BY <1>5, <1>6
<1> QED
  BY <1>6, <1>7 DEF Solves

\* The greatest number of a finite set of numbers is one of them.
LEMMA MaxOfUpTo ==
  ASSUME NEW S \in SUBSET Nat, S # {}, IsFiniteSet(S)
  PROVE  Max(S) \in S /\ \A x \in S : x <= Max(S)
<1> DEFINE bounds == {n \in Nat : \A T \in SUBSET Nat : T # {} /\ (\A x \in T : x <= n) =>
                                      \E m \in T : \A x \in T : x <= m}
<1>1. 0 \in bounds
  <2> SUFFICES ASSUME NEW T \in SUBSET Nat, T # {}, \A x \in T : x <= 0
               PROVE  \E m \in T : \A x \in T : x <= m
    OBVIOUS
  <2>1. PICK m \in T : TRUE
    OBVIOUS
  <2>2. m = 0
    BY <2>1
  <2> QED
    BY <2>1, <2>2
<1>2. ASSUME NEW n \in Nat, n \in bounds PROVE n + 1 \in bounds
  <2> SUFFICES ASSUME NEW T \in SUBSET Nat, T # {}, \A x \in T : x <= n + 1
               PROVE  \E m \in T : \A x \in T : x <= m
    OBVIOUS
  <2>1. CASE n + 1 \in T
    BY <2>1
  <2>2. CASE n + 1 \notin T
    <3>1. \A x \in T : x <= n
      BY <2>2
    <3> QED
      BY <3>1, <1>2
  <2> QED
    BY <2>1, <2>2
<1>3. \A n \in Nat : n \in bounds
  <2> HIDE DEF bounds
  <2> QED
    BY <1>1, <1>2, AllNumbers
<1>4. \E n \in Nat : \A x \in S : x <= n
  <2> DEFINE sizes == {n \in Nat : \A T \in SUBSET Nat : IsFiniteSet(T) /\ Cardinality(T) = n =>
                                      \E b \in Nat : \A x \in T : x <= b}
  <2>1. 0 \in sizes
    <3>1. \A T \in SUBSET Nat : IsFiniteSet(T) /\ Cardinality(T) = 0 => T = {}
      BY FS_EmptySet
    <3> QED
      BY <3>1
  <2>2. ASSUME NEW n \in Nat, n \in sizes PROVE n + 1 \in sizes
    <3> SUFFICES ASSUME NEW T \in SUBSET Nat, IsFiniteSet(T), Cardinality(T) = n + 1
                 PROVE  \E b \in Nat : \A x \in T : x <= b
      OBVIOUS
    <3>1. T # {}
      BY FS_EmptySet
    <3>2. PICK t \in T : TRUE
      BY <3>1
    <3>3. IsFiniteSet(T \ {t}) /\ Cardinality(T \ {t}) = n
      <4>1. IsFiniteSet(T)
        OBVIOUS
      <4>2. t \in T
        BY <3>2
      <4>3. Cardinality(T \ {t}) = Cardinality(T) - 1 /\ IsFiniteSet(T \ {t})
        BY <4>1, <4>2, FS_RemoveElement
      <4> QED
        BY <4>3
    <3>4. PICK b \in Nat : \A x \in T \ {t} : x <= b
      BY <3>3, <2>2
    <3>5. \A x \in T : x <= b + t
      BY <3>4
    <3> QED
      BY <3>5
  <2>3. \A n \in Nat : n \in sizes
    <3> HIDE DEF sizes
    <3> QED
      BY <2>1, <2>2, AllNumbers
  <2> QED
    BY <2>3, FS_CardinalityType
<1>5. \E m \in S : \A x \in S : x <= m
  BY <1>3, <1>4
<1> QED
  BY <1>5 DEF Max

-----------------------------------------------------------------------------
(* Selected, the elements of a sequence that pass a filter.                *)

\* What Selected computes for the beginnings of a sequence.
Choosing(S, seq, these, sel) ==
  /\ sel \in [0..Len(seq) -> Seq(S)]
  /\ sel[0] = <<>>
  /\ \A i \in 1..Len(seq) :
       sel[i] = IF seq[i] \in these THEN Append(sel[i - 1], seq[i]) ELSE sel[i - 1]

\* The greatest of the first n numbers is n, and the others are the first n - 1.
LEMMA MaxOfFirst ==
  ASSUME NEW n \in Nat, n # 0
  PROVE  Max(1..n) = n /\ (1..n) \ {n} = 1..(n - 1)
<1>1. Max(1..n) = CHOOSE m \in 1..n : \A x \in 1..n : x <= m
  BY DEF Max
<1>2. n \in 1..n /\ \A x \in 1..n : x <= n
  OBVIOUS
<1>3. Max(1..n) \in 1..n /\ \A x \in 1..n : x <= Max(1..n)
  <2> HIDE <1>1
  <2> DEFINE I == 1..n
  <2>1. n \in I /\ \A x \in I : x <= n
    OBVIOUS
  <2> HIDE DEF I
  <2>2. Max(I) \in I /\ \A x \in I : x <= Max(I)
    BY <2>1 DEF Max
  <2> QED
    BY <2>2 DEF I
<1> QED
  BY <1>2, <1>3

\* What Selected returns is computed element by element, from the front.
LEMMA SelectedRecursion ==
  ASSUME NEW S, NEW seq \in Seq(S), NEW these
  PROVE  \E sel : Choosing(S, seq, these, sel) /\ Selected(seq, these) = sel[Len(seq)]
<1> DEFINE D == DOMAIN seq
           V == Seq(S)
           pick == [s \in SUBSET D |-> IF s = {} THEN D ELSE Max(s)]
           F == [p \in V \X D |-> IF seq[p[2]] \in these THEN Append(p[1], seq[p[2]]) ELSE p[1]]
           Value(g, s) == IF s = {} THEN <<>>
                          ELSE IF seq[Max(s)] \in these THEN Append(g[s \ {Max(s)}], seq[Max(s)])
                          ELSE g[s \ {Max(s)}]
<1>1. D = 1..Len(seq) /\ Len(seq) \in Nat /\ <<>> \in V
  OBVIOUS
<1>2. IsFiniteSet(D)
  BY <1>1, FS_Interval
<1>3. \A s \in SUBSET D : s # {} => Max(s) \in s
  BY <1>1, <1>2, FS_Subset, MaxOfUpTo
<1>4. pick \in [SUBSET D -> D \union {D}] /\ \A s \in SUBSET D : s # {} => pick[s] \in s
  BY <1>3
<1>5. F \in [V \X D -> V]
  <2> SUFFICES ASSUME NEW p \in V \X D PROVE F[p] \in V
    OBVIOUS
  <2>1. p[1] \in Seq(S) /\ seq[p[2]] \in S
    BY <1>1
  <2> QED
    BY <2>1
<1>6. PICK g \in [SUBSET D -> V] :
        \A s \in SUBSET D : g[s] = IF s = {} THEN <<>> ELSE F[<<g[s \ {pick[s]}], pick[s]>>]
  <2> DEFINE none == <<>>
  <2>1. none \in V
    BY <1>1
  <2> HIDE DEF pick, F, V, D, none
  <2>2. Recursion(D, V, none, pick, F)
    BY <2>1, <1>2, <1>4, <1>5 DEF Recursion
  <2>3. PICK g : Solves(D, V, none, pick, F, g)
    BY <2>2, SetRecursion
  <2> QED
    BY <2>3 DEF none, Solves
<1>7. g = [s \in SUBSET D |-> Value(g, s)]
  <2>1. ASSUME NEW s \in SUBSET D PROVE g[s] = Value(g, s)
    <3>1. CASE s = {}
      BY <3>1, <1>6
    <3>2. CASE s # {}
      <4>1. pick[s] = Max(s) /\ Max(s) \in D /\ g[s \ {Max(s)}] \in V
        BY <3>2, <1>3
      <4>2. g[s] = F[<<g[s \ {Max(s)}], Max(s)>>]
        BY <3>2, <4>1, <1>6
      <4>3. <<g[s \ {Max(s)}], Max(s)>> \in V \X D
        BY <4>1
      <4> HIDE DEF V, D
      <4> QED
        BY <3>2, <4>2, <4>3
    <3> QED
      BY <3>1, <3>2
  <2> HIDE DEF Value, V
  <2> QED
    BY <2>1
<1> HIDE DEF pick, F
<1> DEFINE h == CHOOSE iter : iter = [s \in SUBSET D |-> Value(iter, s)]
<1>8. h = [s \in SUBSET D |-> Value(h, s)]
  BY <1>7
<1>9. Selected(seq, these) = h[D]
  BY DEF Selected, FoldLeft, MapThenFoldSet
<1> HIDE DEF h
<1>10. ASSUME NEW n \in Nat, n # 0, n <= Len(seq)
       PROVE  h[1..n] = IF seq[n] \in these THEN Append(h[1..(n - 1)], seq[n]) ELSE h[1..(n - 1)]
  <2>0. n \in 1..n
    BY <1>10
  <2>1. (1..n) \in SUBSET D /\ 1..n # {}
    BY <2>0, <1>1, <1>10
  <2>2. h[1..n] = Value(h, 1..n)
    BY <2>1, <1>8
  <2>3. Max(1..n) = n /\ (1..n) \ {n} = 1..(n - 1)
    BY <1>10, MaxOfFirst
  <2> QED
    BY <2>1, <2>2, <2>3
<1>11. h[1..0] = <<>>
  BY <1>8
<1> DEFINE typed == {n \in Nat : n <= Len(seq) => h[1..n] \in Seq(S)}
<1>12. 0 \in typed
  <2>1. h[1..0] \in Seq(S)
    BY <1>11
  <2> QED
    BY <2>1
<1>13. ASSUME NEW n \in Nat, n \in typed PROVE n + 1 \in typed
  <2> SUFFICES ASSUME n + 1 <= Len(seq) PROVE h[1..(n + 1)] \in Seq(S)
    OBVIOUS
  <2>1. h[1..n] \in Seq(S) /\ seq[n + 1] \in S
    BY <1>13
  <2>2. n + 1 \in Nat /\ n + 1 # 0 /\ (n + 1) - 1 = n
    OBVIOUS
  <2>3. h[1..(n + 1)] = IF seq[n + 1] \in these THEN Append(h[1..((n + 1) - 1)], seq[n + 1]) ELSE h[1..((n + 1) - 1)]
    BY <2>2, <1>10
  <2>4. h[1..(n + 1)] = IF seq[n + 1] \in these THEN Append(h[1..n], seq[n + 1]) ELSE h[1..n]
    BY <2>2, <2>3
  <2> HIDE <2>3
  <2> QED
    BY <2>1, <2>4
<1>14. \A n \in Nat : n \in typed
  <2> HIDE DEF typed
  <2> QED
    BY <1>12, <1>13, AllNumbers
<1> DEFINE sel == [n \in 0..Len(seq) |-> h[1..n]]
<1>15. sel \in [0..Len(seq) -> Seq(S)] /\ sel[0] = <<>>
  BY <1>1, <1>11, <1>14
<1>16. \A i \in 1..Len(seq) :
         sel[i] = IF seq[i] \in these THEN Append(sel[i - 1], seq[i]) ELSE sel[i - 1]
  BY <1>1, <1>10
<1>17. Selected(seq, these) = sel[Len(seq)]
  BY <1>1, <1>9
<1> QED
  BY <1>15, <1>16, <1>17 DEF Choosing

\* Selected takes an element more if the sequence ends with one that passes.
LEMMA SelectedOneMore ==
  ASSUME NEW S, NEW seq \in Seq(S), NEW x \in S, NEW these
  PROVE  /\ Selected(<<>>, these) = <<>>
         /\ Selected(seq, these) \in Seq(S)
         /\ Selected(Append(seq, x), these) =
              IF x \in these THEN Append(Selected(seq, these), x) ELSE Selected(seq, these)
<1> DEFINE more == Append(seq, x)
<1>1. PICK a : Choosing(S, seq, these, a) /\ Selected(seq, these) = a[Len(seq)]
  BY SelectedRecursion
<1>2. more \in Seq(S)
  OBVIOUS
<1>3. PICK b : Choosing(S, more, these, b) /\ Selected(more, these) = b[Len(more)]
  <2> HIDE DEF more
  <2> QED
    BY <1>2, SelectedRecursion
<1>4. Len(more) = Len(seq) + 1 /\ more[Len(seq) + 1] = x /\ \A i \in 1..Len(seq) : more[i] = seq[i]
  OBVIOUS
<1>5. Len(seq) \in Nat
  OBVIOUS
<1> HIDE DEF more
<1> DEFINE same == {n \in Nat : n <= Len(seq) => a[n] = b[n]}
<1>6. 0 \in same
  BY <1>1, <1>3 DEF Choosing
<1>7. ASSUME NEW n \in Nat, n \in same PROVE n + 1 \in same
  <2> SUFFICES ASSUME n + 1 <= Len(seq) PROVE a[n + 1] = b[n + 1]
    OBVIOUS
  <2>1. a[n] = b[n] /\ more[n + 1] = seq[n + 1] /\ n + 1 \in 1..Len(seq) /\ n + 1 \in 1..Len(more)
    BY <1>4, <1>5, <1>7
  <2>2. (n + 1) - 1 = n
    OBVIOUS
  <2> QED
    BY <1>1, <1>3, <2>1, <2>2 DEF Choosing
<1>8. \A n \in Nat : n \in same
  <2> HIDE DEF same
  <2> QED
    BY <1>6, <1>7, AllNumbers
<1>9. a[Len(seq)] = b[Len(seq)] /\ a[Len(seq)] \in Seq(S)
  BY <1>1, <1>5, <1>8 DEF Choosing
<1>10. b[Len(seq) + 1] = IF x \in these THEN Append(b[Len(seq)], x) ELSE b[Len(seq)]
  <2>1. Len(seq) + 1 \in 1..Len(more) /\ (Len(seq) + 1) - 1 = Len(seq)
    BY <1>4, <1>5
  <2> QED
    BY <1>3, <1>4, <2>1 DEF Choosing
<1>11. Selected(<<>>, these) = <<>>
  <2>1. <<>> \in Seq(S) /\ Len(<<>>) = 0
    OBVIOUS
  <2>2. PICK c : Choosing(S, <<>>, these, c) /\ Selected(<<>>, these) = c[Len(<<>>)]
    BY <2>1, SelectedRecursion
  <2> QED
    BY <2>1, <2>2 DEF Choosing
<1> QED
  BY <1>1, <1>3, <1>4, <1>9, <1>10, <1>11 DEF more

\* Selected keeps the order, takes all that passes and takes nothing twice.
LEMMA SelectedPositions ==
  ASSUME NEW S, NEW seq \in Seq(S), NEW these
  PROVE  \E pos \in [1..Len(Selected(seq, these)) -> 1..Len(seq)] :
           /\ \A i, j \in DOMAIN pos : i < j => pos[i] < pos[j]
           /\ \A i \in DOMAIN pos : Selected(seq, these)[i] = seq[pos[i]] /\ seq[pos[i]] \in these
           /\ \A k \in 1..Len(seq) : seq[k] \in these => \E i \in DOMAIN pos : pos[i] = k
<1>1. PICK sel : Choosing(S, seq, these, sel) /\ Selected(seq, these) = sel[Len(seq)]
  BY SelectedRecursion
<1> DEFINE Placed(n, pos) ==
             /\ pos \in [1..Len(sel[n]) -> 1..n]
             /\ \A i, j \in DOMAIN pos : i < j => pos[i] < pos[j]
             /\ \A i \in DOMAIN pos : sel[n][i] = seq[pos[i]] /\ seq[pos[i]] \in these
             /\ \A k \in 1..n : seq[k] \in these => \E i \in DOMAIN pos : pos[i] = k
           placed == {n \in Nat : n <= Len(seq) => \E pos : Placed(n, pos)}
<1>2. 0 \in placed
  <2>1. sel[0] = <<>> /\ Len(sel[0]) = 0
    BY <1>1 DEF Choosing
  <2>2. Placed(0, [i \in 1..0 |-> 0])
    BY <2>1
  <2> QED
    BY <2>2
<1>3. ASSUME NEW n \in Nat, n \in placed PROVE n + 1 \in placed
  <2> SUFFICES ASSUME n + 1 <= Len(seq) PROVE \E pos : Placed(n + 1, pos)
    <3> HIDE DEF Placed
    <3> QED
      OBVIOUS
  <2>0. n <= Len(seq) /\ Len(seq) \in Nat
    OBVIOUS
  <2>1. PICK pos : Placed(n, pos)
    <3> HIDE DEF Placed
    <3> QED
      BY <1>3, <2>0
  <2>2. sel[n] \in Seq(S) /\ Len(seq) \in Nat /\ n + 1 \in 1..Len(seq) /\ seq[n + 1] \in S
    <3>1. n \in 0..Len(seq) /\ n + 1 \in 1..Len(seq)
      BY <2>0
    <3> QED
      BY <1>1, <2>0, <3>1 DEF Choosing
  <2>3. sel[n + 1] = IF seq[n + 1] \in these THEN Append(sel[n], seq[n + 1]) ELSE sel[n]
    <3>1. (n + 1) - 1 = n
      OBVIOUS
    <3> QED
      BY <1>1, <2>2, <3>1 DEF Choosing
  <2>4. CASE seq[n + 1] \notin these
    <3>1. sel[n + 1] = sel[n]
      BY <2>3, <2>4
    <3>2. pos \in [1..Len(sel[n]) -> 1..(n + 1)]
      BY <2>1
    <3>3. \A k \in 1..(n + 1) : k # n + 1 => k \in 1..n
      OBVIOUS
    <3>4. Placed(n + 1, pos)
      BY <2>1, <2>4, <3>1, <3>2, <3>3
    <3> QED
      BY <3>4
  <2>5. CASE seq[n + 1] \in these
    <3> DEFINE l == Len(sel[n])
               p == [i \in 1..(l + 1) |-> IF i = l + 1 THEN n + 1 ELSE pos[i]]
    <3>1. l \in Nat /\ sel[n + 1] = Append(sel[n], seq[n + 1]) /\ Len(sel[n + 1]) = l + 1
      BY <2>2, <2>3, <2>5
    <3>2. sel[n + 1][l + 1] = seq[n + 1] /\ \A i \in 1..l : sel[n + 1][i] = sel[n][i]
      BY <2>2, <3>1
    <3>3. \A i \in 1..(l + 1) : i # l + 1 => i \in 1..l
      BY <3>1
    <3>4. DOMAIN pos = 1..l /\ \A i \in 1..l : pos[i] \in 1..n
      BY <2>1
    <3> HIDE DEF l
    <3>5. p \in [1..(l + 1) -> 1..(n + 1)]
      BY <3>1, <3>3, <3>4
    <3>6. \A i, j \in DOMAIN p : i < j => p[i] < p[j]
      <4> SUFFICES ASSUME NEW i \in 1..(l + 1), NEW j \in 1..(l + 1), i < j PROVE p[i] < p[j]
        OBVIOUS
      <4>1. i \in 1..l /\ pos[i] \in 1..n /\ p[i] = pos[i]
        BY <3>1, <3>4
      <4>2. CASE j = l + 1
        BY <4>1, <4>2
      <4>3. CASE j # l + 1
        BY <4>1, <4>3, <3>3, <3>4, <2>1
      <4> QED
        BY <4>2, <4>3
    <3>7. \A i \in DOMAIN p : sel[n + 1][i] = seq[p[i]] /\ seq[p[i]] \in these
      BY <2>1, <2>5, <3>2, <3>3, <3>4
    <3>8. \A k \in 1..(n + 1) : seq[k] \in these => \E i \in DOMAIN p : p[i] = k
      <4> SUFFICES ASSUME NEW k \in 1..(n + 1), seq[k] \in these PROVE \E i \in DOMAIN p : p[i] = k
        OBVIOUS
      <4>1. CASE k = n + 1
        <5>1. l + 1 \in DOMAIN p /\ p[l + 1] = k
          BY <4>1, <3>1
        <5> QED
          BY <5>1
      <4>2. CASE k # n + 1
        <5>1. k \in 1..n
          BY <4>2
        <5>2. PICK i \in 1..l : pos[i] = k
          BY <5>1, <2>1, <3>4
        <5>3. i \in DOMAIN p /\ p[i] = k
          BY <5>2, <3>1
        <5> QED
          BY <5>3
      <4> QED
        BY <4>1, <4>2
    <3>9. Placed(n + 1, p)
      <4> HIDE DEF p
      <4>1. DOMAIN p = 1..(l + 1)
        BY <3>5
      <4> QED
        BY <3>1, <3>5, <3>6, <3>7, <3>8
    <3> QED
      BY <3>9
  <2> QED
    BY <2>4, <2>5
<1>4. \A n \in Nat : n \in placed
  <2> HIDE DEF placed
  <2> QED
    BY <1>2, <1>3, AllNumbers
<1>5. PICK pos : Placed(Len(seq), pos)
  <2> HIDE DEF Placed
  <2>1. Len(seq) \in Nat /\ Len(seq) <= Len(seq)
    OBVIOUS
  <2> QED
    BY <1>4, <2>1
<1>6. Len(Selected(seq, these)) = Len(sel[Len(seq)])
  BY <1>1
<1> DEFINE k == Len(seq)
<1> HIDE DEF k
<1>7. Selected(seq, these) = sel[k] /\ Placed(k, pos)
  BY <1>1, <1>5 DEF k
<1>8. pos \in [1..Len(sel[k]) -> 1..k] /\ DOMAIN pos = 1..Len(sel[k])
  BY <1>7
<1>9. Len(Selected(seq, these)) = Len(sel[k])
  BY <1>7
<1>10. pos \in [1..Len(Selected(seq, these)) -> 1..Len(seq)]
  BY <1>8, <1>9 DEF k
<1> WITNESS pos \in [1..Len(Selected(seq, these)) -> 1..Len(seq)]
<1> QED
  BY <1>7, <1>8, <1>9 DEF k

\* A function of a finite set takes finitely many values.
LEMMA ImageIsFinite ==
  ASSUME NEW S, IsFiniteSet(S), NEW f, DOMAIN f = S
  PROVE  IsFiniteSet({f[x] : x \in S})
<1> DEFINE T == {f[x] : x \in S}
           g == [x \in S |-> f[x]]
<1>1. g \in Surjection(S, T)
  BY DEF Surjection
<1> HIDE DEF g, T
<1>2. IsFiniteSet(T)
  BY <1>1, FS_Surjection
<1> QED
  BY <1>2 DEF T

-----------------------------------------------------------------------------
(* Sequences without repetition.                                           *)

\* Sequences without repetition.
Once(seq) == \A i, j \in DOMAIN seq : seq[i] = seq[j] => i = j

\* Appending a new element adds it to the elements and repeats none.
LEMMA ToSetOfAppend ==
  ASSUME NEW S, NEW h \in Seq(S), NEW x \in S
  PROVE  /\ Append(h, x) \in Seq(S) /\ ToSet(Append(h, x)) = ToSet(h) \union {x}
         /\ ToSet(h) \subseteq S
         /\ Once(h) /\ x \notin ToSet(h) => Once(Append(h, x))
<1> DEFINE g == Append(h, x)
           n == Len(h)
<1>1. n \in Nat /\ DOMAIN h = 1..n /\ g \in Seq(S) /\ DOMAIN g = 1..(n + 1) /\ g[n + 1] = x /\ \A i \in 1..n : g[i] = h[i]
  OBVIOUS
<1>2. \A i \in 1..n : h[i] \in S
  OBVIOUS
<1> HIDE DEF g, n
<1>3. ToSet(g) = ToSet(h) \union {x}
  BY <1>1 DEF ToSet
<1>4. ToSet(h) \subseteq S
  BY <1>1, <1>2 DEF ToSet
<1>5. ASSUME Once(h), x \notin ToSet(h) PROVE Once(g)
  <2> SUFFICES ASSUME NEW i \in 1..(n + 1), NEW j \in 1..(n + 1), g[i] = g[j] PROVE i = j
    BY <1>1 DEF Once
  <2>1. \A k \in 1..n : h[k] # x
    BY <1>1, <1>5 DEF ToSet
  <2>2. \A k \in 1..(n + 1) : k = n + 1 \/ k \in 1..n
    BY <1>1
  <2> QED
    BY <1>1, <1>5, <2>1, <2>2 DEF Once
<1> QED
  BY <1>1, <1>3, <1>4, <1>5 DEF g

\* Taking the head off removes it from the elements, if none is repeated.
LEMMA ToSetOfTail ==
  ASSUME NEW S, NEW h \in Seq(S), h # <<>>
  PROVE  /\ Tail(h) \in Seq(S) /\ Head(h) \in ToSet(h)
         /\ DOMAIN Tail(h) = 1..(Len(h) - 1) /\ \A k \in DOMAIN Tail(h) : Tail(h)[k] = h[k + 1]
         /\ ToSet(Tail(h)) \subseteq ToSet(h)
         /\ Once(h) => Once(Tail(h)) /\ ToSet(Tail(h)) = ToSet(h) \ {Head(h)}
<1> DEFINE g == Tail(h)
           n == Len(h)
<1>1. n \in Nat /\ n > 0 /\ DOMAIN h = 1..n /\ g \in Seq(S) /\ DOMAIN g = 1..(n - 1) /\ Head(h) = h[1]
      /\ \A i \in 1..(n - 1) : g[i] = h[i + 1]
  <2>1. n \in Nat /\ n > 0 /\ DOMAIN h = 1..n /\ Head(h) = h[1]
    OBVIOUS
  <2>2. g \in Seq(S) /\ Len(g) = n - 1
    OBVIOUS
  <2>3. \A i \in 1..Len(g) : g[i] = h[i + 1]
    OBVIOUS
  <2> QED
    BY <2>1, <2>2, <2>3
<1> HIDE DEF g, n
<1>2. Head(h) \in ToSet(h)
  BY <1>1 DEF ToSet
<1>3. ToSet(g) \subseteq ToSet(h)
  <2>1. \A i \in 1..(n - 1) : i + 1 \in 1..n
    BY <1>1
  <2> QED
    BY <1>1, <2>1 DEF ToSet
<1>4. ASSUME Once(h) PROVE Once(g) /\ ToSet(g) = ToSet(h) \ {Head(h)}
  <2>1. Once(g)
    <3> SUFFICES ASSUME NEW i \in 1..(n - 1), NEW j \in 1..(n - 1), g[i] = g[j] PROVE i = j
      BY <1>1 DEF Once
    <3>1. i + 1 \in 1..n /\ j + 1 \in 1..n /\ h[i + 1] = h[j + 1]
      BY <1>1
    <3>2. i + 1 = j + 1
      BY <1>1, <1>4, <3>1 DEF Once
    <3> QED
      BY <3>2
  <2>2. ASSUME NEW x \in ToSet(g) PROVE x # Head(h)
    <3>1. PICK i \in 1..(n - 1) : g[i] = x
      BY <1>1 DEF ToSet
    <3>2. i + 1 \in 1..n /\ 1 \in 1..n /\ i + 1 # 1 /\ h[i + 1] = x
      BY <1>1, <3>1
    <3> QED
      BY <1>1, <1>4, <3>2 DEF Once
  <2>3. ASSUME NEW x \in ToSet(h), x # Head(h) PROVE x \in ToSet(g)
    <3>1. PICK i \in 1..n : h[i] = x
      BY <1>1 DEF ToSet
    <3>2. i # 1
      BY <1>1, <2>3, <3>1
    <3>3. i - 1 \in 1..(n - 1) /\ g[i - 1] = h[(i - 1) + 1] /\ (i - 1) + 1 = i
      BY <1>1, <3>2
    <3>4. g[i - 1] = x
      BY <3>1, <3>3
    <3> QED
      BY <1>1, <3>3, <3>4 DEF ToSet
  <2> QED
    BY <1>3, <2>1, <2>2, <2>3
<1> QED
  BY <1>1, <1>2, <1>3, <1>4 DEF g, n

\* A concatenation has the elements of both parts.
LEMMA ToSetOfConcat ==
  ASSUME NEW S, NEW h \in Seq(S), NEW g \in Seq(S)
  PROVE  /\ h \o g \in Seq(S) /\ ToSet(h \o g) = ToSet(h) \union ToSet(g)
         /\ Once(h) /\ Once(g) /\ ToSet(h) \intersect ToSet(g) = {} => Once(h \o g)
<1> DEFINE c == h \o g
           m == Len(h)
           n == Len(g)
<1>1. m \in Nat /\ n \in Nat /\ DOMAIN h = 1..m /\ DOMAIN g = 1..n /\ c \in Seq(S) /\ DOMAIN c = 1..(m + n)
  OBVIOUS
<1>2. \A i \in 1..m : c[i] = h[i]
  OBVIOUS
<1>3. \A i \in 1..n : c[i + m] = g[i] /\ i + m \in 1..(m + n)
  <2> SUFFICES ASSUME NEW i \in 1..n PROVE c[i + m] = g[i] /\ i + m \in 1..(m + n)
    OBVIOUS
  <2>1. i + m \in 1..(m + n) /\ ~(i + m <= m) /\ (i + m) - m = i
    BY <1>1
  <2> QED
    BY <2>1
<1>4. \A i \in 1..(m + n) : i \in 1..m \/ (i - m \in 1..n /\ (i - m) + m = i)
  BY <1>1
<1>5. \A i \in 1..m : i \in 1..(m + n)
  BY <1>1
<1> HIDE DEF c, m, n
<1>6. ToSet(c) = ToSet(h) \union ToSet(g)
  <2>1. ASSUME NEW i \in 1..(m + n) PROVE c[i] \in ToSet(h) \union ToSet(g)
    <3>1. CASE i \in 1..m
      BY <3>1, <1>1, <1>2 DEF ToSet
    <3>2. CASE i - m \in 1..n /\ (i - m) + m = i
      <4>1. c[i] = g[i - m]
        BY <3>2, <1>3
      <4> QED
        BY <4>1, <3>2, <1>1 DEF ToSet
    <3> QED
      BY <3>1, <3>2, <1>4
  <2>2. ToSet(h) \subseteq ToSet(c)
    BY <1>1, <1>2, <1>5 DEF ToSet
  <2>3. ToSet(g) \subseteq ToSet(c)
    BY <1>1, <1>3 DEF ToSet
  <2>4. ToSet(c) \subseteq ToSet(h) \union ToSet(g)
    BY <2>1, <1>1 DEF ToSet
  <2> QED
    BY <2>2, <2>3, <2>4
<1>7. ASSUME Once(h), Once(g), ToSet(h) \intersect ToSet(g) = {} PROVE Once(c)
  <2> SUFFICES ASSUME NEW i \in 1..(m + n), NEW j \in 1..(m + n), c[i] = c[j] PROVE i = j
    BY <1>1 DEF Once
  <2>1. \A k \in 1..m, l \in 1..n : h[k] # g[l]
    BY <1>1, <1>7 DEF ToSet
  <2>2. \A k \in 1..n : c[k + m] = g[k]
    BY <1>3
  <2>3. CASE i \in 1..m /\ j \in 1..m
    BY <2>3, <1>1, <1>2, <1>7 DEF Once
  <2>4. CASE i \in 1..m /\ j \notin 1..m
    <3>1. j - m \in 1..n /\ c[j] = g[j - m]
      BY <1>4, <2>2, <2>4
    <3> QED
      BY <1>2, <2>1, <2>4, <3>1
  <2>5. CASE i \notin 1..m /\ j \in 1..m
    <3>1. i - m \in 1..n /\ c[i] = g[i - m]
      BY <1>4, <2>2, <2>5
    <3> QED
      BY <1>2, <2>1, <2>5, <3>1
  <2>6. CASE i \notin 1..m /\ j \notin 1..m
    <3>1. i - m \in 1..n /\ c[i] = g[i - m] /\ j - m \in 1..n /\ c[j] = g[j - m]
      BY <1>4, <2>2, <2>6
    <3>2. i - m = j - m
      BY <1>1, <1>7, <3>1 DEF Once
    <3> QED
      BY <1>1, <3>2
  <2> QED
    BY <2>3, <2>4, <2>5, <2>6
<1> QED
  BY <1>1, <1>6, <1>7 DEF c

\* A selection has the elements selected, none more often than the sequence has.
LEMMA SelectedOnce ==
  ASSUME NEW S, NEW seq \in Seq(S), NEW these
  PROVE  /\ Selected(seq, these) \in Seq(S)
         /\ ToSet(Selected(seq, these)) = ToSet(seq) \intersect these
         /\ Once(seq) => Once(Selected(seq, these))
<1> DEFINE R == Selected(seq, these)
<1>1. R \in Seq(S)
  <2>1. PICK sel : Choosing(S, seq, these, sel) /\ Selected(seq, these) = sel[Len(seq)]
    BY SelectedRecursion
  <2> QED
    BY <2>1 DEF Choosing
<1>2. PICK pos \in [1..Len(R) -> 1..Len(seq)] :
        /\ \A i, j \in DOMAIN pos : i < j => pos[i] < pos[j]
        /\ \A i \in DOMAIN pos : R[i] = seq[pos[i]] /\ seq[pos[i]] \in these
        /\ \A k \in 1..Len(seq) : seq[k] \in these => \E i \in DOMAIN pos : pos[i] = k
  BY SelectedPositions
<1> HIDE DEF R
<1>3. DOMAIN R = 1..Len(R) /\ DOMAIN pos = 1..Len(R) /\ DOMAIN seq = 1..Len(seq) /\ Len(R) \in Nat /\ Len(seq) \in Nat
  BY <1>1, <1>2
<1>4. ToSet(R) = ToSet(seq) \intersect these
  BY <1>2, <1>3 DEF ToSet
<1>5. ASSUME Once(seq) PROVE Once(R)
  <2> SUFFICES ASSUME NEW i \in 1..Len(R), NEW j \in 1..Len(R), R[i] = R[j] PROVE i = j
    BY <1>3 DEF Once
  <2>1. pos[i] \in 1..Len(seq) /\ pos[j] \in 1..Len(seq) /\ seq[pos[i]] = seq[pos[j]]
    BY <1>2, <1>3
  <2>2. pos[i] = pos[j]
    BY <1>3, <1>5, <2>1 DEF Once
  <2>3. ~(i < j) /\ ~(j < i)
    BY <1>2, <1>3, <2>1, <2>2
  <2> QED
    BY <1>3, <2>3
<1> QED
  BY <1>1, <1>4, <1>5 DEF R

\* The elements of a sequence are finitely many.
LEMMA ToSetIsFinite ==
  ASSUME NEW S, NEW h \in Seq(S)
  PROVE  IsFiniteSet(ToSet(h))
<1>1. IsFiniteSet(DOMAIN h)
  <2>1. DOMAIN h = 1..Len(h) /\ Len(h) \in Nat
    OBVIOUS
  <2> QED
    BY <2>1, FS_Interval
<1> DEFINE D == DOMAIN h
<1>2. IsFiniteSet({h[i] : i \in D})
  <2>1. IsFiniteSet(D) /\ DOMAIN h = D
    BY <1>1
  <2> HIDE DEF D
  <2> QED
    BY <2>1, ImageIsFinite
<1> QED
  BY <1>2 DEF ToSet

\* A finite set can be written as a sequence without repetition.
LEMMA SetAsSequence ==
  ASSUME NEW S, IsFiniteSet(S)
  PROVE  SetToSeq(S) \in Seq(S) /\ Once(SetToSeq(S)) /\ ToSet(SetToSeq(S)) = S
<1> DEFINE n == Cardinality(S)
           q == SetToSeq(S)
<1>1. n \in Nat /\ ExistsBijection(1..n, S)
  BY FS_CardinalityType
<1>2. PICK f \in Bijection(1..n, S) : TRUE
  BY <1>1 DEF ExistsBijection
<1>3. f \in [1..n -> S] /\ \A a, b \in 1..n : f[a] = f[b] => a = b
  BY <1>2 DEF Bijection, Injection, IsInjective
<1>4. q \in [1..n -> S] /\ \A a, b \in 1..n : q[a] = q[b] => a = b
  <2>1. f \in [1..n -> S] /\ IsInjective(f)
    BY <1>2 DEF Bijection, Injection
  <2>2. q = CHOOSE g \in [1..n -> S] : IsInjective(g)
    BY DEF SetToSeq
  <2> HIDE DEF n, q
  <2>3. q \in [1..n -> S] /\ IsInjective(q)
    BY <2>1, <2>2
  <2> QED
    BY <2>3 DEF IsInjective
<1> HIDE DEF q
<1>5. q \in Seq(S) /\ DOMAIN q = 1..n
  BY <1>1, <1>4
<1>6. q \in Injection(1..n, S)
  BY <1>4 DEF Injection, IsInjective
<1>7. q \in Surjection(1..n, S)
  <2>1. IsFiniteSet(1..n) /\ Cardinality(1..n) = n
    BY <1>1, FS_Interval
  <2> DEFINE I == 1..n
  <2>2. q \in Injection(I, S) /\ IsFiniteSet(I) /\ Cardinality(I) = Cardinality(S)
    BY <1>6, <2>1
  <2> HIDE DEF I
  <2>3. q \in Surjection(I, S)
    BY <2>2, FS_Injection
  <2> QED
    BY <2>3 DEF I
<1>8. ToSet(q) = S
  BY <1>4, <1>5, <1>7 DEF ToSet, Surjection
<1> QED
  BY <1>4, <1>5, <1>8 DEF q, Once

-----------------------------------------------------------------------------
(* FlattenSeq, sequences one after another.                                *)

\* What FlattenSeq computes for the beginnings of a sequence of sequences.
Flattening(S, ss, flat) ==
  /\ flat \in [0..Len(ss) -> Seq(S)] /\ flat[0] = <<>>
  /\ \A i \in 1..Len(ss) : flat[i] = flat[i - 1] \o ss[i]

\* What FlattenSeq returns is computed part by part, from the front.
LEMMA FlattenRecursion ==
  ASSUME NEW S, NEW ss \in Seq(Seq(S))
  PROVE  \E flat : Flattening(S, ss, flat) /\ FlattenSeq(ss) = flat[Len(ss)]
<1> DEFINE n == Len(ss)
           Value(f, i) == IF i = 1 THEN ss[i] ELSE f[i - 1] \o ss[i]
           Solved(k) == \E f \in [1..k -> Seq(S)] : \A i \in 1..k : f[i] = Value(f, i)
           solved == {k \in Nat : k <= n => Solved(k)}
<1>1. n \in Nat /\ \A i \in 1..n : ss[i] \in Seq(S)
  OBVIOUS
<1>2. 0 \in solved
  <2>1. [i \in 1..0 |-> <<>>] \in [1..0 -> Seq(S)]
    OBVIOUS
  <2>2. \A i \in 1..0 : FALSE
    OBVIOUS
  <2>3. Solved(0)
    BY <2>1, <2>2
  <2> QED
    BY <2>3
<1>3. ASSUME NEW k \in Nat, k \in solved PROVE k + 1 \in solved
  <2> SUFFICES ASSUME k + 1 <= n PROVE Solved(k + 1)
    <3> HIDE DEF Solved
    <3> QED
      OBVIOUS
  <2>0. Solved(k)
    <3> HIDE DEF Solved
    <3> QED
      BY <1>1, <1>3
  <2>1. PICK f \in [1..k -> Seq(S)] : \A i \in 1..k : f[i] = Value(f, i)
    <3> HIDE DEF Value
    <3> QED
      BY <2>0
  <2> DEFINE g == [i \in 1..(k + 1) |-> IF i <= k THEN f[i] ELSE Value(f, i)]
  <2>2. \A i \in 1..(k + 1) : (i <= k /\ i \in 1..k) \/ i = k + 1
    OBVIOUS
  <2>3. ss[k + 1] \in Seq(S) /\ (k # 0 => k \in 1..k /\ f[k] \in Seq(S)) /\ (k + 1) - 1 = k
    BY <1>1
  <2>4. Value(f, k + 1) \in Seq(S)
    <3>1. CASE k = 0
      BY <2>3, <3>1
    <3>2. CASE k # 0
      BY <2>3, <3>2
    <3> QED
      BY <3>1, <3>2
  <2>5. \A i \in 1..(k + 1) : g[i] \in Seq(S)
    <3> HIDE DEF Value
    <3> QED
      BY <2>2, <2>4
  <2>6. g \in [1..(k + 1) -> Seq(S)]
    <3> DEFINE h(i) == IF i <= k THEN f[i] ELSE Value(f, i)
    <3>1. g = [i \in 1..(k + 1) |-> h(i)]
      OBVIOUS
    <3>2. \A i \in 1..(k + 1) : h(i) \in Seq(S)
      BY <2>5
    <3> HIDE DEF h, g
    <3> QED
      BY <3>1, <3>2
  <2>7. \A i \in 1..(k + 1) : i # 1 => i - 1 \in 1..k /\ g[i - 1] = f[i - 1]
    <3> HIDE DEF Value
    <3> QED
      OBVIOUS
  <2>8. \A i \in 1..(k + 1) : g[i] = Value(g, i)
    <3> SUFFICES ASSUME NEW i \in 1..(k + 1) PROVE g[i] = Value(g, i)
      OBVIOUS
    <3>1. g[i] = Value(f, i)
      <4> HIDE DEF Value
      <4> QED
        BY <2>1, <2>2
    <3> HIDE DEF g
    <3> QED
      BY <2>7, <3>1
  <2> HIDE DEF Value, g
  <2> QED
    BY <2>6, <2>8
<1>4. Solved(n)
  <2> HIDE DEF Solved
  <2>1. \A k \in Nat : k \in solved
    <3> HIDE DEF solved
    <3> QED
      BY <1>2, <1>3, AllNumbers
  <2>2. n \in solved
    BY <1>1, <2>1
  <2>3. n <= n
    BY <1>1
  <2> QED
    BY <2>2, <2>3
<1>5. PICK f \in [1..n -> Seq(S)] : \A i \in 1..n : f[i] = Value(f, i)
  BY <1>4
<1> DEFINE h == CHOOSE iter : iter = [i \in 1..n |-> Value(iter, i)]
<1>6. f = [i \in 1..n |-> Value(f, i)]
  <2> HIDE DEF Value
  <2> QED
    BY <1>5
<1>7. h = [i \in 1..n |-> Value(h, i)]
  <2> HIDE DEF Value
  <2> QED
    BY <1>6
<1>8. n # 0 => FlattenSeq(ss) = h[n]
  BY DEF FlattenSeq
<1>9. n = 0 => FlattenSeq(ss) = <<>>
  BY DEF FlattenSeq
<1> HIDE DEF h
<1>10. \A i \in 1..n : h[i] = IF i = 1 THEN ss[i] ELSE h[i - 1] \o ss[i]
  <2>1. \A i \in 1..n : h[i] = Value(h, i)
    <3> HIDE DEF Value
    <3> QED
      BY <1>7
  <2> QED
    BY <2>1
<1> DEFINE typed == {k \in Nat : k <= n /\ k # 0 => h[k] \in Seq(S)}
<1>11. 0 \in typed
  OBVIOUS
<1>12. ASSUME NEW k \in Nat, k \in typed PROVE k + 1 \in typed
  <2> SUFFICES ASSUME k + 1 <= n PROVE h[k + 1] \in Seq(S)
    OBVIOUS
  <2>1. k + 1 \in 1..n /\ (k + 1) - 1 = k /\ ss[k + 1] \in Seq(S)
    BY <1>1
  <2>2. CASE k = 0
    BY <1>10, <2>1, <2>2
  <2>3. CASE k # 0
    <3>1. h[k + 1] = h[k] \o ss[k + 1]
      <4>1. h[k + 1] = IF k + 1 = 1 THEN ss[k + 1] ELSE h[(k + 1) - 1] \o ss[k + 1]
        BY <1>10, <2>1
      <4>2. k + 1 # 1
        BY <2>3
      <4> HIDE <1>10
      <4> QED
        BY <4>1, <4>2, <2>1
    <3>2. h[k] \in Seq(S)
      BY <1>1, <1>12, <2>3
    <3> QED
      BY <2>1, <3>1, <3>2
  <2> QED
    BY <2>2, <2>3
<1>13. \A k \in Nat : k \in typed
  <2> HIDE DEF typed
  <2> QED
    BY <1>11, <1>12, AllNumbers
<1> DEFINE flat == [i \in 0..n |-> IF i = 0 THEN <<>> ELSE h[i]]
<1>14. flat \in [0..n -> Seq(S)] /\ flat[0] = <<>>
  BY <1>1, <1>13
<1>15. \A i \in 1..n : flat[i] = flat[i - 1] \o ss[i]
  <2> SUFFICES ASSUME NEW i \in 1..n PROVE flat[i] = flat[i - 1] \o ss[i]
    OBVIOUS
  <2>1. i \in 0..n /\ i - 1 \in 0..n /\ i # 0 /\ ss[i] \in Seq(S) /\ flat[i] = h[i]
    BY <1>1
  <2>2. CASE i = 1
    <3>1. flat[i - 1] = <<>> /\ flat[i] = ss[i]
      BY <1>1, <1>10, <2>1, <2>2
    <3> HIDE DEF flat
    <3> QED
      BY <2>1, <3>1
  <2>3. CASE i # 1
    <3>1. h[i] = h[i - 1] \o ss[i]
      BY <1>10, <2>3
    <3>2. flat[i - 1] = h[i - 1]
      BY <1>1, <2>1, <2>3
    <3> HIDE DEF flat
    <3> QED
      BY <2>1, <3>1, <3>2
  <2> QED
    BY <2>2, <2>3
<1>16. FlattenSeq(ss) = flat[n]
  BY <1>1, <1>8, <1>9
<1> QED
  BY <1>14, <1>15, <1>16 DEF Flattening

\* The elements of the result are those of the sequences; none is there twice if no two sequences share one.
LEMMA FlattenedParts ==
  ASSUME NEW S, NEW ss \in Seq(Seq(S))
  PROVE  /\ FlattenSeq(ss) \in Seq(S)
         /\ \A x : x \in ToSet(FlattenSeq(ss)) <=> \E i \in DOMAIN ss : x \in ToSet(ss[i])
         /\ (/\ \A i \in DOMAIN ss : Once(ss[i])
             /\ \A i, j \in DOMAIN ss : i # j => ToSet(ss[i]) \intersect ToSet(ss[j]) = {})
            => Once(FlattenSeq(ss))
<1> DEFINE n == Len(ss)
<1>1. n \in Nat /\ DOMAIN ss = 1..n /\ \A i \in 1..n : ss[i] \in Seq(S)
  OBVIOUS
<1>2. PICK flat : Flattening(S, ss, flat) /\ FlattenSeq(ss) = flat[n]
  BY FlattenRecursion
<1> HIDE DEF n
<1>3. /\ \A k \in 0..n : flat[k] \in Seq(S)
      /\ flat[0] = <<>> /\ \A i \in 1..n : flat[i] = flat[i - 1] \o ss[i]
  BY <1>2 DEF Flattening, n
<1> DEFINE Parts(k) == \A x : x \in ToSet(flat[k]) <=> \E i \in 1..k : x \in ToSet(ss[i])
           parts == {k \in Nat : k <= n => Parts(k)}
<1>4. ASSUME NEW k \in Nat, k + 1 <= n
      PROVE  /\ k \in 0..n /\ k + 1 \in 1..n /\ flat[k + 1] = flat[k] \o ss[k + 1]
             /\ ToSet(flat[k + 1]) = ToSet(flat[k]) \union ToSet(ss[k + 1])
             /\ Once(flat[k]) /\ Once(ss[k + 1]) /\ ToSet(flat[k]) \intersect ToSet(ss[k + 1]) = {} => Once(flat[k + 1])
  <2>1. k \in 0..n /\ k + 1 \in 1..n /\ (k + 1) - 1 = k
    BY <1>1, <1>4
  <2> DEFINE a == flat[k]
             b == ss[k + 1]
  <2>2. a \in Seq(S) /\ b \in Seq(S) /\ flat[k + 1] = a \o b
    BY <1>1, <1>3, <2>1
  <2> HIDE DEF a, b
  <2>3. ToSet(a \o b) = ToSet(a) \union ToSet(b)
        /\ (Once(a) /\ Once(b) /\ ToSet(a) \intersect ToSet(b) = {} => Once(a \o b))
    BY <2>2, ToSetOfConcat
  <2> QED
    BY <2>1, <2>2, <2>3 DEF a, b
<1>5. 0 \in parts
  <2>1. ToSet(flat[0]) = {}
    BY <1>3 DEF ToSet
  <2> QED
    BY <2>1
<1>6. ASSUME NEW k \in Nat, k \in parts PROVE k + 1 \in parts
  <2> SUFFICES ASSUME k + 1 <= n PROVE Parts(k + 1)
    <3> HIDE DEF Parts
    <3> QED
      OBVIOUS
  <2>1. Parts(k)
    <3> HIDE DEF Parts
    <3> QED
      BY <1>1, <1>6
  <2>2. ToSet(flat[k + 1]) = ToSet(flat[k]) \union ToSet(ss[k + 1])
    BY <1>4
  <2>3. \A i : i \in 1..(k + 1) <=> i \in 1..k \/ i = k + 1
    OBVIOUS
  <2> QED
    BY <2>1, <2>2, <2>3
<1>7. \A k \in 0..n : Parts(k)
  <2>1. \A k \in Nat : k \in parts
    <3> HIDE DEF parts
    <3> QED
      BY <1>5, <1>6, AllNumbers
  <2> HIDE DEF Parts
  <2> QED
    BY <1>1, <2>1
<1>8. ASSUME \A i \in 1..n : Once(ss[i]),
             \A i, j \in 1..n : i # j => ToSet(ss[i]) \intersect ToSet(ss[j]) = {}
      PROVE  Once(flat[n])
  <2> DEFINE once == {k \in Nat : k <= n => Once(flat[k])}
  <2>1. 0 \in once
    BY <1>3 DEF Once
  <2>2. ASSUME NEW k \in Nat, k \in once PROVE k + 1 \in once
    <3> SUFFICES ASSUME k + 1 <= n PROVE Once(flat[k + 1])
      OBVIOUS
    <3>1. Once(flat[k]) /\ Once(ss[k + 1])
      BY <1>1, <1>4, <1>8, <2>2
    <3>2. ToSet(flat[k]) \intersect ToSet(ss[k + 1]) = {}
      <4> SUFFICES ASSUME NEW x, x \in ToSet(flat[k]), x \in ToSet(ss[k + 1]) PROVE FALSE
        OBVIOUS
      <4>1. PICK i \in 1..k : x \in ToSet(ss[i])
        BY <1>4, <1>7
      <4>2. i \in 1..n /\ k + 1 \in 1..n /\ i # k + 1
        BY <1>1, <4>1
      <4> QED
        BY <1>8, <4>1, <4>2
    <3> QED
      BY <1>4, <3>1, <3>2
  <2>3. \A k \in Nat : k \in once
    <3> HIDE DEF once
    <3> QED
      BY <2>1, <2>2, AllNumbers
  <2> QED
    BY <1>1, <2>3
<1>9. n \in 0..n
  BY <1>1
<1> QED
  BY <1>1, <1>2, <1>3, <1>7, <1>8, <1>9

-----------------------------------------------------------------------------
(* SumFunction.                                                            *)



Picked(s) == CHOOSE x \in s : TRUE

\* What SumFunction computes for the sets of its indices.
Partial(f, sum) ==
  sum = [s \in SUBSET DOMAIN f |-> IF s = {} THEN 0 ELSE f[Picked(s)] + sum[s \ {Picked(s)}]]

\* Picked takes an element of the set.
LEMMA PickedOne == ASSUME NEW s, s # {} PROVE Picked(s) \in s
  BY DEF Picked

\* The recursion of SumFunction has a solution.
LEMMA PartialSumsExist ==
  ASSUME NEW f, IsFiniteSet(DOMAIN f)
  PROVE  \E sum : Partial(f, sum) /\ SumFunction(f) = sum[DOMAIN f]
<1> DEFINE D == DOMAIN f
           Level(n) == {s \in SUBSET D : Cardinality(s) <= n}
           Value(sum, s) == IF s = {} THEN 0 ELSE f[Picked(s)] + sum[s \ {Picked(s)}]
           Solved(n) == \E sum : sum = [s \in Level(n) |-> Value(sum, s)]
           G == {n \in Nat : Solved(n)}
<1>1. \A s \in SUBSET D : IsFiniteSet(s) /\ Cardinality(s) \in Nat /\ Cardinality(s) <= Cardinality(D)
  BY FS_Subset, FS_CardinalityType
<1>2. ASSUME NEW s \in SUBSET D, s # {}
      PROVE  s \ {Picked(s)} \in SUBSET D /\ Cardinality(s \ {Picked(s)}) = Cardinality(s) - 1
  BY <1>1, <1>2, PickedOne, FS_RemoveElement
<1>3. 0 \in G
  <2>1. \A s \in Level(0) : s = {}
    BY <1>1, FS_EmptySet
  <2> DEFINE none == [s \in Level(0) |-> 0]
  <2>2. none = [s \in Level(0) |-> Value(none, s)]
    BY <2>1
  <2> QED
    BY <2>2
<1>4. ASSUME NEW n \in Nat, n \in G PROVE n + 1 \in G
  <2>1. PICK sum : sum = [s \in Level(n) |-> Value(sum, s)]
    BY <1>4
  <2> DEFINE more == [s \in Level(n + 1) |-> IF s \in Level(n) THEN sum[s] ELSE Value(sum, s)]
  <2>2. ASSUME NEW s \in Level(n + 1), s # {} PROVE s \ {Picked(s)} \in Level(n)
    BY <1>1, <1>2, <2>2
  <2>3. ASSUME NEW s \in Level(n + 1) PROVE more[s] = Value(more, s)
    <3>1. CASE s = {}
      <4>1. s \in Level(n)
        BY <3>1, <1>1, FS_EmptySet
      <4>2. sum[s] = Value(sum, s)
        BY <4>1, <2>1
      <4> QED
        BY <3>1, <4>1, <4>2
    <3>2. CASE s # {}
      <4>1. s \ {Picked(s)} \in Level(n) /\ s \ {Picked(s)} \in Level(n + 1)
        BY <2>2, <3>2, <1>1
      <4>2. more[s \ {Picked(s)}] = sum[s \ {Picked(s)}]
        BY <4>1
      <4>3. more[s] = Value(sum, s)
        <5>1. CASE s \in Level(n)
          <6>1. sum[s] = Value(sum, s)
            BY <5>1, <2>1
          <6> QED
            BY <5>1, <6>1
        <5> QED
          BY <5>1
      <4> QED
        BY <3>2, <4>2, <4>3
    <3> QED
      BY <3>1, <3>2
  <2>4. more = [s \in Level(n + 1) |-> Value(more, s)]
    BY <2>3
  <2>5. Solved(n + 1)
    <3> HIDE DEF more
    <3> QED
      BY <2>4
  <2> HIDE DEF Solved
  <2> QED
    BY <2>5
<1>5. \A n \in Nat : n \in G
  <2> HIDE DEF G
  <2> QED
    BY <1>3, <1>4, AllNumbers
<1>6. Solved(Cardinality(D))
  BY <1>1, <1>5
<1>7. Level(Cardinality(D)) = SUBSET D
  BY <1>1
<1>8. \E sum : sum = [s \in SUBSET D |-> Value(sum, s)]
  BY <1>6, <1>7
<1> DEFINE total == CHOOSE sum : sum = [s \in SUBSET D |-> Value(sum, s)]
<1>9. total = [s \in SUBSET D |-> Value(total, s)]
  BY <1>8
<1>10. SumFunction(f) = total[D]
  BY DEF SumFunction, SumFunctionOnSet, FoldFunctionOnSet, MapThenFoldSet, Picked
<1> HIDE DEF total
<1> QED
  BY <1>9, <1>10 DEF Partial

\* Sums of functions that differ in one place, and of functions to natural numbers.
LEMMA SumMoves ==
  ASSUME NEW f, NEW g, NEW m \in DOMAIN f, DOMAIN g = DOMAIN f, IsFiniteSet(DOMAIN f),
         \A x \in DOMAIN f : f[x] \in Nat /\ g[x] \in Nat,
         \A x \in DOMAIN f : x # m => g[x] = f[x]
  PROVE  SumFunction(g) = SumFunction(f) + (g[m] - f[m])
<1> DEFINE D == DOMAIN f
<1>1. PICK sf : Partial(f, sf) /\ SumFunction(f) = sf[D]
  BY PartialSumsExist
<1>2. PICK sg : Partial(g, sg) /\ SumFunction(g) = sg[D]
  BY PartialSumsExist
<1> DEFINE Moved(s) == /\ sf[s] \in Nat
                       /\ sg[s] = sf[s] + (IF m \in s THEN g[m] - f[m] ELSE 0)
           G == {n \in Nat : \A s \in SUBSET D : Cardinality(s) = n => Moved(s)}
<1>3. \A s \in SUBSET D : IsFiniteSet(s) /\ Cardinality(s) \in Nat
  BY FS_Subset, FS_CardinalityType
<1>4. 0 \in G
  <2> SUFFICES ASSUME NEW s \in SUBSET D, Cardinality(s) = 0 PROVE Moved(s)
    OBVIOUS
  <2>1. s = {}
    BY <1>3, FS_EmptySet
  <2> QED
    BY <2>1, <1>1, <1>2 DEF Partial
<1>5. ASSUME NEW n \in Nat, n \in G PROVE n + 1 \in G
  <2> SUFFICES ASSUME NEW s \in SUBSET D, Cardinality(s) = n + 1 PROVE Moved(s)
    OBVIOUS
  <2> DEFINE x == Picked(s)
             r == s \ {x}
  <2>1. s # {}
    BY FS_EmptySet
  <2>2. x \in s /\ x \in D
    BY <2>1, PickedOne
  <2>3. r \in SUBSET D /\ Cardinality(r) = n
    <3>1. IsFiniteSet(s)
      BY <1>3
    <3>2. Cardinality(r) = Cardinality(s) - 1
      BY <3>1, <2>2, FS_RemoveElement
    <3> QED
      BY <3>2
  <2>4. Moved(r)
    BY <2>3, <1>5
  <2>5. sf[s] = f[x] + sf[r] /\ sg[s] = g[x] + sg[r]
    BY <1>1, <1>2, <2>1 DEF Partial
  <2>6. f[x] \in Nat /\ g[x] \in Nat /\ f[m] \in Nat /\ g[m] \in Nat
    BY <2>2
  <2> HIDE DEF x
  <2>7. CASE x = m
    <3>1. m \in s /\ m \notin r
      BY <2>7, <2>2
    <3> QED
      BY <2>7, <3>1, <2>4, <2>5, <2>6
  <2>8. CASE x # m
    <3>1. m \in s <=> m \in r
      BY <2>8
    <3>2. f[x] = g[x]
      BY <2>8, <2>2
    <3> QED
      BY <3>1, <3>2, <2>4, <2>5, <2>6
  <2> QED
    BY <2>7, <2>8
<1>6. \A n \in Nat : n \in G
  <2> HIDE DEF G
  <2> QED
    BY <1>4, <1>5, AllNumbers
<1>7. Moved(D)
  BY <1>3, <1>6
<1> QED
  BY <1>1, <1>2, <1>7

\* A sum of natural numbers is one, no smaller than each of them, and 0 if all are.
LEMMA SumOfNaturals ==
  ASSUME NEW f, IsFiniteSet(DOMAIN f), \A x \in DOMAIN f : f[x] \in Nat
  PROVE  /\ SumFunction(f) \in Nat
         /\ \A x \in DOMAIN f : f[x] <= SumFunction(f)
         /\ (\A x \in DOMAIN f : f[x] = 0) => SumFunction(f) = 0
<1> DEFINE D == DOMAIN f
<1>1. PICK sf : Partial(f, sf) /\ SumFunction(f) = sf[D]
  BY PartialSumsExist
<1> DEFINE Sound(s) == /\ sf[s] \in Nat
                       /\ \A x \in s : f[x] <= sf[s]
                       /\ (\A x \in s : f[x] = 0) => sf[s] = 0
           G == {n \in Nat : \A s \in SUBSET D : Cardinality(s) = n => Sound(s)}
<1>3. \A s \in SUBSET D : IsFiniteSet(s) /\ Cardinality(s) \in Nat
  BY FS_Subset, FS_CardinalityType
<1>4. 0 \in G
  <2> SUFFICES ASSUME NEW s \in SUBSET D, Cardinality(s) = 0 PROVE Sound(s)
    OBVIOUS
  <2>1. s = {}
    BY <1>3, FS_EmptySet
  <2> QED
    BY <2>1, <1>1 DEF Partial
<1>5. ASSUME NEW n \in Nat, n \in G PROVE n + 1 \in G
  <2> SUFFICES ASSUME NEW s \in SUBSET D, Cardinality(s) = n + 1 PROVE Sound(s)
    OBVIOUS
  <2> DEFINE x == Picked(s)
             r == s \ {x}
  <2>1. s # {}
    BY FS_EmptySet
  <2>2. x \in s /\ x \in D
    BY <2>1, PickedOne
  <2>3. r \in SUBSET D /\ Cardinality(r) = n
    <3>1. IsFiniteSet(s)
      BY <1>3
    <3>2. Cardinality(r) = Cardinality(s) - 1
      BY <3>1, <2>2, FS_RemoveElement
    <3> QED
      BY <3>2
  <2>4. Sound(r)
    BY <2>3, <1>5
  <2>5. sf[s] = f[x] + sf[r]
    BY <1>1, <2>1 DEF Partial
  <2>6. f[x] \in Nat
    BY <2>2
  <2>7. \A y \in s : y = x \/ y \in r
    OBVIOUS
  <2> HIDE DEF x, r
  <2>8. ASSUME NEW y \in s PROVE f[y] <= sf[s]
    <3>1. f[y] \in Nat
      OBVIOUS
    <3> QED
      BY <3>1, <2>4, <2>5, <2>6, <2>7
  <2>9. ASSUME \A y \in s : f[y] = 0 PROVE sf[s] = 0
    <3>1. \A y \in r : f[y] = 0
      BY <2>9 DEF r
    <3> QED
      BY <3>1, <2>9, <2>2, <2>4, <2>5
  <2> QED
    BY <2>4, <2>5, <2>6, <2>8, <2>9
<1>6. \A n \in Nat : n \in G
  <2> HIDE DEF G
  <2> QED
    BY <1>4, <1>5, AllNumbers
<1>7. Sound(D)
  BY <1>3, <1>6
<1> QED
  BY <1>1, <1>7

\* The beginnings of a sequence.
LEMMA Beginnings ==
  ASSUME NEW S, NEW seq \in Seq(S)
  PROVE  /\ SubSeq(seq, 1, 0) = <<>> /\ SubSeq(seq, 1, Len(seq)) = seq
         /\ \A n \in 0..Len(seq) : SubSeq(seq, 1, n) \in Seq(S) /\ Len(SubSeq(seq, 1, n)) = n
         /\ \A n \in Nat : n < Len(seq) =>
              /\ SubSeq(seq, 1, n + 1) = Append(SubSeq(seq, 1, n), seq[n + 1])
              /\ seq[n + 1] \in S
<1>1. \A n \in 0..Len(seq) : SubSeq(seq, 1, n) \in Seq(S) /\ Len(SubSeq(seq, 1, n)) = n
  OBVIOUS
<1>2. ASSUME NEW n \in Nat, n < Len(seq)
      PROVE  SubSeq(seq, 1, n + 1) = Append(SubSeq(seq, 1, n), seq[n + 1]) /\ seq[n + 1] \in S
  <2>1. n + 1 \in 1..Len(seq)
    BY <1>2
  <2> QED
    BY <2>1
<1>3. SubSeq(seq, 1, 0) = <<>> /\ SubSeq(seq, 1, Len(seq)) = seq
  OBVIOUS
<1> QED
  BY <1>1, <1>2, <1>3

\* What is selected of two sequences, one behind the other.
LEMMA SelectedConcat ==
  ASSUME NEW S, NEW a \in Seq(S), NEW b \in Seq(S), NEW these
  PROVE  Selected(a \o b, these) = Selected(a, these) \o Selected(b, these)
<1> DEFINE B(n) == SubSeq(b, 1, n)
           same == {n \in Nat : n <= Len(b) =>
                      Selected(a \o B(n), these) = Selected(a, these) \o Selected(B(n), these)}
<1>1. Len(b) \in Nat /\ B(0) = <<>> /\ B(Len(b)) = b
  BY Beginnings
<1>2. 0 \in same
  <2>1. a \o <<>> = a /\ Selected(<<>>, these) = <<>> /\ Selected(a, these) \in Seq(S)
    <3>1. Selected(<<>>, these) = <<>>
      <4>1. \A x \in S : Selected(<<>>, these) = <<>>
        BY SelectedOneMore
      <4>2. CASE S = {}
        <5>1. a = <<>> /\ <<>> \in Seq({1})
          BY <4>2
        <5> QED
          BY <5>1, SelectedOneMore
      <4> QED
        BY <4>1, <4>2
    <3>2. Selected(a, these) \in Seq(S)
      BY SelectedOnce
    <3> QED
      BY <3>1, <3>2
  <2>2. Selected(a, these) \o <<>> = Selected(a, these)
    BY <2>1
  <2> QED
    BY <1>1, <2>1, <2>2
<1>3. ASSUME NEW n \in Nat, n \in same PROVE n + 1 \in same
  <2> SUFFICES ASSUME n + 1 <= Len(b)
               PROVE  Selected(a \o B(n + 1), these) = Selected(a, these) \o Selected(B(n + 1), these)
    OBVIOUS
  <2>1. n < Len(b) /\ n \in 0..Len(b)
    BY <1>1
  <2>2. B(n) \in Seq(S) /\ B(n + 1) = Append(B(n), b[n + 1]) /\ b[n + 1] \in S
    BY <2>1, Beginnings
  <2> DEFINE p == B(n)
             q == B(n + 1)
             x == b[n + 1]
  <2>3. Selected(a \o p, these) = Selected(a, these) \o Selected(p, these)
    BY <1>3, <2>1
  <2>4. p \in Seq(S) /\ q = Append(p, x) /\ x \in S
    BY <2>2
  <2> HIDE DEF p, q, x
  <2>5. a \o q = Append(a \o p, x) /\ a \o p \in Seq(S)
    BY <2>4
  <2>6. Selected(q, these) = IF x \in these THEN Append(Selected(p, these), x) ELSE Selected(p, these)
    <3>1. p \in Seq(S) /\ x \in S
      BY <2>4
    <3>2. Selected(Append(p, x), these) = IF x \in these THEN Append(Selected(p, these), x) ELSE Selected(p, these)
      BY <3>1, SelectedOneMore
    <3> QED
      BY <2>4, <3>2
  <2>7. Selected(a \o q, these) = IF x \in these THEN Append(Selected(a \o p, these), x) ELSE Selected(a \o p, these)
    <3> DEFINE c == a \o p
    <3>0. a \o q = Append(c, x)
      BY <2>5
    <3>1. c \in Seq(S) /\ x \in S
      BY <2>4, <2>5
    <3> HIDE DEF c
    <3>2. Selected(Append(c, x), these) = IF x \in these THEN Append(Selected(c, these), x) ELSE Selected(c, these)
      BY <3>1, SelectedOneMore
    <3> QED
      BY <3>0, <3>2 DEF c
  <2>8. Selected(a, these) \in Seq(S) /\ Selected(p, these) \in Seq(S)
    BY <2>4, SelectedOnce
  <2>9. Selected(a, these) \o Append(Selected(p, these), x) = Append(Selected(a, these) \o Selected(p, these), x)
    BY <2>4, <2>8
  <2>10. Selected(a \o q, these) = Selected(a, these) \o Selected(q, these)
    BY <2>3, <2>6, <2>7, <2>9
  <2> QED
    BY <2>10 DEF q
<1>4. \A n \in Nat : n \in same
  <2> HIDE DEF same
  <2> QED
    BY <1>2, <1>3, AllNumbers
<1>5. Selected(a \o B(Len(b)), these) = Selected(a, these) \o Selected(B(Len(b)), these)
  BY <1>1, <1>4
<1> HIDE DEF B
<1> QED
  BY <1>1, <1>5

\* All of a sequence is selected, or none.
LEMMA SelectedWholly ==
  ASSUME NEW S, NEW seq \in Seq(S), NEW these
  PROVE  /\ (\A k \in 1..Len(seq) : seq[k] \in these) => Selected(seq, these) = seq
         /\ (\A k \in 1..Len(seq) : seq[k] \notin these) => Selected(seq, these) = <<>>
<1>1. PICK sel : Choosing(S, seq, these, sel) /\ Selected(seq, these) = sel[Len(seq)]
  BY SelectedRecursion
<1>2. Len(seq) \in Nat /\ sel[0] = <<>> /\ SubSeq(seq, 1, 0) = <<>> /\ SubSeq(seq, 1, Len(seq)) = seq
  BY <1>1, Beginnings DEF Choosing
<1>3. ASSUME NEW n \in Nat, n + 1 <= Len(seq)
      PROVE  /\ sel[n + 1] = IF seq[n + 1] \in these THEN Append(sel[n], seq[n + 1]) ELSE sel[n]
             /\ SubSeq(seq, 1, n + 1) = Append(SubSeq(seq, 1, n), seq[n + 1])
             /\ n + 1 \in 1..Len(seq)
  <2>1. n + 1 \in 1..Len(seq) /\ (n + 1) - 1 = n /\ n < Len(seq)
    BY <1>2, <1>3
  <2>2. sel[n + 1] = IF seq[n + 1] \in these THEN Append(sel[n], seq[n + 1]) ELSE sel[n]
    BY <1>1, <2>1 DEF Choosing
  <2> QED
    BY <2>1, <2>2, Beginnings
<1>4. ASSUME \A k \in 1..Len(seq) : seq[k] \in these PROVE Selected(seq, these) = seq
  <2> DEFINE all == {n \in Nat : n <= Len(seq) => sel[n] = SubSeq(seq, 1, n)}
  <2>1. 0 \in all
    BY <1>2
  <2>2. ASSUME NEW n \in Nat, n \in all PROVE n + 1 \in all
    <3> SUFFICES ASSUME n + 1 <= Len(seq) PROVE sel[n + 1] = SubSeq(seq, 1, n + 1)
      OBVIOUS
    <3>1. sel[n] = SubSeq(seq, 1, n) /\ seq[n + 1] \in these
      BY <1>2, <1>3, <1>4, <2>2
    <3> DEFINE p == SubSeq(seq, 1, n)
               q == SubSeq(seq, 1, n + 1)
    <3>2. sel[n] = p /\ q = Append(p, seq[n + 1])
      BY <1>3, <3>1
    <3>3. sel[n + 1] = Append(sel[n], seq[n + 1])
      BY <1>3, <3>1
    <3> HIDE DEF p, q
    <3>4. sel[n + 1] = q
      BY <3>2, <3>3
    <3> QED
      BY <3>4 DEF q
  <2>3. \A n \in Nat : n \in all
    <3> HIDE DEF all
    <3> QED
      BY <2>1, <2>2, AllNumbers
  <2> QED
    BY <1>1, <1>2, <2>3
<1>5. ASSUME \A k \in 1..Len(seq) : seq[k] \notin these PROVE Selected(seq, these) = <<>>
  <2> DEFINE none == {n \in Nat : n <= Len(seq) => sel[n] = <<>>}
  <2>1. 0 \in none
    BY <1>2
  <2>2. ASSUME NEW n \in Nat, n \in none PROVE n + 1 \in none
    BY <1>2, <1>3, <1>5, <2>2
  <2>3. \A n \in Nat : n \in none
    <3> HIDE DEF none
    <3> QED
      BY <2>1, <2>2, AllNumbers
  <2> QED
    BY <1>1, <1>2, <2>3
<1> QED
  BY <1>4, <1>5

\* How many are selected of a beginning.
LEMMA SelectedCount ==
  ASSUME NEW S, NEW seq \in Seq(S), NEW these, NEW n \in 0..Len(seq)
  PROVE  /\ Len(Selected(SubSeq(seq, 1, n), these)) = Cardinality({k \in 1..n : seq[k] \in these})
         /\ Len(Selected(SubSeq(seq, 1, n), these)) \in 0..n
<1> DEFINE R(m) == Selected(SubSeq(seq, 1, m), these)
           C(m) == {k \in 1..m : seq[k] \in these}
           counted == {m \in Nat : m <= Len(seq) => Len(R(m)) = Cardinality(C(m)) /\ Len(R(m)) \in 0..m}
<1>1. Len(seq) \in Nat /\ SubSeq(seq, 1, 0) = <<>>
  BY Beginnings
<1>2. 0 \in counted
  <2>1. R(0) = <<>>
    <3> DEFINE e == SubSeq(seq, 1, 0)
    <3>1. e \in Seq(S) /\ Len(e) = 0
      BY <1>1
    <3> HIDE DEF e
    <3>3. e \in Seq(S) /\ \A k \in 1..Len(e) : e[k] \notin these
      BY <3>1
    <3>2. Selected(e, these) = <<>>
      BY <3>3, SelectedWholly
    <3> QED
      BY <3>2 DEF e
  <2>2. C(0) = {}
    OBVIOUS
  <2> HIDE DEF R, C
  <2>3. Len(R(0)) = 0 /\ Cardinality(C(0)) = 0
    BY <2>1, <2>2, FS_EmptySet
  <2> QED
    BY <2>3
<1>3. ASSUME NEW m \in Nat, m \in counted PROVE m + 1 \in counted
  <2> SUFFICES ASSUME m + 1 <= Len(seq)
               PROVE  Len(R(m + 1)) = Cardinality(C(m + 1)) /\ Len(R(m + 1)) \in 0..(m + 1)
    OBVIOUS
  <2>1. m < Len(seq) /\ m \in 0..Len(seq)
    BY <1>1
  <2> DEFINE p == SubSeq(seq, 1, m)
             x == seq[m + 1]
  <2>2. p \in Seq(S) /\ SubSeq(seq, 1, m + 1) = Append(p, x) /\ x \in S
    BY <2>1, Beginnings
  <2>3. Len(R(m)) = Cardinality(C(m)) /\ Len(R(m)) \in 0..m
    BY <1>3, <2>1
  <2>4. R(m + 1) = IF x \in these THEN Append(R(m), x) ELSE R(m)
    <3> HIDE DEF x
    <3> DEFINE P == p
    <3>1. P \in Seq(S) /\ SubSeq(seq, 1, m + 1) = Append(P, x) /\ x \in S
      BY <2>2
    <3> HIDE DEF P
    <3>2. Selected(Append(P, x), these) = IF x \in these THEN Append(Selected(P, these), x) ELSE Selected(P, these)
      BY <3>1, SelectedOneMore
    <3> QED
      BY <3>1, <3>2 DEF P
  <2>5. R(m) \in Seq(S)
    <3> DEFINE P == p
    <3>1. P \in Seq(S)
      BY <2>2
    <3> HIDE DEF P
    <3>2. Selected(P, these) \in Seq(S)
      BY <3>1, SelectedOnce
    <3> QED
      BY <3>2 DEF P
  <2>6. C(m + 1) = IF x \in these THEN C(m) \union {m + 1} ELSE C(m)
    <3>1. \A k \in 1..(m + 1) : k = m + 1 \/ k \in 1..m
      OBVIOUS
    <3> QED
      BY <3>1
  <2>7. IsFiniteSet(C(m)) /\ m + 1 \notin C(m)
    <3>1. IsFiniteSet(1..m) /\ C(m) \subseteq 1..m
      BY FS_Interval
    <3> DEFINE I == 1..m
               D == C(m)
    <3>2. IsFiniteSet(I) /\ D \subseteq I
      BY <3>1
    <3> HIDE DEF I, D
    <3>3. IsFiniteSet(D)
      BY <3>2, FS_Subset
    <3> QED
      BY <3>3 DEF D
  <2> HIDE DEF R, C, x, p
  <2>8. x \in these => Len(R(m + 1)) = Len(R(m)) + 1 /\ Cardinality(C(m + 1)) = Cardinality(C(m)) + 1
    <3> DEFINE D == C(m)
               r == R(m)
    <3>1. IsFiniteSet(D) /\ m + 1 \notin D /\ r \in Seq(S) /\ x \in S
      BY <2>2, <2>5, <2>7
    <3> HIDE DEF D, r
    <3>2. Cardinality(D \union {m + 1}) = Cardinality(D) + 1
      BY <3>1, FS_AddElement
    <3>3. Len(Append(r, x)) = Len(r) + 1
      BY <3>1
    <3> QED
      BY <2>4, <2>6, <3>2, <3>3 DEF D, r
  <2>9. x \notin these => Len(R(m + 1)) = Len(R(m)) /\ Cardinality(C(m + 1)) = Cardinality(C(m))
    BY <2>4, <2>6
  <2> QED
    BY <2>3, <2>8, <2>9
<1>4. \A m \in Nat : m \in counted
  <2> HIDE DEF counted
  <2> QED
    BY <1>2, <1>3, AllNumbers
<1> QED
  BY <1>1, <1>4

\* Sequences of one element each, one after another.
LEMMA FlattenedOnes ==
  ASSUME NEW S, NEW seq \in Seq(S), NEW ss, DOMAIN ss = 1..Len(seq), ss \in Seq(Seq(S)),
         \A k \in 1..Len(seq) : ss[k] = <<seq[k]>>
  PROVE  FlattenSeq(ss) = seq
<1>1. PICK flat : Flattening(S, ss, flat) /\ FlattenSeq(ss) = flat[Len(ss)]
  BY FlattenRecursion
<1>2. Len(seq) \in Nat /\ Len(ss) = Len(seq) /\ SubSeq(seq, 1, 0) = <<>> /\ SubSeq(seq, 1, Len(seq)) = seq
  <2>1. Len(ss) \in Nat /\ DOMAIN ss = 1..Len(ss)
    OBVIOUS
  <2>2. Len(seq) \in Nat
    OBVIOUS
  <2>3. Len(ss) = Len(seq)
    <3>1. Len(ss) \in 1..Len(ss) \/ Len(ss) = 0
      BY <2>1
    <3>2. Len(seq) \in 1..Len(seq) \/ Len(seq) = 0
      BY <2>2
    <3> QED
      BY <2>1, <2>2, <3>1, <3>2
  <2> QED
    BY <2>2, <2>3, Beginnings
<1> DEFINE done == {n \in Nat : n <= Len(seq) => flat[n] = SubSeq(seq, 1, n)}
<1>3. 0 \in done
  BY <1>1, <1>2 DEF Flattening
<1>4. ASSUME NEW n \in Nat, n \in done PROVE n + 1 \in done
  <2> SUFFICES ASSUME n + 1 <= Len(seq) PROVE flat[n + 1] = SubSeq(seq, 1, n + 1)
    OBVIOUS
  <2>1. n + 1 \in 1..Len(seq) /\ (n + 1) - 1 = n /\ n < Len(seq) /\ n \in 0..Len(seq)
    BY <1>2
  <2>2. flat[n + 1] = flat[n] \o <<seq[n + 1]>>
    BY <1>1, <1>2, <2>1 DEF Flattening
  <2>3. flat[n] = SubSeq(seq, 1, n)
    BY <1>4, <2>1
  <2> DEFINE p == SubSeq(seq, 1, n)
  <2>4. p \in Seq(S) /\ SubSeq(seq, 1, n + 1) = Append(p, seq[n + 1]) /\ seq[n + 1] \in S
    BY <2>1, Beginnings
  <2>5. flat[n] = p
    BY <2>3
  <2> DEFINE y == seq[n + 1]
  <2> HIDE DEF p, y
  <2>6. p \o <<y>> = Append(p, y)
    BY <2>4 DEF y
  <2> QED
    BY <2>2, <2>4, <2>5, <2>6 DEF y
<1>5. \A n \in Nat : n \in done
  <2> HIDE DEF done
  <2> QED
    BY <1>3, <1>4, AllNumbers
<1> QED
  BY <1>1, <1>2, <1>5

\* A sequence is its beginning and the rest.
LEMMA TwoParts ==
  ASSUME NEW S, NEW seq \in Seq(S), NEW n \in 0..Len(seq)
  PROVE  SubSeq(seq, 1, n) \o SubSeq(seq, n + 1, Len(seq)) = seq
<1> DEFINE a == SubSeq(seq, 1, n)
           b == SubSeq(seq, n + 1, Len(seq))
<1>1. a \in Seq(S) /\ Len(a) = n /\ \A k \in 1..n : a[k] = seq[k]
  OBVIOUS
<1>2. b \in Seq(S) /\ Len(b) = Len(seq) - n
  OBVIOUS
<1>3. \A k \in 1..(Len(seq) - n) : b[k] = seq[k + n]
  OBVIOUS
<1>4. Len(seq) \in Nat /\ n \in Nat /\ n <= Len(seq)
  OBVIOUS
<1> HIDE DEF a, b
<1>5. a \o b \in Seq(S) /\ Len(a \o b) = Len(seq)
  BY <1>1, <1>2, <1>4
<1>6. ASSUME NEW k \in 1..Len(seq) PROVE (a \o b)[k] = seq[k]
  <2>1. CASE k <= n
    BY <1>1, <1>2, <1>4, <2>1
  <2>2. CASE ~ k <= n
    <3>1. k - n \in 1..(Len(seq) - n) /\ (k - n) + n = k
      BY <1>4, <2>2
    <3>2. (a \o b)[k] = b[k - n]
      BY <1>1, <1>2, <1>4, <2>2
    <3> QED
      BY <1>3, <3>1, <3>2
  <2> QED
    BY <2>1, <2>2
<1> DEFINE c == a \o b
<1>7. c \in Seq(S) /\ Len(c) = Len(seq) /\ \A k \in 1..Len(seq) : c[k] = seq[k]
  BY <1>5, <1>6
<1> HIDE DEF c
<1>8. c = seq
  BY <1>7
<1> QED
  BY <1>8 DEF c, a, b

\* Another last element.
LEMMA LastReplaced ==
  ASSUME NEW S, NEW f \in Seq(S), NEW x \in S, NEW y \in S
  PROVE  Append(f, y) = [Append(f, x) EXCEPT ![Len(f) + 1] = y]
<1> DEFINE p == Append(f, x)
           q == Append(f, y)
           n == Len(f) + 1
           r == [p EXCEPT ![n] = y]
<1>1. n \in Nat /\ n > 0
  OBVIOUS
<1>2. p \in Seq(S) /\ Len(p) = n /\ \A i \in 1..(n - 1) : p[i] = f[i]
  OBVIOUS
<1>3. q \in Seq(S) /\ Len(q) = n /\ q[n] = y /\ \A i \in 1..(n - 1) : q[i] = f[i]
  OBVIOUS
<1> HIDE DEF p, q, n
<1>4. r \in Seq(S) /\ Len(r) = n /\ \A i \in 1..n : r[i] = IF i = n THEN y ELSE p[i]
  BY <1>1, <1>2
<1>5. \A i \in 1..n : i = n \/ i \in 1..(n - 1)
  BY <1>1
<1> HIDE DEF r
<1>6. \A i \in 1..n : r[i] = q[i]
  BY <1>2, <1>3, <1>4, <1>5
<1>7. q = r
  BY <1>3, <1>4, <1>6
<1> QED
  BY <1>7 DEF p, q, n, r

=============================================================================
