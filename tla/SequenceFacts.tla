--------------------------- MODULE SequenceFacts ---------------------------
(***************************************************************************)
(* What a fold over a sequence goes through, for any operator. The proofs  *)
(* about the calculations instantiate it, for the library's theorems take  *)
(* an operator as a parameter, which no prover here can instantiate.       *)
(***************************************************************************)
EXTENDS Integers, Sequences, SequencesExt, WellFoundedInduction, TLAPS

CONSTANT Op(_, _)

\* Induction up to a bound, as a set of the numbers a claim holds of.
LEMMA UpTo ==
    ASSUME NEW n \in Nat, NEW A, 0 \in A, \A i \in 0..(n - 1) : i \in A => i + 1 \in A
    PROVE  \A i \in 0..n : i \in A
<1> SUFFICES ASSUME NEW k \in 0..n, k \notin A PROVE FALSE
  OBVIOUS
<1> DEFINE B == {i \in Nat : i <= n /\ i \notin A}
           R == OpToRel(<, Nat)
<1>1. B \subseteq Nat /\ B # {}
  BY k \in B
<1>2. \A i, j \in Nat : <<i, j>> \in R <=> i < j
  BY DEF OpToRel
<1>3. PICK m \in B : \A j \in B : ~(<<j, m>> \in R)
  <2>1. IsWellFoundedOn(R, Nat)
    BY NatLessThanWellFounded
  <2> HIDE DEF B, R
  <2> QED  BY <1>1, <2>1, WFMin
<1>4. m \in Nat /\ m <= n /\ m \notin A /\ m # 0
  OBVIOUS
<1> HIDE DEF R
<1>5. m - 1 \notin B
  <2>1. m - 1 \in Nat /\ m - 1 < m
    BY <1>4
  <2> QED  BY <1>2, <1>3, <1>4, <2>1
<1>6. m - 1 \in A /\ m - 1 \in 0..(n - 1)
  BY <1>4, <1>5
<1>7. (m - 1) + 1 = m
  BY <1>4
<1> QED  BY <1>4, <1>6, <1>7

LEMMA LargestOf ==
    ASSUME NEW m \in Nat, NEW s \in SUBSET (1..(m + 1)), m + 1 \in s
    PROVE  Max(s) = m + 1
<1>1. \A y \in s : m + 1 >= y
  OBVIOUS
<1>2. \E x \in s : \A y \in s : x >= y
  BY <1>1
<1>3. Max(s) \in s /\ \A y \in s : Max(s) >= y
  BY <1>2 DEF Max
<1>4. PICK x \in s : x = Max(s) /\ x >= m + 1
  BY <1>3
<1>5. x \in 1..(m + 1)
  OBVIOUS
<1> QED  BY <1>4, <1>5

LEMMA LargestIn ==
    ASSUME NEW m \in Nat, NEW s \in SUBSET (1..m), s # {}
    PROVE  Max(s) \in s
<1> DEFINE A == {i \in 0..m : \A t \in SUBSET (1..i) : t # {} => Max(t) \in t}
<1>1. 0 \in A
  <2>1. 1..0 = {} /\ 0 \in 0..m
    OBVIOUS
  <2> QED  BY <2>1
<1>2. ASSUME NEW i \in 0..(m - 1), i \in A PROVE i + 1 \in A
  <2>1. ASSUME NEW t \in SUBSET (1..(i + 1)), t # {} PROVE Max(t) \in t
    <3>1. CASE i + 1 \in t
      BY <3>1, LargestOf
    <3>2. CASE i + 1 \notin t
      <4>1. t \in SUBSET (1..i)
        BY <2>1, <3>2
      <4> QED  BY <1>2, <2>1, <4>1
    <3> QED  BY <3>1, <3>2
  <2>2. i + 1 \in 0..m
    OBVIOUS
  <2> QED  BY <2>1, <2>2
<1>3. m \in A
  <2> HIDE DEF A
  <2> QED  BY <1>1, <1>2, UpTo
<1> QED  BY <1>3

\* The function behind FoldLeft, on the sets of the first m positions.
Folds(g, base, seq, m) ==
    g = [s \in SUBSET (1..m) |-> IF s = {} THEN base ELSE Op(g[s \ {Max(s)}], seq[Max(s)])]

LEMMA FoldsOne ==
    ASSUME NEW base, NEW seq, NEW m \in Nat, NEW g, Folds(g, base, seq, m)
    PROVE  \E h : Folds(h, base, seq, m + 1)
<1> DEFINE h == [s \in SUBSET (1..(m + 1)) |->
                   IF m + 1 \in s THEN Op(g[s \ {m + 1}], seq[m + 1]) ELSE g[s]]
           k == [s \in SUBSET (1..(m + 1)) |-> IF s = {} THEN base ELSE Op(h[s \ {Max(s)}], seq[Max(s)])]
<1>1. \A s \in SUBSET (1..m) : /\ s \in SUBSET (1..(m + 1)) /\ m + 1 \notin s
                               /\ g[s] = IF s = {} THEN base ELSE Op(g[s \ {Max(s)}], seq[Max(s)])
  <2>1. \A s \in SUBSET (1..m) : s \in SUBSET (1..(m + 1)) /\ m + 1 \notin s
    OBVIOUS
  <2>2. \A s \in SUBSET (1..m) : g[s] = IF s = {} THEN base ELSE Op(g[s \ {Max(s)}], seq[Max(s)])
    BY Zenon DEF Folds
  <2> QED  BY <2>1, <2>2
<1>2. \A s \in SUBSET (1..(m + 1)) : h[s] = IF m + 1 \in s THEN Op(g[s \ {m + 1}], seq[m + 1]) ELSE g[s]
  BY Zenon
<1>3. \A s \in SUBSET (1..(m + 1)) : k[s] = IF s = {} THEN base ELSE Op(h[s \ {Max(s)}], seq[Max(s)])
  <2> HIDE DEF h
  <2> QED  BY Zenon
<1>4. DOMAIN h = SUBSET (1..(m + 1)) /\ DOMAIN k = SUBSET (1..(m + 1))
  <2>1. DOMAIN h = SUBSET (1..(m + 1))
    OBVIOUS
  <2> HIDE DEF h
  <2> QED  BY <2>1
<1>5. h = [s \in SUBSET (1..(m + 1)) |-> h[s]] /\ k = [s \in SUBSET (1..(m + 1)) |-> k[s]]
  <2>1. h = [s \in SUBSET (1..(m + 1)) |-> h[s]]
    OBVIOUS
  <2> HIDE DEF h
  <2> QED  BY <2>1
<1> HIDE DEF h, k
<1>6. ASSUME NEW s \in SUBSET (1..(m + 1)) PROVE h[s] = k[s]
  <2>1. CASE m + 1 \in s
    <3>1. Max(s) = m + 1 /\ s # {}
      BY <2>1, LargestOf
    <3>2. s \ {m + 1} \in SUBSET (1..m)
      OBVIOUS
    <3>3. h[s \ {m + 1}] = g[s \ {m + 1}]
      BY <1>1, <1>2, <3>2
    <3> QED  BY <1>2, <1>3, <2>1, <3>1, <3>3
  <2>2. CASE m + 1 \notin s /\ s # {}
    <3>1. s \in SUBSET (1..m)
      BY <2>2
    <3>2. Max(s) \in s /\ s \ {Max(s)} \in SUBSET (1..m)
      BY <2>2, <3>1, LargestIn
    <3>3. h[s] = Op(g[s \ {Max(s)}], seq[Max(s)])
      BY <1>1, <1>2, <2>2, <3>1
    <3>4. h[s \ {Max(s)}] = g[s \ {Max(s)}]
      BY <1>1, <1>2, <3>2
    <3> QED  BY <1>3, <2>2, <3>3, <3>4
  <2>3. CASE s = {}
    <3>1. {} \in SUBSET (1..m)
      OBVIOUS
    <3> QED  BY <1>1, <1>2, <1>3, <2>3, <3>1
  <2> QED  BY <2>1, <2>2, <2>3
<1>7. h = k
  BY <1>5, <1>6, Zenon
<1> QED  BY <1>7 DEF k, Folds

LEMMA FoldsAll ==
    ASSUME NEW base, NEW seq, NEW n \in Nat
    PROVE  \E g : Folds(g, base, seq, n)
<1> DEFINE A == {m \in 0..n : \E g : Folds(g, base, seq, m)}
<1>1. 0 \in A
  <2> DEFINE g == [s \in SUBSET (1..0) |-> base]
  <2>1. g = [s \in SUBSET (1..0) |-> IF s = {} THEN base ELSE Op(g[s \ {Max(s)}], seq[Max(s)])]
    OBVIOUS
  <2>2. Folds(g, base, seq, 0)
    <3> HIDE DEF g
    <3> QED  BY <2>1 DEF Folds
  <2> QED  BY <2>2
<1>2. ASSUME NEW i \in 0..(n - 1), i \in A PROVE i + 1 \in A
  BY <1>2, FoldsOne
<1>3. n \in A
  <2> HIDE DEF A
  <2> QED  BY <1>1, <1>2, UpTo
<1> QED  BY <1>3

\* What has been accumulated after each element.
Walk(acc, base, seq, n) ==
    /\ DOMAIN acc = 0..n
    /\ acc[0] = base
    /\ \A i \in 1..n : acc[i] = Op(acc[i - 1], seq[i])

\* A fold ends where a walk over the elements ends.
THEOREM FoldLeftWalks ==
    ASSUME NEW base, NEW n \in Nat, NEW seq, DOMAIN seq = 1..n
    PROVE  \E acc : Walk(acc, base, seq, n) /\ FoldLeft(Op, base, seq) = acc[n]
<1> DEFINE fold == CHOOSE g : Folds(g, base, seq, n)
           acc == [i \in 0..n |-> fold[1..i]]
<1>1. FoldLeft(Op, base, seq) = fold[1..n]
  BY DEF FoldLeft, MapThenFoldSet, Folds
<1>2. Folds(fold, base, seq, n)
  BY FoldsAll
<1> HIDE DEF fold
<1>3. ASSUME NEW i \in 1..n PROVE fold[1..i] = Op(fold[1..(i - 1)], seq[i])
  <2>1. 1..i \in SUBSET (1..n) /\ 1..i # {}
    OBVIOUS
  <2>2. Max(1..i) = i
    <3>1. (i - 1) + 1 = i /\ i - 1 \in Nat
      OBVIOUS
    <3>2. 1..i \in SUBSET (1..((i - 1) + 1)) /\ (i - 1) + 1 \in 1..i
      BY <3>1
    <3> QED  BY <3>1, <3>2, LargestOf
  <2>3. (1..i) \ {i} = 1..(i - 1)
    OBVIOUS
  <2>4. fold[1..i] = Op(fold[(1..i) \ {Max(1..i)}], seq[Max(1..i)])
    BY <1>2, <2>1, Zenon DEF Folds
  <2> QED  BY <2>2, <2>3, <2>4
<1>4. fold[1..0] = base
  <2>1. 1..0 = {} /\ {} \in SUBSET (1..n)
    OBVIOUS
  <2> QED  BY <1>2, <2>1, Zenon DEF Folds
<1>5. acc[0] = base /\ acc[n] = fold[1..n] /\ DOMAIN acc = 0..n
  BY <1>4
<1>6. ASSUME NEW i \in 1..n PROVE acc[i] = Op(acc[i - 1], seq[i])
  <2>1. i \in 0..n /\ i - 1 \in 0..n
    OBVIOUS
  <2> QED  BY <1>3, <2>1
<1> HIDE DEF acc
<1> QED  BY <1>1, <1>5, <1>6 DEF Walk

\* Only one walk begins with a base, so a walk over the first elements is the
\* beginning of every longer one.
Agreed(base, m, seq, acc, n, other, bcc) ==
    /\ m \in Nat /\ n \in Nat /\ m <= n
    /\ \A i \in 1..m : seq[i] = other[i]
    /\ Walk(acc, base, seq, m)
    /\ Walk(bcc, base, other, n)
    => \A i \in 0..m : acc[i] = bcc[i]

LEMMA WalksAgree ==
    ASSUME NEW base, NEW m, NEW seq, NEW acc, NEW n, NEW other, NEW bcc
    PROVE  Agreed(base, m, seq, acc, n, other, bcc)
<1> SUFFICES ASSUME m \in Nat, n \in Nat, m <= n, \A i \in 1..m : seq[i] = other[i],
                    Walk(acc, base, seq, m), Walk(bcc, base, other, n)
             PROVE  \A i \in 0..m : acc[i] = bcc[i]
  BY Zenon DEF Agreed
<1> DEFINE A == {i \in 0..m : acc[i] = bcc[i]}
<1>1. 0 \in A
  BY DEF Walk
<1>2. ASSUME NEW i \in 0..(m - 1), i \in A PROVE i + 1 \in A
  <2>1. i + 1 \in 1..m /\ i + 1 \in 1..n /\ (i + 1) - 1 = i
    OBVIOUS
  <2>2. acc[i + 1] = Op(acc[i], seq[i + 1])
    BY <2>1, Zenon DEF Walk
  <2>3. bcc[i + 1] = Op(bcc[i], other[i + 1])
    BY <2>1, Zenon DEF Walk
  <2> QED  BY <1>2, <2>1, <2>2, <2>3
<1>3. \A i \in 0..m : i \in A
  <2> HIDE DEF A
  <2> QED  BY <1>1, <1>2, UpTo
<1> QED  BY <1>3
=============================================================================
