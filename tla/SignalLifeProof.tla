-------------------------- MODULE SignalLifeProof ---------------------------
(***************************************************************************)
(* Proofs about the life of the signals, for any ideas, legs, ratios, risk *)
(* limits and window, any number of passes and failures.                   *)
(***************************************************************************)
EXTENDS SignalLifeProps, FiniteSetTheorems, WellFoundedInduction, TLAPS

-----------------------------------------------------------------------------
(* A pass over the market.                                                 *)

\* The members of a finite set can be put in a row, each of them once.
LEMMA SetInARow ==
    ASSUME NEW S, IsFiniteSet(S)
    PROVE  /\ SetToSeq(S) \in Seq(S) /\ Len(SetToSeq(S)) = Cardinality(S)
           /\ \A a, b \in 1..Len(SetToSeq(S)) : SetToSeq(S)[a] = SetToSeq(S)[b] => a = b
           /\ \A x \in S : \E a \in 1..Len(SetToSeq(S)) : SetToSeq(S)[a] = x
<1> DEFINE n == Cardinality(S)
<1>1. n \in Nat /\ \E f : f \in Bijection(1..n, S)
  BY FS_CardinalityType DEF ExistsBijection
<1>2. PICK f : f \in Bijection(1..n, S)
  BY <1>1
<1>3. f \in [1..n -> S] /\ IsInjective(f)
  BY <1>2 DEF Bijection, Injection, IsInjective
<1>4. SetToSeq(S) \in [1..n -> S] /\ IsInjective(SetToSeq(S))
  BY <1>3 DEF SetToSeq
<1> DEFINE q == SetToSeq(S)
<1> HIDE DEF q
<1>5. q \in Seq(S) /\ Len(q) = n /\ DOMAIN q = 1..n
  BY <1>1, <1>4 DEF q
<1>6. \A a, b \in 1..n : q[a] = q[b] => a = b
  BY <1>4, <1>5 DEF q, IsInjective
<1>7. \A x \in S : \E a \in 1..n : q[a] = x
  <2>1. q \in Injection(1..n, S)
    BY <1>4, <1>5, <1>6 DEF q, Injection, IsInjective
  <2>2. IsFiniteSet(1..n) /\ Cardinality(1..n) = n
    BY <1>1, FS_Interval
  <2>3. q \in Surjection(1..n, S)
    BY <2>1, <2>2, <1>1, FS_Injection
  <2> QED  BY <2>3 DEF Surjection
<1> QED  BY <1>1, <1>5, <1>6, <1>7 DEF q

\* A set of numbers that is not empty has a smallest one, and Min is it.
LEMMA MinIsSmallest ==
    ASSUME NEW T \in SUBSET Nat, T # {}
    PROVE  Min(T) \in T /\ \A y \in T : Min(T) <= y
<1> DEFINE R == OpToRel(<, Nat)
<1>1. IsWellFoundedOn(R, Nat)
  BY NatLessThanWellFounded
<1>2. \A m, n \in Nat : <<m, n>> \in R <=> m < n
  BY DEF OpToRel
<1> HIDE DEF R
<1>3. PICK n \in T : \A m \in T : ~(<<m, n>> \in R)
  BY <1>1, WFMin
<1>4. ASSUME NEW m \in T PROVE n <= m
  <2>1. m \in Nat /\ n \in Nat
    OBVIOUS
  <2>2. ~(m < n)
    BY <1>2, <1>3, <2>1
  <2> QED  BY <2>1, <2>2
<1> QED  BY <1>4 DEF Min

\* Every leg has room for the number of structures that is settled on.
LEMMA BaseFits ==
    ASSUME NEW size \in [Items -> Sizes], SizedLegs(size) # {}
    PROVE  BaseSize(size) \in Nat /\ SizedLegs(size) = Legs
<1>1. SizedLegs(size) = Legs
  BY DEF SizedLegs
<1>2. \A l \in Legs : size[l] \in Nat /\ Ratio[l] \in Nat \ {0}
  BY SignalAssumption DEF Items
<1>3. \A l \in Legs : size[l] \div Ratio[l] \in Nat
  BY <1>2
<1> DEFINE T == {size[l] \div Ratio[l] : l \in SizedLegs(size)}
<1>4. T \in SUBSET Nat /\ T # {}
  BY <1>1, <1>3
<1>5. Min(T) \in Nat
  BY <1>4, MinIsSmallest
<1> QED  BY <1>1, <1>5 DEF BaseSize

\* Quantities in the ratio of the legs are in that ratio to each other.
LEMMA InRatio ==
    ASSUME NEW b \in Nat, NEW r \in Nat, NEW s \in Nat
    PROVE  (b * r) * s = (b * s) * r
OBVIOUS

Signal == [item : Items, qty : Nat \ {0}, pass : Nat, life : Procs \X Nat, age : 0..Window]

\* The keys of what a pass lets through.
PassKeys(ages, offered, size) ==
    AcceptedSingles(ages, offered, size)
    \union {k \in {Structure} : AcceptedLegs(ages, offered, size) # {}}

\* The two parts of what a pass lets through.
SinglesOf(p, ages, offered, size) ==
    LET row == SetToSeq(AcceptedSingles(ages, offered, size))
    IN  [i \in 1..Len(row) |-> NewSignal(p, row[i], size[row[i]])]

LegsOf(p, ages, offered, size) ==
    LET row == SetToSeq(AcceptedLegs(ages, offered, size))
    IN  [i \in 1..Len(row) |-> NewSignal(p, row[i], BaseSize(size) * Ratio[row[i]])]

\* The singles of a pass: new, of an idea that is let through.
LEMMA PassSingles ==
    ASSUME Len(signals) \in Nat, NEW p \in Procs, life'[p] \in Nat, NEW ages,
           NEW offered \in SUBSET Keys, NEW size \in [Items -> Sizes],
           NEW new,
           new = SinglesOf(p, ages, offered, size)
    PROVE  /\ new \in Seq(Signal)
           /\ \A i \in 1..Len(new) :
                /\ new[i].item \in AcceptedSingles(ages, offered, size) /\ new[i].item \notin Legs
                /\ new[i].pass = Len(signals) + 1 /\ new[i].life = <<p, life'[p]>> /\ new[i].age = 0
<1> DEFINE taken == AcceptedSingles(ages, offered, size)
           row == SetToSeq(taken)
<1>1. /\ taken \subseteq Singles /\ \A k \in taken : size[k] > 0
      /\ IsFiniteSet(taken)
  <2>1. taken \subseteq Singles /\ \A k \in taken : size[k] > 0
    BY DEF AcceptedSingles
  <2> QED  BY <2>1, SignalAssumption, FS_Subset
<1>2. row \in Seq(taken) /\ Len(row) \in Nat
  BY <1>1, SetInARow
<1>3. new = [i \in 1..Len(row) |-> NewSignal(p, row[i], size[row[i]])]
  BY DEF SinglesOf
<1> HIDE DEF taken, row
<1>4. ASSUME NEW i \in 1..Len(row)
      PROVE  /\ NewSignal(p, row[i], size[row[i]]) \in Signal
             /\ row[i] \in taken /\ row[i] \notin Legs
  <2>1. row[i] \in taken /\ row[i] \in Items /\ row[i] \notin Legs
    BY <1>1, <1>2, SignalAssumption DEF Items
  <2>2. size[row[i]] \in Nat \ {0}
    <3>1. size[row[i]] \in Sizes /\ size[row[i]] > 0
      BY <1>1, <2>1
    <3>2. size[row[i]] \in Nat
      BY <3>1, SignalAssumption
    <3> QED  BY <3>1, <3>2
  <2>3. <<p, life'[p]>> \in Procs \X Nat /\ 0 \in 0..Window /\ Len(signals) + 1 \in Nat
    BY SignalAssumption
  <2> QED  BY <2>1, <2>2, <2>3 DEF NewSignal, Signal
<1>5. new \in Seq(Signal) /\ Len(new) = Len(row) /\ \A i \in 1..Len(row) : new[i] = NewSignal(p, row[i], size[row[i]])
  BY <1>2, <1>3, <1>4
<1>6. \A i \in 1..Len(row) :
         /\ NewSignal(p, row[i], size[row[i]]).item = row[i]
         /\ NewSignal(p, row[i], size[row[i]]).pass = Len(signals) + 1
         /\ NewSignal(p, row[i], size[row[i]]).life = <<p, life'[p]>>
         /\ NewSignal(p, row[i], size[row[i]]).age = 0
  BY DEF NewSignal
<1> QED  BY <1>4, <1>5, <1>6 DEF taken

\* A leg of s comes with every leg of the structure, in their ratio.
WholeIn(s) ==
    \A i \in 1..Len(s) : s[i].item \in Legs =>
      \A l \in Legs : \E j \in 1..Len(s) :
        s[j].item = l /\ s[j].qty * Ratio[s[i].item] = s[i].qty * Ratio[l]

\* The legs of a pass: none, or each leg once, in the ratio of the structure.
LEMMA PassLegs ==
    ASSUME Len(signals) \in Nat, NEW p \in Procs, life'[p] \in Nat, NEW ages,
           NEW offered \in SUBSET Keys, NEW size \in [Items -> Sizes],
           NEW new,
           new = LegsOf(p, ages, offered, size)
    PROVE  /\ new \in Seq(Signal)
           /\ \A i \in 1..Len(new) :
                /\ new[i].item \in Legs /\ AcceptedLegs(ages, offered, size) # {}
                /\ new[i].pass = Len(signals) + 1 /\ new[i].life = <<p, life'[p]>> /\ new[i].age = 0
           /\ WholeIn(new)
<1> DEFINE taken == AcceptedLegs(ages, offered, size)
           row == SetToSeq(taken)
           b == BaseSize(size)
<1>1. taken = {} \/ (taken = Legs /\ b \in Nat \ {0})
  BY BaseFits DEF AcceptedLegs
<1>2. /\ IsFiniteSet(taken) /\ taken \subseteq Legs
  BY <1>1, SignalAssumption, FS_EmptySet
<1>3. /\ row \in Seq(taken) /\ Len(row) \in Nat
      /\ \A x \in taken : \E a \in 1..Len(row) : row[a] = x
  BY <1>2, SetInARow
<1>4. new = [i \in 1..Len(row) |-> NewSignal(p, row[i], b * Ratio[row[i]])]
  BY DEF LegsOf
<1> HIDE DEF taken, row, b
<1>5. ASSUME NEW i \in 1..Len(row)
      PROVE  /\ row[i] \in taken /\ row[i] \in Legs /\ taken = Legs
             /\ Ratio[row[i]] \in Nat \ {0} /\ b \in Nat \ {0} /\ b * Ratio[row[i]] \in Nat \ {0}
  <2>1. row[i] \in taken /\ row[i] \in Legs /\ taken = Legs /\ b \in Nat \ {0}
    BY <1>1, <1>2, <1>3
  <2>2. Ratio[row[i]] \in Nat \ {0}
    BY <2>1, SignalAssumption
  <2>3. \A x, y \in Nat \ {0} : x * y \in Nat \ {0}
    OBVIOUS
  <2> QED  BY <2>1, <2>2, <2>3
<1>6. ASSUME NEW i \in 1..Len(row)
      PROVE  NewSignal(p, row[i], b * Ratio[row[i]]) \in Signal
  <2>1. row[i] \in Items /\ b * Ratio[row[i]] \in Nat \ {0}
    BY <1>5 DEF Items
  <2>2. <<p, life'[p]>> \in Procs \X Nat /\ 0 \in 0..Window /\ Len(signals) + 1 \in Nat
    BY SignalAssumption
  <2> QED  BY <2>1, <2>2 DEF NewSignal, Signal
<1>7. /\ new \in Seq(Signal) /\ Len(new) = Len(row)
      /\ \A i \in 1..Len(row) : new[i] = NewSignal(p, row[i], b * Ratio[row[i]])
  BY <1>3, <1>4, <1>6
<1>8. \A i \in 1..Len(row) :
         /\ NewSignal(p, row[i], b * Ratio[row[i]]).item = row[i]
         /\ NewSignal(p, row[i], b * Ratio[row[i]]).qty = b * Ratio[row[i]]
         /\ NewSignal(p, row[i], b * Ratio[row[i]]).pass = Len(signals) + 1
         /\ NewSignal(p, row[i], b * Ratio[row[i]]).life = <<p, life'[p]>>
         /\ NewSignal(p, row[i], b * Ratio[row[i]]).age = 0
  BY DEF NewSignal
<1>9. ASSUME NEW i \in 1..Len(new), NEW l \in Legs
      PROVE  \E j \in 1..Len(new) :
                new[j].item = l /\ new[j].qty * Ratio[new[i].item] = new[i].qty * Ratio[l]
  <2>1. PICK j \in 1..Len(row) : row[j] = l
    BY <1>3, <1>5, <1>7
  <2>2. /\ new[j].item = l /\ new[j].qty = b * Ratio[l]
        /\ new[i].qty = b * Ratio[row[i]] /\ new[i].item = row[i]
    BY <1>7, <1>8, <2>1
  <2>3. (b * Ratio[l]) * Ratio[row[i]] = (b * Ratio[row[i]]) * Ratio[l]
    <3>1. b \in Nat /\ Ratio[l] \in Nat /\ Ratio[row[i]] \in Nat
      BY <1>5, <1>7, SignalAssumption
    <3> QED  BY <3>1, InRatio
  <2> QED  BY <1>7, <2>2, <2>3
<1>10. ASSUME NEW i \in 1..Len(new)
       PROVE  /\ new[i].item \in Legs /\ taken # {}
              /\ new[i].pass = Len(signals) + 1 /\ new[i].life = <<p, life'[p]>> /\ new[i].age = 0
  <2>1. i \in 1..Len(row) /\ new[i] = NewSignal(p, row[i], b * Ratio[row[i]])
    BY <1>7
  <2>2. row[i] \in Legs /\ taken # {}
    BY <1>5, <2>1
  <2> QED  BY <1>8, <2>1, <2>2
<1> QED  BY <1>7, <1>9, <1>10 DEF taken, WholeIn

\* Two sequences joined.
LEMMA Joined ==
    ASSUME NEW S, NEW a \in Seq(S), NEW b \in Seq(S)
    PROVE  /\ a \o b \in Seq(S) /\ Len(a \o b) = Len(a) + Len(b)
           /\ Len(a) \in Nat /\ Len(b) \in Nat
           /\ \A i \in 1..Len(a) : i \in 1..Len(a \o b) /\ (a \o b)[i] = a[i]
           /\ \A i \in 1..Len(b) : Len(a) + i \in 1..Len(a \o b) /\ (a \o b)[Len(a) + i] = b[i]
           /\ \A i \in 1..Len(a \o b) : i \in 1..Len(a) \/ \E k \in 1..Len(b) : i = Len(a) + k
<1>1. a \o b \in Seq(S) /\ Len(a \o b) = Len(a) + Len(b) /\ Len(a) \in Nat /\ Len(b) \in Nat
  OBVIOUS
<1>2. \A i \in 1..Len(a) : i \in 1..Len(a \o b) /\ (a \o b)[i] = a[i]
  BY <1>1
<1>3. \A i \in 1..Len(b) : Len(a) + i \in 1..Len(a \o b) /\ (a \o b)[Len(a) + i] = b[i]
  BY <1>1
<1>4. ASSUME NEW i \in 1..Len(a \o b), i \notin 1..Len(a)
      PROVE  \E k \in 1..Len(b) : i = Len(a) + k
  <2>1. i - Len(a) \in 1..Len(b) /\ i = Len(a) + (i - Len(a))
    BY <1>1, <1>4
  <2> QED  BY <2>1
<1> QED  BY <1>1, <1>2, <1>3, <1>4

KeyOfItem(item) == IF item \in Legs THEN Structure ELSE item

\* A pass: new signals of one pass and one generator, of keys that are let
\* through; a structure is there with all its legs.
LEMMA PassShape ==
    ASSUME Len(signals) \in Nat, NEW p \in Procs, life'[p] \in Nat, NEW ages,
           NEW offered \in SUBSET Keys, NEW size \in [Items -> Sizes],
           NEW new, new = Accepted(p, ages, offered, size)
    PROVE  /\ new \in Seq(Signal)
           /\ \A i \in 1..Len(new) :
                /\ new[i].pass = Len(signals) + 1 /\ new[i].life = <<p, life'[p]>> /\ new[i].age = 0
                /\ KeyOfItem(new[i].item) \in PassKeys(ages, offered, size)
           /\ WholeIn(new)
<1> DEFINE a == SinglesOf(p, ages, offered, size)
           b == LegsOf(p, ages, offered, size)
<1>3. new = a \o b
  BY DEF Accepted, SinglesOf, LegsOf
<1>1. /\ a \in Seq(Signal)
      /\ \A i \in 1..Len(a) :
           /\ a[i].item \in AcceptedSingles(ages, offered, size) /\ a[i].item \notin Legs
           /\ a[i].pass = Len(signals) + 1 /\ a[i].life = <<p, life'[p]>> /\ a[i].age = 0
  BY PassSingles
<1>2. /\ b \in Seq(Signal)
      /\ \A i \in 1..Len(b) :
           /\ b[i].item \in Legs /\ AcceptedLegs(ages, offered, size) # {}
           /\ b[i].pass = Len(signals) + 1 /\ b[i].life = <<p, life'[p]>> /\ b[i].age = 0
      /\ WholeIn(b)
  BY PassLegs
<1> HIDE DEF a, b
<1>4. /\ a \o b \in Seq(Signal)
      /\ \A i \in 1..Len(a) : i \in 1..Len(a \o b) /\ (a \o b)[i] = a[i]
      /\ \A i \in 1..Len(b) : Len(a) + i \in 1..Len(a \o b) /\ (a \o b)[Len(a) + i] = b[i]
      /\ \A i \in 1..Len(a \o b) : i \in 1..Len(a) \/ \E k \in 1..Len(b) : i = Len(a) + k
  BY <1>1, <1>2, Joined
<1>5. ASSUME NEW i \in 1..Len(new)
      PROVE  \/ i \in 1..Len(a) /\ new[i] = a[i] /\ new[i].item \notin Legs
             \/ \E k \in 1..Len(b) : i = Len(a) + k /\ new[i] = b[k] /\ new[i].item \in Legs
  <2>1. CASE i \in 1..Len(a)
    <3>1. new[i] = a[i]
      BY <1>3, <1>4, <2>1
    <3>2. a[i].item \notin Legs
      BY <1>1, <2>1
    <3> QED  BY <2>1, <3>1, <3>2
  <2>2. CASE \E k \in 1..Len(b) : i = Len(a) + k
    <3>1. PICK k \in 1..Len(b) : i = Len(a) + k
      BY <2>2
    <3>2. new[i] = b[k] /\ b[k].item \in Legs
      BY <1>2, <1>3, <1>4, <3>1
    <3> QED  BY <3>1, <3>2
  <2> QED  BY <1>3, <1>4, <2>1, <2>2
<1>6. ASSUME NEW i \in 1..Len(new)
      PROVE  /\ new[i].pass = Len(signals) + 1 /\ new[i].life = <<p, life'[p]>> /\ new[i].age = 0
             /\ KeyOfItem(new[i].item) \in PassKeys(ages, offered, size)
  <2>1. CASE i \in 1..Len(a) /\ new[i] = a[i] /\ new[i].item \notin Legs
    <3>1. KeyOfItem(new[i].item) = a[i].item /\ a[i].item \in PassKeys(ages, offered, size)
      BY <1>1, <2>1 DEF KeyOfItem, PassKeys
    <3> QED  BY <1>1, <2>1, <3>1
  <2>2. CASE \E k \in 1..Len(b) : i = Len(a) + k /\ new[i] = b[k] /\ new[i].item \in Legs
    <3>1. PICK k \in 1..Len(b) : new[i] = b[k] /\ new[i].item \in Legs
      BY <2>2
    <3>2. KeyOfItem(new[i].item) = Structure /\ Structure \in PassKeys(ages, offered, size)
      BY <1>2, <3>1 DEF KeyOfItem, PassKeys
    <3> QED  BY <1>2, <3>1, <3>2
  <2> QED  BY <1>5, <2>1, <2>2
<1>7. ASSUME NEW i \in 1..Len(new), new[i].item \in Legs, NEW l \in Legs
      PROVE  \E j \in 1..Len(new) :
                new[j].item = l /\ new[j].qty * Ratio[new[i].item] = new[i].qty * Ratio[l]
  <2>1. PICK k \in 1..Len(b) : new[i] = b[k]
    BY <1>5, <1>7
  <2>2. PICK j \in 1..Len(b) : b[j].item = l /\ b[j].qty * Ratio[b[k].item] = b[k].qty * Ratio[l]
    <3>1. b[k].item \in Legs
      BY <1>2
    <3> QED  BY <1>2, <3>1 DEF WholeIn
  <2>3. Len(a) + j \in 1..Len(new) /\ new[Len(a) + j] = b[j]
    BY <1>3, <1>4
  <2> QED  BY <2>1, <2>2, <2>3
<1>8. WholeIn(new)
  BY <1>7 DEF WholeIn
<1> QED  BY <1>3, <1>4, <1>6, <1>8

-----------------------------------------------------------------------------
(* The inductive invariant.                                                *)

Outcome == [result : Results, profit : BOOLEAN]

Typed ==
    /\ signals \in Seq(Signal)
    /\ outcomes \in Seq(Outcome) /\ Len(outcomes) = Len(signals)
    /\ pc \in [Procs -> {"idle", "deliver", "save"}]
    /\ emitted \in [Procs -> [Keys -> {Never} \union 0..Window]]
    /\ out \in [Procs -> Seq(Nat)] /\ life \in [Procs -> Nat]
    /\ told \subseteq Ids /\ todo \in [Evaluators -> SUBSET log]
    /\ failures \in 0..MaxFailures

\* Every signal is in the log, dropped, or waits once in one of the queues.
Queues ==
    /\ log \subseteq Ids /\ dropped \subseteq Ids \ log
    /\ \A p \in Procs : /\ pc[p] = "idle" <=> out[p] = <<>>
                        /\ \A a \in 1..Len(out[p]) : out[p][a] \in Ids \ (log \union dropped)
                        /\ \A a, b \in 1..Len(out[p]) : out[p][a] = out[p][b] => a = b
    /\ \A p, q \in Procs : p # q =>
         \A a \in 1..Len(out[p]), b \in 1..Len(out[q]) : out[p][a] # out[q][b]
    /\ \A i \in Ids : i \in log \/ i \in dropped \/ \E p \in Procs : \E a \in 1..Len(out[p]) : out[p][a] = i
    /\ \A i \in Ids : outcomes[i] # NoOutcome => i \in log

\* A leg was generated with every leg of its structure, in their ratio.
Structures ==
    \A i \in Ids : signals[i].item \in Legs =>
      \A l \in Legs : \E j \in Ids :
        /\ signals[j].item = l /\ signals[j].pass = signals[i].pass
        /\ signals[j].qty * Ratio[signals[i].item] = signals[i].qty * Ratio[l]

\* What was told is past the queues, or the next to be logged.
Telling ==
    /\ \A i \in told : i \in log \/ i \in dropped \/ \E p \in Procs : pc[p] = "save" /\ out[p][1] = i
    /\ Cardinality(told \intersect dropped) <= failures

\* Generators are numbered, and each knows the age of what it emitted.
Emissions ==
    /\ \A p \in Procs : life[p] <= Len(signals) + 1
    /\ \A i \in Ids : signals[i].life[2] <= Len(signals)
    /\ \A p \in Procs, i \in Ids : signals[i].life = <<p, life[p]>> =>
         /\ emitted[p][KeyOf(i)] # Never
         /\ signals[i].age >= emitted[p][KeyOf(i)]

LifeInv == Typed /\ Queues /\ Structures /\ Telling /\ Emissions /\ NoRepeatInOneLife

-----------------------------------------------------------------------------
(* Each action keeps it.                                                   *)

\* What a pass of p does, with what PassShape says of the signals it adds.
Passed(p, new, keys, ages) ==
    /\ new \in Seq(Signal) /\ new # <<>> /\ WholeIn(new)
    /\ \A k \in 1..Len(new) :
         /\ new[k].pass = Len(signals) + 1 /\ new[k].life = <<p, life'[p]>> /\ new[k].age = 0
         /\ KeyOfItem(new[k].item) \in keys
    /\ keys \subseteq Keys
    /\ ages \in [Keys -> {Never} \union 0..Window]
    /\ \A k \in keys : ages[k] = Never \/ ages[k] >= Window
    /\ signals' = signals \o new
    /\ outcomes' = outcomes \o [i \in 1..Len(new) |-> NoOutcome]
    /\ out' = [out EXCEPT ![p] = [i \in 1..Len(new) |-> Len(signals) + i]]
    /\ emitted' = [emitted EXCEPT ![p] = [k \in Keys |-> IF k \in keys THEN 0 ELSE ages[k]]]
    /\ pc[p] = "idle" /\ pc' = [pc EXCEPT ![p] = "deliver"]
    /\ \/ life' = [life EXCEPT ![p] = Len(signals) + 1]
       \/ life' = life /\ ages = emitted[p]
    /\ told' = told /\ log' = log /\ todo' = todo /\ dropped' = dropped /\ failures' = failures

LEMMA GeneratePasses ==
    ASSUME LifeInv, NEW p \in Procs, Generate(p)
    PROVE  \E new, keys, ages : Passed(p, new, keys, ages)
<1>1. Typed /\ Len(signals) \in Nat
  BY DEF LifeInv, Typed
<1> DEFINE ages == IF p = "web" THEN NoneEmitted ELSE emitted[p]
<1>2. ages \in [Keys -> {Never} \union 0..Window]
  <2>1. NoneEmitted \in [Keys -> {Never} \union 0..Window]
    BY DEF NoneEmitted
  <2> QED  BY <1>1, <2>1 DEF Typed
<1>3. /\ life'[p] \in Nat
      /\ \/ life' = [life EXCEPT ![p] = Len(signals) + 1]
         \/ life' = life /\ ages = emitted[p]
  <2>1. CASE p = "web"
    <3>1. life' = [life EXCEPT ![p] = Len(signals) + 1]
      BY <2>1 DEF Generate
    <3> QED  BY <1>1, <3>1 DEF Typed
  <2>2. CASE p # "web"
    <3>1. life' = life /\ ages = emitted[p]
      BY <2>2 DEF Generate
    <3> QED  BY <1>1, <3>1 DEF Typed
  <2> QED  BY <2>1, <2>2
<1> HIDE DEF ages
<1>4. PICK offered \in SUBSET Keys, size \in [Items -> Sizes] :
        LET new == Accepted(p, ages, offered, size)
            keys == PassKeys(ages, offered, size)
        IN  /\ new # <<>>
            /\ signals' = signals \o new
            /\ outcomes' = outcomes \o [i \in 1..Len(new) |-> NoOutcome]
            /\ out' = [out EXCEPT ![p] = [i \in 1..Len(new) |-> Len(signals) + i]]
            /\ emitted' = [emitted EXCEPT ![p] = [k \in Keys |-> IF k \in keys THEN 0 ELSE ages[k]]]
  BY Zenon DEF Generate, PassKeys, ages
<1> DEFINE new == Accepted(p, ages, offered, size)
           keys == PassKeys(ages, offered, size)
<1>5. /\ new \in Seq(Signal) /\ WholeIn(new)
      /\ \A i \in 1..Len(new) :
           /\ new[i].pass = Len(signals) + 1 /\ new[i].life = <<p, life'[p]>> /\ new[i].age = 0
           /\ KeyOfItem(new[i].item) \in keys
  BY <1>1, <1>3, PassShape
<1>6. keys \subseteq Keys /\ \A k \in keys : ages[k] = Never \/ ages[k] >= Window
  <2>1. \A k \in keys : k \in Keys /\ ~IsDuplicate(ages, k)
    BY DEF PassKeys, AcceptedSingles, AcceptedLegs, Keys
  <2>2. \A k \in keys : ages[k] \in {Never} \union 0..Window /\ Window \in Nat
    BY <1>2, <2>1, SignalAssumption
  <2> QED  BY <2>1, <2>2 DEF IsDuplicate, Never
<1>7. /\ pc[p] = "idle" /\ pc' = [pc EXCEPT ![p] = "deliver"]
      /\ told' = told /\ log' = log /\ todo' = todo /\ dropped' = dropped /\ failures' = failures
  BY DEF Generate
<1> HIDE DEF new, keys
<1>8. /\ new # <<>>
      /\ signals' = signals \o new
      /\ outcomes' = outcomes \o [i \in 1..Len(new) |-> NoOutcome]
      /\ out' = [out EXCEPT ![p] = [i \in 1..Len(new) |-> Len(signals) + i]]
      /\ emitted' = [emitted EXCEPT ![p] = [k \in Keys |-> IF k \in keys THEN 0 ELSE ages[k]]]
  BY <1>4 DEF new, keys
<1>9. Passed(p, new, keys, ages)
  BY <1>2, <1>3, <1>5, <1>6, <1>7, <1>8 DEF Passed
<1> QED  BY <1>9

\* The signals after a pass: the old ones where they were, then the new ones.
LEMMA PassGrows ==
    ASSUME Typed, NEW p \in Procs, NEW new, NEW keys, NEW ages, Passed(p, new, keys, ages)
    PROVE  /\ signals' \in Seq(Signal) /\ Len(signals') = Len(signals) + Len(new)
           /\ outcomes' \in Seq(Outcome) /\ Len(outcomes') = Len(signals')
           /\ Len(signals) \in Nat /\ Len(new) \in Nat \ {0} /\ Ids \subseteq Ids'
           /\ \A i \in Ids : signals'[i] = signals[i] /\ outcomes'[i] = outcomes[i]
           /\ \A k \in 1..Len(new) : /\ Len(signals) + k \in Ids' /\ Len(signals) + k \notin Ids
                                     /\ signals'[Len(signals) + k] = new[k]
                                     /\ outcomes'[Len(signals) + k] = NoOutcome
           /\ \A i \in Ids' : i \in Ids \/ \E k \in 1..Len(new) : i = Len(signals) + k
<1>1. /\ signals \in Seq(Signal) /\ new \in Seq(Signal) /\ new # <<>> /\ Len(outcomes) = Len(signals)
      /\ outcomes \in Seq(Outcome) /\ signals' = signals \o new
  BY DEF Typed, Passed
<1> DEFINE none == [i \in 1..Len(new) |-> NoOutcome]
<1>2. Len(new) \in Nat \ {0} /\ Len(signals) \in Nat
  BY <1>1
<1>3. /\ none \in Seq(Outcome) /\ Len(none) = Len(new) /\ \A k \in 1..Len(new) : none[k] = NoOutcome
  <2>1. NoOutcome \in Outcome
    BY DEF NoOutcome, Outcome, Results
  <2> QED  BY <1>2, <2>1
<1>4. outcomes' = outcomes \o none
  BY DEF Passed
<1> HIDE DEF none
<1>5. /\ signals' \in Seq(Signal) /\ Len(signals') = Len(signals) + Len(new)
      /\ outcomes' \in Seq(Outcome) /\ Len(outcomes') = Len(signals')
  <2>1. signals' \in Seq(Signal) /\ Len(signals') = Len(signals) + Len(new)
    BY <1>1, Joined
  <2>2. outcomes' \in Seq(Outcome) /\ Len(outcomes') = Len(outcomes) + Len(none)
    BY <1>1, <1>3, <1>4, Joined
  <2> QED  BY <1>1, <1>3, <2>1, <2>2
<1>6. \A i \in 1..Len(signals) : i \in 1..Len(signals') /\ signals'[i] = signals[i]
  BY <1>1, Joined
<1>7. \A k \in 1..Len(new) : Len(signals) + k \in 1..Len(signals') /\ signals'[Len(signals) + k] = new[k]
  BY <1>1, Joined
<1>8. \A i \in 1..Len(signals) : outcomes'[i] = outcomes[i]
  BY <1>1, <1>3, <1>4, Joined
<1>9. \A k \in 1..Len(new) : outcomes'[Len(signals) + k] = NoOutcome
  BY <1>1, <1>3, <1>4, Joined
<1>10. \A i \in 1..Len(signals') : i \in 1..Len(signals) \/ \E k \in 1..Len(new) : i = Len(signals) + k
  BY <1>1, Joined
<1>11. \A k \in 1..Len(new) : Len(signals) + k \notin 1..Len(signals)
  BY <1>2
<1>12. Ids = 1..Len(signals) /\ Ids' = 1..Len(signals')
  BY DEF Ids
<1> QED  BY <1>2, <1>5, <1>6, <1>7, <1>8, <1>9, <1>10, <1>11, <1>12

LEMMA PassTyped ==
    ASSUME Typed, NEW p \in Procs, NEW new, NEW keys, NEW ages, Passed(p, new, keys, ages)
    PROVE  Typed'
<1>1. /\ signals' \in Seq(Signal) /\ outcomes' \in Seq(Outcome) /\ Len(outcomes') = Len(signals')
      /\ Len(signals) \in Nat /\ Len(new) \in Nat /\ Ids \subseteq Ids'
  BY PassGrows
<1>2. pc' \in [Procs -> {"idle", "deliver", "save"}]
  BY DEF Typed, Passed
<1>3. emitted' \in [Procs -> [Keys -> {Never} \union 0..Window]]
  <2>1. 0 \in 0..Window
    BY SignalAssumption
  <2>2. [k \in Keys |-> IF k \in keys THEN 0 ELSE ages[k]] \in [Keys -> {Never} \union 0..Window]
    BY <2>1 DEF Passed
  <2> QED  BY <2>2 DEF Typed, Passed
<1>4. out' \in [Procs -> Seq(Nat)]
  <2>1. [i \in 1..Len(new) |-> Len(signals) + i] \in Seq(Nat)
    BY <1>1
  <2> QED  BY <2>1 DEF Typed, Passed
<1>5. life' \in [Procs -> Nat]
  <2>1. life' = [life EXCEPT ![p] = Len(signals) + 1] \/ life' = life
    BY DEF Passed
  <2>2. life \in [Procs -> Nat] /\ Len(signals) + 1 \in Nat
    BY <1>1 DEF Typed
  <2> QED  BY <2>1, <2>2
<1>6. told' \subseteq Ids' /\ todo' \in [Evaluators -> SUBSET log'] /\ failures' \in 0..MaxFailures
  BY <1>1 DEF Typed, Passed
<1> QED  BY <1>1, <1>2, <1>3, <1>4, <1>5, <1>6 DEF Typed

LEMMA PassQueues ==
    ASSUME Typed, Queues, NEW p \in Procs, NEW new, NEW keys, NEW ages, Passed(p, new, keys, ages)
    PROVE  Queues'
<1>1. /\ Len(signals) \in Nat /\ Len(new) \in Nat \ {0} /\ Ids \subseteq Ids'
      /\ \A i \in Ids : outcomes'[i] = outcomes[i]
      /\ \A k \in 1..Len(new) : /\ Len(signals) + k \in Ids' /\ Len(signals) + k \notin Ids
                                /\ outcomes'[Len(signals) + k] = NoOutcome
      /\ \A i \in Ids' : i \in Ids \/ \E k \in 1..Len(new) : i = Len(signals) + k
  BY PassGrows
<1>2. /\ log' = log /\ dropped' = dropped /\ log \subseteq Ids /\ dropped \subseteq Ids
      /\ out[p] = <<>>
  BY DEF Passed, Queues
<1>3. /\ Len(out'[p]) = Len(new) /\ \A a \in 1..Len(new) : out'[p][a] = Len(signals) + a
      /\ \A q \in Procs : q # p => out'[q] = out[q]
      /\ pc'[p] = "deliver" /\ \A q \in Procs : q # p => pc'[q] = pc[q]
      /\ out'[p] # <<>>
  <2>1. out' = [out EXCEPT ![p] = [i \in 1..Len(new) |-> Len(signals) + i]]
    BY DEF Passed
  <2>2. out'[p] = [i \in 1..Len(new) |-> Len(signals) + i] /\ \A q \in Procs : q # p => out'[q] = out[q]
    BY <2>1 DEF Typed
  <2>3. Len(out'[p]) = Len(new) /\ \A a \in 1..Len(new) : out'[p][a] = Len(signals) + a
    BY <1>1, <2>2
  <2>4. pc'[p] = "deliver" /\ \A q \in Procs : q # p => pc'[q] = pc[q]
    BY DEF Typed, Passed
  <2> QED  BY <1>1, <2>2, <2>3, <2>4
<1>4. log' \subseteq Ids' /\ dropped' \subseteq Ids' \ log'
  BY <1>1, <1>2 DEF Queues
<1>5. ASSUME NEW q \in Procs
      PROVE  /\ pc'[q] = "idle" <=> out'[q] = <<>>
             /\ \A a \in 1..Len(out'[q]) : out'[q][a] \in Ids' \ (log' \union dropped')
             /\ \A a, b \in 1..Len(out'[q]) : out'[q][a] = out'[q][b] => a = b
  <2>1. CASE q = p
    BY <1>1, <1>2, <1>3, <2>1
  <2>2. CASE q # p
    BY SMTT(30), <1>1, <1>2, <1>3, <2>2 DEF Queues
  <2> QED  BY <2>1, <2>2
<1>6. ASSUME NEW q \in Procs, NEW r \in Procs, q # r,
             NEW a \in 1..Len(out'[q]), NEW b \in 1..Len(out'[r])
      PROVE  out'[q][a] # out'[r][b]
  <2>1. \A s \in Procs : s # p => \A c \in 1..Len(out'[s]) : out'[s][c] \in Ids
    BY <1>3 DEF Queues
  <2>2. \A c \in 1..Len(out'[p]) : out'[p][c] \notin Ids
    BY <1>1, <1>3
  <2>3. CASE q = p
    <3>1. out'[q][a] \notin Ids
      BY <1>6, <2>2, <2>3
    <3>2. out'[r][b] \in Ids
      BY <1>6, <2>1, <2>3
    <3> QED  BY <3>1, <3>2
  <2>4. CASE r = p
    <3>1. out'[r][b] \notin Ids
      BY <1>6, <2>2, <2>4
    <3>2. out'[q][a] \in Ids
      BY <1>6, <2>1, <2>4
    <3> QED  BY <3>1, <3>2
  <2>5. CASE q # p /\ r # p
    <3>1. \A x, y \in Procs : x # y =>
            \A c \in 1..Len(out[x]), d \in 1..Len(out[y]) : out[x][c] # out[y][d]
      BY DEF Queues
    <3>2. out'[q] = out[q] /\ out'[r] = out[r]
      BY <1>3, <2>5
    <3> QED  BY <1>6, <3>1, <3>2
  <2> QED  BY <2>3, <2>4, <2>5
<1>7. ASSUME NEW i \in Ids'
      PROVE  i \in log' \/ i \in dropped' \/ \E q \in Procs : \E a \in 1..Len(out'[q]) : out'[q][a] = i
  <2>1. CASE i \in Ids
    <3>1. i \in log \/ i \in dropped \/ \E q \in Procs : \E a \in 1..Len(out[q]) : out[q][a] = i
      BY <2>1 DEF Queues
    <3>2. CASE \E q \in Procs : \E a \in 1..Len(out[q]) : out[q][a] = i
      <4>1. PICK q \in Procs : \E a \in 1..Len(out[q]) : out[q][a] = i
        BY <3>2
      <4>2. q # p
        BY <1>2, <4>1
      <4> QED  BY <1>3, <4>1, <4>2
    <3> QED  BY <1>2, <3>1, <3>2
  <2>2. CASE \E k \in 1..Len(new) : i = Len(signals) + k
    BY <1>3, <2>2
  <2> QED  BY <1>1, <2>1, <2>2
<1>8. ASSUME NEW i \in Ids', outcomes'[i] # NoOutcome PROVE i \in log'
  BY <1>1, <1>2, <1>8 DEF Queues
<1> QED  BY <1>4, <1>5, <1>6, <1>7, <1>8 DEF Queues

LEMMA PassStructures ==
    ASSUME Typed, Structures, NEW p \in Procs, NEW new, NEW keys, NEW ages, Passed(p, new, keys, ages)
    PROVE  Structures'
<1>1. /\ Ids \subseteq Ids' /\ \A i \in Ids : signals'[i] = signals[i]
      /\ \A k \in 1..Len(new) : Len(signals) + k \in Ids' /\ signals'[Len(signals) + k] = new[k]
      /\ \A i \in Ids' : i \in Ids \/ \E k \in 1..Len(new) : i = Len(signals) + k
  BY PassGrows
<1>2. SUFFICES ASSUME NEW i \in Ids', signals'[i].item \in Legs, NEW l \in Legs
      PROVE  \E j \in Ids' : /\ signals'[j].item = l /\ signals'[j].pass = signals'[i].pass
                             /\ signals'[j].qty * Ratio[signals'[i].item] = signals'[i].qty * Ratio[l]
  BY DEF Structures
<1>3. CASE i \in Ids
  <2>1. signals'[i] = signals[i]
    BY <1>1, <1>3
  <2>2. PICK j \in Ids : /\ signals[j].item = l /\ signals[j].pass = signals[i].pass
                         /\ signals[j].qty * Ratio[signals[i].item] = signals[i].qty * Ratio[l]
    BY <1>2, <1>3, <2>1 DEF Structures
  <2>3. signals'[j] = signals[j] /\ j \in Ids'
    BY <1>1
  <2> QED  BY <2>1, <2>2, <2>3
<1>4. CASE \E k \in 1..Len(new) : i = Len(signals) + k
  <2>1. PICK k \in 1..Len(new) : i = Len(signals) + k
    BY <1>4
  <2>2. signals'[i] = new[k] /\ new[k].pass = Len(signals) + 1
    BY <1>1, <2>1 DEF Passed
  <2>3. PICK m \in 1..Len(new) : /\ new[m].item = l
                                 /\ new[m].qty * Ratio[new[k].item] = new[k].qty * Ratio[l]
    BY <1>2, <2>2 DEF Passed, WholeIn
  <2>4. Len(signals) + m \in Ids' /\ signals'[Len(signals) + m] = new[m] /\ new[m].pass = Len(signals) + 1
    BY <1>1 DEF Passed
  <2> QED  BY <2>2, <2>3, <2>4
<1> QED  BY <1>1, <1>3, <1>4

LEMMA PassTelling ==
    ASSUME Typed, Queues, Telling, NEW p \in Procs, NEW new, NEW keys, NEW ages, Passed(p, new, keys, ages)
    PROVE  Telling'
<1>1. told' = told /\ log' = log /\ dropped' = dropped /\ failures' = failures
  BY DEF Passed
<1>2. \A q \in Procs : pc[q] = "save" => pc'[q] = "save" /\ out'[q] = out[q]
  BY DEF Typed, Passed
<1>3. \A i \in told' : i \in log' \/ i \in dropped' \/ \E q \in Procs : pc'[q] = "save" /\ out'[q][1] = i
  BY <1>1, <1>2 DEF Telling
<1> QED  BY <1>1, <1>3 DEF Telling

LEMMA KeysOfIds == \A i : KeyOf(i) = KeyOfItem(signals[i].item)
BY DEF KeyOf, KeyOfItem

LEMMA KeysOfNextIds == \A i : KeyOf(i)' = KeyOfItem(signals'[i].item)
BY DEF KeyOf, KeyOfItem

LEMMA PassEmissions ==
    ASSUME Typed, Emissions, NEW p \in Procs, NEW new, NEW keys, NEW ages, Passed(p, new, keys, ages)
    PROVE  Emissions'
<1>1. /\ Len(signals') = Len(signals) + Len(new) /\ Len(signals) \in Nat /\ Len(new) \in Nat \ {0}
      /\ \A i \in Ids : signals'[i] = signals[i]
      /\ \A k \in 1..Len(new) : signals'[Len(signals) + k] = new[k]
      /\ \A i \in Ids' : i \in Ids \/ \E k \in 1..Len(new) : i = Len(signals) + k
  BY PassGrows
<1>2. life \in [Procs -> Nat] /\ \A i \in Ids : signals[i] \in Signal
  BY DEF Typed, Ids
<1>3. \/ life' = [life EXCEPT ![p] = Len(signals) + 1]
      \/ life' = life /\ ages = emitted[p]
  BY DEF Passed
<1>4. /\ life'[p] \in Nat /\ life'[p] <= Len(signals) + 1
      /\ \A q \in Procs : q # p => life'[q] = life[q]
  BY <1>1, <1>2, <1>3 DEF Emissions
<1>5. \A k \in 1..Len(new) : /\ new[k].life = <<p, life'[p]>> /\ new[k].age = 0
                             /\ KeyOfItem(new[k].item) \in keys
  BY DEF Passed
<1>6. /\ emitted'[p] = [k \in Keys |-> IF k \in keys THEN 0 ELSE ages[k]]
      /\ \A q \in Procs : q # p => emitted'[q] = emitted[q]
  BY DEF Typed, Passed
<1>7. ASSUME NEW q \in Procs PROVE life'[q] <= Len(signals') + 1
  <2>1. life'[q] \in Nat /\ life'[q] <= Len(signals) + 1
    BY <1>2, <1>4 DEF Emissions
  <2> QED  BY <1>1, <2>1
<1>8. ASSUME NEW i \in Ids' PROVE signals'[i].life[2] <= Len(signals')
  <2>1. CASE i \in Ids
    <3>1. signals'[i] = signals[i] /\ signals[i].life[2] <= Len(signals)
      BY <1>1, <2>1 DEF Emissions
    <3>2. signals[i].life[2] \in Nat
      BY <1>2, <2>1 DEF Signal
    <3> QED  BY <1>1, <3>1, <3>2
  <2>2. CASE \E k \in 1..Len(new) : i = Len(signals) + k
    <3>1. signals'[i].life = <<p, life'[p]>>
      BY SMTT(30), <1>1, <1>5, <2>2
    <3>2. signals'[i].life[2] = life'[p]
      BY <3>1
    <3> QED  BY <1>1, <1>4, <3>2
  <2> QED  BY <1>1, <2>1, <2>2
<1>9. ASSUME NEW q \in Procs, NEW i \in Ids', signals'[i].life = <<q, life'[q]>>
      PROVE  LET k == KeyOfItem(signals'[i].item)
             IN  emitted'[q][k] # Never /\ signals'[i].age >= emitted'[q][k]
  <2> DEFINE k == KeyOfItem(signals'[i].item)
  <2>1. CASE i \in Ids
    <3>1. signals'[i] = signals[i] /\ signals[i].age \in Nat /\ signals[i].life = <<q, life'[q]>>
      BY SMTT(30), <1>1, <1>2, <1>9, <2>1, SignalAssumption DEF Signal
    <3>2. k = KeyOf(i) /\ k \in Keys
      BY <1>2, <2>1, <3>1, KeysOfIds DEF KeyOfItem, Keys, Items, Signal
    <3>3. CASE life' = [life EXCEPT ![p] = Len(signals) + 1] /\ q = p
      <4>1. signals[i].life[2] = Len(signals) + 1
        BY <1>2, <3>1, <3>3
      <4>2. signals[i].life[2] <= Len(signals)
        BY <2>1 DEF Emissions
      <4> QED  BY <1>1, <4>1, <4>2
    <3>4. CASE life' = life /\ ages = emitted[p] /\ q = p
      <4>1. emitted[p][k] # Never /\ signals[i].age >= emitted[p][k]
        BY <2>1, <3>1, <3>2, <3>4 DEF Emissions
      <4>2. emitted'[p][k] = 0 \/ emitted'[p][k] = emitted[p][k]
        BY <1>6, <3>2, <3>4
      <4>3. 0 # Never /\ signals[i].age >= 0
        BY <3>1 DEF Never
      <4> QED  BY <3>1, <3>4, <4>1, <4>2, <4>3
    <3>5. CASE q # p
      BY <1>4, <1>6, <2>1, <3>1, <3>2, <3>5 DEF Emissions
    <3> QED  BY <1>3, <3>3, <3>4, <3>5
  <2>2. CASE \E m \in 1..Len(new) : i = Len(signals) + m
    <3>1. PICK m \in 1..Len(new) : i = Len(signals) + m
      BY <2>2
    <3>2. signals'[i] = new[m] /\ new[m].life = <<p, life'[p]>> /\ new[m].age = 0 /\ k \in keys
      BY <1>1, <1>5, <3>1
    <3>3. q = p
      BY <1>9, <3>2
    <3>4. emitted'[q][k] = 0
      BY <1>6, <3>2, <3>3 DEF Passed
    <3> QED  BY <3>2, <3>4 DEF Never
  <2> QED  BY <1>1, <2>1, <2>2
<1> QED  BY <1>7, <1>8, <1>9, KeysOfNextIds DEF Emissions

\* A pass repeats nothing of its generator that has not left the window.
LEMMA PassNoRepeat ==
    ASSUME Typed, Emissions, NoRepeatInOneLife,
           NEW p \in Procs, NEW new, NEW keys, NEW ages, Passed(p, new, keys, ages)
    PROVE  NoRepeatInOneLife'
<1>1. /\ Len(signals) \in Nat
      /\ \A i \in Ids : signals'[i] = signals[i]
      /\ \A k \in 1..Len(new) : signals'[Len(signals) + k] = new[k] /\ Len(signals) + k \notin Ids
      /\ \A i \in Ids' : i \in Ids \/ \E k \in 1..Len(new) : i = Len(signals) + k
  BY SMTT(30), PassGrows
<1>2. life \in [Procs -> Nat] /\ \A i \in Ids : signals[i] \in Signal
  BY DEF Typed, Ids
<1>3. SUFFICES ASSUME NEW i \in Ids', NEW j \in Ids', i < j,
                      KeyOfItem(signals'[i].item) = KeyOfItem(signals'[j].item),
                      signals'[i].life = signals'[j].life,
                      signals'[i].pass # signals'[j].pass, signals'[j].age = 0
               PROVE  signals'[i].age = Window
  BY KeysOfNextIds DEF NoRepeatInOneLife
<1>4. CASE j \in Ids
  <2>1. i \in Ids
    BY <1>1, <1>3, <1>4 DEF Ids
  <2>2. signals'[i] = signals[i] /\ signals'[j] = signals[j]
    BY <1>1, <1>4, <2>1
  <2>3. KeyOf(i) = KeyOf(j)
    BY <1>3, <2>2, KeysOfIds
  <2> QED  BY <1>3, <1>4, <2>1, <2>2, <2>3 DEF NoRepeatInOneLife
<1>5. CASE \E k \in 1..Len(new) : j = Len(signals) + k
  <2>1. PICK k \in 1..Len(new) : j = Len(signals) + k
    BY <1>5
  <2>2. /\ signals'[j].life = <<p, life'[p]>> /\ signals'[j].pass = Len(signals) + 1
        /\ KeyOfItem(signals'[j].item) \in keys
    BY <1>1, <2>1 DEF Passed
  <2>3. i \in Ids
    BY <1>1, <1>3, <2>2 DEF Passed
  <2>4. signals'[i] = signals[i] /\ signals[i].life = <<p, life'[p]>> /\ signals[i].age \in 0..Window
    BY <1>1, <1>2, <1>3, <2>2, <2>3 DEF Signal
  <2>5. CASE life' = [life EXCEPT ![p] = Len(signals) + 1]
    <3>1. signals[i].life[2] = Len(signals) + 1
      BY <1>2, <2>4, <2>5
    <3> QED  BY <1>1, <2>3, <3>1 DEF Emissions
  <2>6. CASE life' = life /\ ages = emitted[p]
    <3>1. KeyOf(i) \in keys /\ emitted[p][KeyOf(i)] # Never /\ signals[i].age >= emitted[p][KeyOf(i)]
      BY <1>3, <2>2, <2>3, <2>4, <2>6, KeysOfIds DEF Emissions
    <3>2. emitted[p][KeyOf(i)] >= Window /\ emitted[p][KeyOf(i)] \in 0..Window
      BY <2>6, <3>1 DEF Passed
    <3> QED  BY <2>4, <3>1, <3>2, SignalAssumption
  <2> QED  BY <2>5, <2>6 DEF Passed
<1> QED  BY <1>1, <1>4, <1>5

LEMMA GenerateKeeps == ASSUME LifeInv, NEW p \in Procs, Generate(p) PROVE LifeInv'
<1>1. PICK new, keys, ages : Passed(p, new, keys, ages)
  BY GeneratePasses
<1> QED  BY <1>1, PassTyped, PassQueues, PassStructures, PassTelling, PassEmissions, PassNoRepeat
         DEF LifeInv

LEMMA DeliverKeeps == ASSUME LifeInv, NEW p \in Procs, Deliver(p) PROVE LifeInv'
<1>1. Typed /\ Queues /\ Structures /\ Telling /\ Emissions /\ NoRepeatInOneLife
  BY DEF LifeInv
<1>2. /\ pc[p] = "deliver" /\ pc' = [pc EXCEPT ![p] = "save"]
      /\ told' = told \/ told' = told \union {out[p][1]}
      /\ emitted' = emitted /\ out' = out /\ signals' = signals /\ log' = log /\ outcomes' = outcomes
      /\ todo' = todo /\ life' = life /\ dropped' = dropped /\ failures' = failures /\ Ids' = Ids
  BY DEF Deliver, Ids
<1>3. out[p] # <<>> /\ out[p] \in Seq(Nat) /\ 1 \in 1..Len(out[p])
  BY <1>1, <1>2 DEF Queues, Typed
<1>4. out[p][1] \in Ids \ (log \union dropped)
  BY <1>1, <1>3 DEF Queues
<1>5. Typed'
  BY <1>1, <1>2, <1>4 DEF Typed
<1>6. Queues'
  <2>1. \A q \in Procs : pc'[q] = "idle" <=> pc[q] = "idle"
    BY <1>1, <1>2 DEF Typed
  <2> QED  BY <1>1, <1>2, <2>1 DEF Queues
<1>7. Structures'
  BY <1>1, <1>2 DEF Structures
<1>8. Telling'
  <2>1. pc'[p] = "save" /\ \A q \in Procs : pc[q] = "save" => pc'[q] = "save"
    BY <1>1, <1>2 DEF Typed
  <2>2. \A i \in told' : i \in log' \/ i \in dropped' \/ \E q \in Procs : pc'[q] = "save" /\ out'[q][1] = i
    BY <1>1, <1>2, <2>1 DEF Telling
  <2>3. told' \intersect dropped' = told \intersect dropped
    BY <1>2, <1>4
  <2> QED  BY <1>1, <1>2, <2>2, <2>3 DEF Telling
<1>9. Emissions' /\ NoRepeatInOneLife'
  BY <1>1, <1>2 DEF Emissions, NoRepeatInOneLife, KeyOf
<1> QED  BY <1>5, <1>6, <1>7, <1>8, <1>9 DEF LifeInv

\* The queue once its first signal has left it.
LEMMA Shifted ==
    ASSUME Typed, Queues, NEW p \in Procs, pc[p] = "save"
    PROVE  /\ out[p] \in Seq(Nat) /\ Len(out[p]) \in Nat \ {0} /\ Head(out[p]) = out[p][1]
           /\ out[p][1] \in Ids \ (log \union dropped)
           /\ Tail(out[p]) \in Seq(Nat) /\ Len(Tail(out[p])) = Len(out[p]) - 1
           /\ \A a \in 1..Len(Tail(out[p])) : Tail(out[p])[a] = out[p][a + 1] /\ a + 1 \in 1..Len(out[p])
           /\ \A a \in 1..Len(out[p]) : a = 1 \/ (a - 1 \in 1..Len(Tail(out[p])) /\ Tail(out[p])[a - 1] = out[p][a])
           /\ Tail(out[p]) = <<>> <=> Len(out[p]) = 1
<1>1. out[p] \in Seq(Nat) /\ out[p] # <<>>
  BY DEF Typed, Queues
<1>2. /\ Len(out[p]) \in Nat \ {0} /\ Head(out[p]) = out[p][1]
      /\ Tail(out[p]) \in Seq(Nat) /\ Len(Tail(out[p])) = Len(out[p]) - 1
  BY <1>1
<1>3. \A a \in 1..Len(Tail(out[p])) : Tail(out[p])[a] = out[p][a + 1] /\ a + 1 \in 1..Len(out[p])
  BY <1>1, <1>2
<1>4. ASSUME NEW a \in 1..Len(out[p]), a # 1
      PROVE  a - 1 \in 1..Len(Tail(out[p])) /\ Tail(out[p])[a - 1] = out[p][a]
  <2>1. a - 1 \in 1..Len(Tail(out[p])) /\ (a - 1) + 1 = a
    BY <1>2, <1>4
  <2> QED  BY <1>3, <2>1
<1>5. Tail(out[p]) = <<>> <=> Len(out[p]) = 1
  <2>1. \A s \in Seq(Nat) : s = <<>> <=> Len(s) = 0
    OBVIOUS
  <2>2. \A s \in Seq(Nat), n \in Nat : Len(s) = n - 1 => (s = <<>> <=> n = 1)
    BY <2>1
  <2> QED  BY <1>2, <2>2, Zenon
<1>6. out[p][1] \in Ids \ (log \union dropped)
  BY <1>2 DEF Queues
<1> QED  BY <1>1, <1>2, <1>3, <1>4, <1>5, <1>6

LEMMA SaveQueues ==
    ASSUME Typed, Queues, NEW p \in Procs, Save(p)
    PROVE  Queues'
<1>1. /\ pc[p] = "save" /\ log' = log \union {out[p][1]} /\ dropped' = dropped
      /\ out' = [out EXCEPT ![p] = Tail(out[p])]
      /\ pc' = [pc EXCEPT ![p] = IF Len(out[p]) = 1 THEN "idle" ELSE "deliver"]
      /\ outcomes' = outcomes /\ Ids' = Ids
  BY DEF Save, Ids
<1>2. /\ Len(out[p]) \in Nat \ {0} /\ out[p][1] \in Ids \ (log \union dropped)
      /\ Len(Tail(out[p])) = Len(out[p]) - 1
      /\ \A a \in 1..Len(Tail(out[p])) : Tail(out[p])[a] = out[p][a + 1] /\ a + 1 \in 1..Len(out[p])
      /\ \A a \in 1..Len(out[p]) : a = 1 \/ (a - 1 \in 1..Len(Tail(out[p])) /\ Tail(out[p])[a - 1] = out[p][a])
      /\ Tail(out[p]) = <<>> <=> Len(out[p]) = 1
  BY <1>1, Shifted
<1>3. /\ out'[p] = Tail(out[p]) /\ pc'[p] = (IF Len(out[p]) = 1 THEN "idle" ELSE "deliver")
      /\ \A q \in Procs : q # p => out'[q] = out[q] /\ pc'[q] = pc[q]
  BY <1>1 DEF Typed
<1>4. log' \subseteq Ids' /\ dropped' \subseteq Ids' \ log'
  BY <1>1, <1>2 DEF Queues
<1>5. \A q \in Procs : \A a \in 1..Len(out'[q]) : \E b \in 1..Len(out[q]) :
         out'[q][a] = out[q][b] /\ (q = p => b = a + 1)
  BY <1>2, <1>3
<1>6. ASSUME NEW q \in Procs, NEW a \in 1..Len(out'[q])
      PROVE  out'[q][a] \in Ids' \ (log' \union dropped') 
  <2>1. PICK b \in 1..Len(out[q]) : out'[q][a] = out[q][b] /\ (q = p => b = a + 1)
    BY <1>5
  <2>2. out[q][b] \in Ids \ (log \union dropped)
    BY DEF Queues
  <2>3. 1 \in 1..Len(out[p])
    BY <1>2
  <2>4. out[q][b] # out[p][1]
    <3>1. CASE q = p
      <4>1. b # 1
        BY <2>1, <3>1, <1>3, <1>2
      <4> QED  BY <2>3, <3>1, <4>1 DEF Queues
    <3>2. CASE q # p
      BY <2>3, <3>2 DEF Queues
    <3> QED  BY <3>1, <3>2
  <2> QED  BY <1>1, <2>1, <2>2, <2>4
<1>7. ASSUME NEW q \in Procs, NEW a \in 1..Len(out'[q]), NEW b \in 1..Len(out'[q]), out'[q][a] = out'[q][b]
      PROVE  a = b
  <2>1. CASE q = p
    <3>1. /\ out[p][a + 1] = out[p][b + 1] /\ a + 1 \in 1..Len(out[p]) /\ b + 1 \in 1..Len(out[p])
          /\ a \in Int /\ b \in Int
      <4>1. a \in 1..Len(Tail(out[p])) /\ b \in 1..Len(Tail(out[p]))
        BY <1>3, <2>1
      <4>2. Tail(out[p])[a] = Tail(out[p])[b]
        BY <1>3, <1>7, <2>1
      <4> QED  BY <1>2, <4>1, <4>2
    <3>2. a + 1 = b + 1
      BY <3>1 DEF Queues
    <3> QED  BY <3>1, <3>2
  <2>2. CASE q # p
    BY <1>3, <1>7, <2>2 DEF Queues
  <2> QED  BY <2>1, <2>2
<1>8. ASSUME NEW q \in Procs PROVE pc'[q] = "idle" <=> out'[q] = <<>>
  <2>1. CASE q = p
    BY <1>2, <1>3, <2>1
  <2>2. CASE q # p
    BY <1>3, <2>2 DEF Queues
  <2> QED  BY <2>1, <2>2
<1>9. ASSUME NEW q \in Procs, NEW r \in Procs, q # r, NEW a \in 1..Len(out'[q]), NEW b \in 1..Len(out'[r])
      PROVE  out'[q][a] # out'[r][b]
  <2>1. PICK c \in 1..Len(out[q]) : out'[q][a] = out[q][c]
    BY <1>5
  <2>2. PICK d \in 1..Len(out[r]) : out'[r][b] = out[r][d]
    BY <1>5
  <2> QED  BY <1>9, <2>1, <2>2 DEF Queues
<1>10. ASSUME NEW i \in Ids'
       PROVE  i \in log' \/ i \in dropped' \/ \E q \in Procs : \E a \in 1..Len(out'[q]) : out'[q][a] = i
  <2>1. i \in log \/ i \in dropped \/ \E q \in Procs : \E a \in 1..Len(out[q]) : out[q][a] = i
    BY <1>1 DEF Queues
  <2>2. CASE \E q \in Procs : \E a \in 1..Len(out[q]) : out[q][a] = i
    <3>1. PICK q \in Procs : \E a \in 1..Len(out[q]) : out[q][a] = i
      BY <2>2
    <3>2. PICK a \in 1..Len(out[q]) : out[q][a] = i
      BY <3>1
    <3>3. CASE q # p
      <4>1. a \in 1..Len(out'[q]) /\ out'[q][a] = i
        BY <1>3, <3>2, <3>3
      <4> QED  BY <4>1
    <3>4. CASE q = p /\ a = 1
      BY <1>1, <3>2, <3>4
    <3>5. CASE q = p /\ a # 1
      <4>1. a - 1 \in 1..Len(out'[p]) /\ out'[p][a - 1] = i
        BY <1>2, <1>3, <3>2, <3>5
      <4> QED  BY <4>1
    <3> QED  BY <3>3, <3>4, <3>5
  <2> QED  BY <1>1, <2>1, <2>2
<1>11. \A i \in Ids' : outcomes'[i] # NoOutcome => i \in log'
  BY <1>1 DEF Queues
<1> QED  BY <1>4, <1>6, <1>7, <1>8, <1>9, <1>10, <1>11 DEF Queues

LEMMA SaveKeeps == ASSUME LifeInv, NEW p \in Procs, Save(p) PROVE LifeInv'
<1>1. Typed /\ Queues /\ Structures /\ Telling /\ Emissions /\ NoRepeatInOneLife
  BY DEF LifeInv
<1>2. /\ pc[p] = "save" /\ log' = log \union {out[p][1]} /\ dropped' = dropped
      /\ out' = [out EXCEPT ![p] = Tail(out[p])]
      /\ pc' = [pc EXCEPT ![p] = IF Len(out[p]) = 1 THEN "idle" ELSE "deliver"]
      /\ emitted' = emitted /\ signals' = signals /\ told' = told /\ outcomes' = outcomes
      /\ todo' = todo /\ life' = life /\ failures' = failures /\ Ids' = Ids
  BY DEF Save, Ids
<1>3. Tail(out[p]) \in Seq(Nat)
  BY <1>1, <1>2, Shifted
<1>4. Typed'
  <2>1. out' \in [Procs -> Seq(Nat)]
    BY <1>1, <1>2, <1>3 DEF Typed
  <2>2. todo' \in [Evaluators -> SUBSET log']
    BY <1>1, <1>2 DEF Typed
  <2>3. pc' \in [Procs -> {"idle", "deliver", "save"}]
    BY <1>1, <1>2 DEF Typed
  <2> QED  BY <1>1, <1>2, <2>1, <2>2, <2>3 DEF Typed
<1>5. Queues'
  BY <1>1, SaveQueues
<1>6. Structures'
  BY <1>1, <1>2 DEF Structures
<1>7. Telling'
  <2>1. \A q \in Procs : q # p => out'[q] = out[q] /\ pc'[q] = pc[q]
    BY <1>1, <1>2 DEF Typed
  <2>2. \A i \in told' : i \in log' \/ i \in dropped' \/ \E q \in Procs : pc'[q] = "save" /\ out'[q][1] = i
    BY <1>1, <1>2, <2>1 DEF Telling
  <2> QED  BY <1>1, <1>2, <2>2 DEF Telling
<1>8. Emissions' /\ NoRepeatInOneLife'
  BY <1>1, <1>2 DEF Emissions, NoRepeatInOneLife, KeyOf
<1> QED  BY <1>4, <1>5, <1>6, <1>7, <1>8 DEF LifeInv

\* A failure of p drops what waits in its queue.
LEMMA FailsQueues ==
    ASSUME Typed, Queues, NEW p \in Procs, Fails(p)
    PROVE  /\ Queues'
           /\ \A i \in dropped' : i \in dropped \/ \E a \in 1..Len(out[p]) : out[p][a] = i
<1>1. /\ log' = log /\ dropped' = dropped \union ToSet(out[p])
      /\ out' = [out EXCEPT ![p] = <<>>] /\ pc' = [pc EXCEPT ![p] = "idle"]
      /\ outcomes' = outcomes /\ Ids' = Ids
  BY DEF Fails, Ids
<1>2. \A i : i \in dropped' <=> i \in dropped \/ \E a \in 1..Len(out[p]) : out[p][a] = i
  <2>1. DOMAIN out[p] = 1..Len(out[p])
    BY DEF Typed
  <2> QED  BY <1>1, <2>1 DEF ToSet
<1>3. /\ out'[p] = <<>> /\ Len(out'[p]) = 0 /\ pc'[p] = "idle"
      /\ \A q \in Procs : q # p => out'[q] = out[q] /\ pc'[q] = pc[q]
  BY <1>1 DEF Typed
<1>4. log' \subseteq Ids' /\ dropped' \subseteq Ids' \ log'
  BY <1>1, <1>2 DEF Queues
<1>5. ASSUME NEW q \in Procs
      PROVE  /\ pc'[q] = "idle" <=> out'[q] = <<>>
             /\ \A a \in 1..Len(out'[q]) : out'[q][a] \in Ids' \ (log' \union dropped')
             /\ \A a, b \in 1..Len(out'[q]) : out'[q][a] = out'[q][b] => a = b
  <2>1. CASE q = p
    BY <1>3, <2>1
  <2>2. CASE q # p
    <3>1. out'[q] = out[q] /\ pc'[q] = pc[q]
      BY <1>3, <2>2
    <3>2. \A a \in 1..Len(out[q]) : out[q][a] \in Ids' \ (log' \union dropped')
      BY <1>1, <1>2, <2>2 DEF Queues
    <3> QED  BY <3>1, <3>2 DEF Queues
  <2> QED  BY <2>1, <2>2
<1>6. ASSUME NEW q \in Procs, NEW r \in Procs, q # r, NEW a \in 1..Len(out'[q]), NEW b \in 1..Len(out'[r])
      PROVE  out'[q][a] # out'[r][b]
  <2>1. q # p /\ r # p
    BY <1>3
  <2> QED  BY <1>3, <1>6, <2>1 DEF Queues
<1>7. ASSUME NEW i \in Ids'
      PROVE  i \in log' \/ i \in dropped' \/ \E q \in Procs : \E a \in 1..Len(out'[q]) : out'[q][a] = i
  <2>1. i \in log \/ i \in dropped \/ \E q \in Procs : \E a \in 1..Len(out[q]) : out[q][a] = i
    BY <1>1 DEF Queues
  <2>2. CASE \E q \in Procs : \E a \in 1..Len(out[q]) : out[q][a] = i
    <3>1. PICK q \in Procs : \E a \in 1..Len(out[q]) : out[q][a] = i
      BY <2>2
    <3>2. CASE q = p
      BY <1>2, <3>1, <3>2
    <3>3. CASE q # p
      BY <1>3, <3>1, <3>3
    <3> QED  BY <3>2, <3>3
  <2> QED  BY <1>1, <2>1, <2>2
<1>8. \A i \in Ids' : outcomes'[i] # NoOutcome => i \in log'
  BY <1>1 DEF Queues
<1>9. Queues'
  BY <1>4, <1>5, <1>6, <1>7, <1>8 DEF Queues
<1> QED  BY <1>2, <1>9

\* One failure drops at most one signal that was told: the head of the queue.
LEMMA FailsTelling ==
    ASSUME Typed, Queues, Telling, NEW p \in Procs, Fails(p)
    PROVE  Telling'
<1>1. /\ told' = told /\ log' = log /\ failures' = failures + 1
      /\ out' = [out EXCEPT ![p] = <<>>] /\ pc' = [pc EXCEPT ![p] = "idle"]
      /\ dropped' = dropped \union ToSet(out[p])
  BY DEF Fails
<1>2. \A q \in Procs : q # p => out'[q] = out[q] /\ pc'[q] = pc[q]
  BY <1>1 DEF Typed
<1>3. \A i \in dropped' : i \in dropped \/ \E a \in 1..Len(out[p]) : out[p][a] = i
  BY FailsQueues
<1>4. /\ out[p] # <<>> /\ out[p] \in Seq(Nat) /\ 1 \in 1..Len(out[p])
      /\ out[p][1] \in ToSet(out[p])
  <2>1. out[p] # <<>> /\ out[p] \in Seq(Nat)
    BY DEF Typed, Queues, Fails
  <2>2. 1 \in 1..Len(out[p]) /\ 1 \in DOMAIN out[p]
    BY <2>1
  <2> QED  BY <2>1, <2>2 DEF ToSet
<1>5. \A i \in told' : i \in log' \/ i \in dropped' \/ \E q \in Procs : pc'[q] = "save" /\ out'[q][1] = i
  <2>1. SUFFICES ASSUME NEW i \in told, NEW q \in Procs, pc[q] = "save", out[q][1] = i
        PROVE  i \in dropped' \/ \E r \in Procs : pc'[r] = "save" /\ out'[r][1] = i
    BY <1>1 DEF Telling
  <2>2. CASE q = p
    BY <1>1, <1>4, <2>1, <2>2
  <2>3. CASE q # p
    BY <1>2, <2>1, <2>3
  <2> QED  BY <2>2, <2>3
<1>6. told' \intersect dropped' \subseteq (told \intersect dropped) \union {out[p][1]}
  <2>1. SUFFICES ASSUME NEW i \in told, NEW a \in 1..Len(out[p]), out[p][a] = i
        PROVE  i = out[p][1]
    BY <1>1, <1>3
  <2>2. i \notin log /\ i \notin dropped
    BY <2>1 DEF Queues
  <2>3. PICK q \in Procs : pc[q] = "save" /\ out[q][1] = i
    BY <2>2 DEF Telling
  <2>4. 1 \in 1..Len(out[q])
    <3>1. out[q] # <<>> /\ out[q] \in Seq(Nat)
      BY <2>3 DEF Typed, Queues
    <3> QED  BY <3>1
  <2>5. q = p
    BY <2>1, <2>3, <2>4 DEF Queues
  <2> QED  BY <2>3, <2>5
<1>7. /\ IsFiniteSet(told \intersect dropped) /\ Cardinality(told \intersect dropped) \in Nat
      /\ IsFiniteSet((told \intersect dropped) \union {out[p][1]})
      /\ Cardinality((told \intersect dropped) \union {out[p][1]}) <= Cardinality(told \intersect dropped) + 1
  <2>1. Len(signals) \in Nat
    BY DEF Typed
  <2>2. IsFiniteSet(Ids)
    BY <2>1, FS_Interval DEF Ids
  <2>3. told \intersect dropped \subseteq Ids
    BY DEF Typed
  <2>4. IsFiniteSet(told \intersect dropped)
    BY <2>2, <2>3, FS_Subset
  <2> HIDE DEF Typed
  <2>5. Cardinality(told \intersect dropped) \in Nat
    BY <2>4, FS_CardinalityType
  <2>6. /\ IsFiniteSet((told \intersect dropped) \union {out[p][1]})
        /\ \/ Cardinality((told \intersect dropped) \union {out[p][1]}) = Cardinality(told \intersect dropped)
           \/ Cardinality((told \intersect dropped) \union {out[p][1]}) = Cardinality(told \intersect dropped) + 1
    BY <2>4, FS_AddElement
  <2> QED  BY <2>4, <2>5, <2>6
<1>8. Cardinality(told' \intersect dropped') <= Cardinality((told \intersect dropped) \union {out[p][1]})
      /\ Cardinality(told' \intersect dropped') \in Nat
      /\ Cardinality((told \intersect dropped) \union {out[p][1]}) \in Nat
  BY <1>6, <1>7, FS_Subset, FS_CardinalityType
<1>9. Cardinality(told' \intersect dropped') <= failures'
  <2>1. failures \in Nat /\ Cardinality(told \intersect dropped) <= failures
    BY SignalAssumption DEF Typed, Telling
  <2> QED  BY <1>1, <1>7, <1>8, <2>1
<1> QED  BY <1>5, <1>9 DEF Telling

LEMMA FailsKeeps == ASSUME LifeInv, NEW p \in Procs, Fails(p) PROVE LifeInv'
<1>1. Typed /\ Queues /\ Structures /\ Telling /\ Emissions /\ NoRepeatInOneLife
  BY DEF LifeInv
<1>2. /\ failures < MaxFailures /\ failures' = failures + 1
      /\ out' = [out EXCEPT ![p] = <<>>] /\ emitted' = [emitted EXCEPT ![p] = NoneEmitted]
      /\ life' = [life EXCEPT ![p] = Len(signals) + 1] /\ pc' = [pc EXCEPT ![p] = "idle"]
      /\ signals' = signals /\ told' = told /\ log' = log /\ outcomes' = outcomes /\ todo' = todo
      /\ Ids' = Ids
  BY DEF Fails, Ids
<1>3. Len(signals) \in Nat /\ life \in [Procs -> Nat]
  BY <1>1 DEF Typed
<1>4. Typed'
  <2>1. out' \in [Procs -> Seq(Nat)]
    <3>1. <<>> \in Seq(Nat)
      OBVIOUS
    <3> QED  BY <1>1, <1>2, <3>1 DEF Typed
  <2>2. emitted' \in [Procs -> [Keys -> {Never} \union 0..Window]]
    <3>1. NoneEmitted \in [Keys -> {Never} \union 0..Window]
      BY DEF NoneEmitted
    <3> QED  BY <1>1, <1>2, <3>1 DEF Typed
  <2>3. life' \in [Procs -> Nat]
    BY <1>2, <1>3
  <2>4. failures' \in 0..MaxFailures
    BY <1>1, <1>2, SignalAssumption DEF Typed
  <2>5. pc' \in [Procs -> {"idle", "deliver", "save"}]
    BY <1>1, <1>2 DEF Typed
  <2> QED  BY <1>1, <1>2, <2>1, <2>2, <2>3, <2>4, <2>5 DEF Typed
<1>5. Queues' /\ Telling'
  BY <1>1, FailsQueues, FailsTelling
<1>6. Structures'
  BY <1>1, <1>2 DEF Structures
<1>7. Emissions'
  <2>1. life'[p] = Len(signals) + 1 /\ \A q \in Procs : q # p => life'[q] = life[q] /\ emitted'[q] = emitted[q]
    BY <1>1, <1>2, <1>3 DEF Typed
  <2>2. \A q \in Procs : life'[q] <= Len(signals') + 1
    BY <1>1, <1>2, <1>3, <2>1 DEF Emissions
  <2>3. ASSUME NEW q \in Procs, NEW i \in Ids, signals[i].life = <<q, life'[q]>>
        PROVE  emitted'[q][KeyOf(i)] # Never /\ signals[i].age >= emitted'[q][KeyOf(i)]
    <3>1. q # p
      <4>1. signals[i].life[2] <= Len(signals)
        BY <1>1 DEF Emissions
      <4>2. signals[i].life[2] = life'[q]
        BY <2>3
      <4> QED  BY <1>3, <2>1, <4>1, <4>2
    <3> QED  BY <1>1, <2>1, <2>3, <3>1 DEF Emissions
  <2>4. \A i : KeyOf(i)' = KeyOf(i)
    BY <1>2 DEF KeyOf
  <2> QED  BY <1>1, <1>2, <2>2, <2>3, <2>4 DEF Emissions
<1>8. NoRepeatInOneLife'
  BY <1>1, <1>2 DEF NoRepeatInOneLife, KeyOf
<1> QED  BY <1>4, <1>5, <1>6, <1>7, <1>8 DEF LifeInv

\* Time passes: every signal and every memory of one grows older together.
LEMMA TickAges ==
    ASSUME Typed, Tick
    PROVE  /\ signals' \in Seq(Signal) /\ Len(signals') = Len(signals) /\ Ids' = Ids
           /\ \A i \in Ids :
                /\ signals'[i].item = signals[i].item /\ signals'[i].qty = signals[i].qty
                /\ signals'[i].pass = signals[i].pass /\ signals'[i].life = signals[i].life
                /\ signals'[i].age = IF signals[i].age = Window THEN Window ELSE signals[i].age + 1
                /\ signals[i] \in Signal
<1>1. /\ signals \in Seq(Signal) /\ Len(signals) \in Nat /\ Ids = 1..Len(signals)
      /\ Window \in Nat \ {0}
  BY SignalAssumption DEF Typed, Ids
<1>2. signals' = [i \in Ids |-> [signals[i] EXCEPT !.age = IF @ = Window THEN @ ELSE @ + 1]]
  BY DEF Tick
<1>3. ASSUME NEW i \in Ids
      PROVE  /\ signals'[i].item = signals[i].item /\ signals'[i].qty = signals[i].qty
             /\ signals'[i].pass = signals[i].pass /\ signals'[i].life = signals[i].life
             /\ signals'[i].age = IF signals[i].age = Window THEN Window ELSE signals[i].age + 1
             /\ signals[i] \in Signal /\ signals'[i] \in Signal
  <2>1. signals[i] \in Signal
    BY <1>1
  <2>2. signals'[i] = [signals[i] EXCEPT !.age = IF @ = Window THEN @ ELSE @ + 1]
    BY <1>2
  <2>3. (IF signals[i].age = Window THEN Window ELSE signals[i].age + 1) \in 0..Window
    <3>1. signals[i].age \in 0..Window
      BY <2>1 DEF Signal
    <3> QED  BY <1>1, <3>1
  <2> QED  BY <2>1, <2>2, <2>3 DEF Signal
<1>4. signals' \in Seq(Signal) /\ Len(signals') = Len(signals)
  <2>1. DOMAIN signals' = 1..Len(signals)
    BY <1>1, <1>2
  <2>2. signals' \in [1..Len(signals) -> Signal]
    BY <1>1, <1>2, <1>3, <2>1
  <2> QED  BY <1>1, <2>2
<1> QED  BY <1>1, <1>3, <1>4 DEF Ids

LEMMA TickKeeps == ASSUME LifeInv, Tick PROVE LifeInv'
<1>1. Typed /\ Queues /\ Structures /\ Telling /\ Emissions /\ NoRepeatInOneLife
  BY DEF LifeInv
<1>2. /\ emitted' = [p \in Procs |-> [k \in Keys |->
           IF emitted[p][k] \in {Never, Window} THEN emitted[p][k] ELSE emitted[p][k] + 1]]
      /\ pc' = pc /\ out' = out /\ told' = told /\ log' = log /\ outcomes' = outcomes /\ todo' = todo
      /\ life' = life /\ dropped' = dropped /\ failures' = failures
  BY DEF Tick
<1>3. /\ signals' \in Seq(Signal) /\ Len(signals') = Len(signals) /\ Ids' = Ids
      /\ \A i \in Ids :
           /\ signals'[i].item = signals[i].item /\ signals'[i].qty = signals[i].qty
           /\ signals'[i].pass = signals[i].pass /\ signals'[i].life = signals[i].life
           /\ signals'[i].age = IF signals[i].age = Window THEN Window ELSE signals[i].age + 1
           /\ signals[i] \in Signal
  BY <1>1, TickAges
<1>4. Window \in Nat \ {0}
  BY SignalAssumption
<1>5. \A p \in Procs, k \in Keys : emitted[p][k] \in {Never} \union 0..Window
  BY <1>1 DEF Typed
<1>6. ASSUME NEW p \in Procs, NEW k \in Keys
      PROVE  /\ emitted'[p][k] \in {Never} \union 0..Window
             /\ emitted[p][k] = Never <=> emitted'[p][k] = Never
             /\ emitted'[p][k] = IF emitted[p][k] \in {Never, Window} THEN emitted[p][k]
                                 ELSE emitted[p][k] + 1
  <2>1. emitted'[p][k] = IF emitted[p][k] \in {Never, Window} THEN emitted[p][k] ELSE emitted[p][k] + 1
    BY <1>2
  <2> QED  BY <1>4, <1>5, <2>1 DEF Never
<1>7. Typed'
  <2>1. emitted' \in [Procs -> [Keys -> {Never} \union 0..Window]]
    BY <1>2, <1>6
  <2> QED  BY <1>1, <1>2, <1>3, <2>1 DEF Typed
<1>8. Queues'
  <2>1. Queues
    BY <1>1
  <2>2. pc' = pc /\ out' = out /\ log' = log /\ dropped' = dropped /\ outcomes' = outcomes /\ Ids' = Ids
    BY <1>2, <1>3
  <2> QED  BY <2>1, <2>2, SMTT(30) DEF Queues
<1>9. Structures'
  <2>1. SUFFICES ASSUME NEW i \in Ids, signals[i].item \in Legs, NEW l \in Legs
        PROVE  \E j \in Ids : /\ signals'[j].item = l /\ signals'[j].pass = signals'[i].pass
                              /\ signals'[j].qty * Ratio[signals'[i].item] = signals'[i].qty * Ratio[l]
    BY <1>3 DEF Structures
  <2>2. PICK j \in Ids : /\ signals[j].item = l /\ signals[j].pass = signals[i].pass
                         /\ signals[j].qty * Ratio[signals[i].item] = signals[i].qty * Ratio[l]
    BY <1>1, <2>1 DEF Structures
  <2>3. /\ signals'[j].item = l /\ signals'[j].pass = signals'[i].pass
        /\ signals'[j].qty * Ratio[signals'[i].item] = signals'[i].qty * Ratio[l]
    BY <1>3, <2>2
  <2> QED  BY <2>3
<1>10. Telling'
  BY <1>1, <1>2 DEF Telling
<1>11. \A i \in Ids : KeyOfItem(signals'[i].item) = KeyOf(i) /\ KeyOf(i) \in Keys
  <2>1. \A i \in Ids : signals[i].item \in Items
    BY <1>3 DEF Signal
  <2> QED  BY <1>3, <2>1, KeysOfIds DEF KeyOfItem, Keys, Items
<1>12. Emissions'
  <2>1. \A p \in Procs : life'[p] <= Len(signals') + 1
    BY <1>1, <1>2, <1>3 DEF Emissions
  <2>2. \A i \in Ids' : signals'[i].life[2] <= Len(signals')
    BY <1>1, <1>3 DEF Emissions
  <2>3. ASSUME NEW p \in Procs, NEW i \in Ids, signals'[i].life = <<p, life'[p]>>
        PROVE  emitted'[p][KeyOf(i)] # Never /\ signals'[i].age >= emitted'[p][KeyOf(i)]
    <3>1. emitted[p][KeyOf(i)] # Never /\ signals[i].age >= emitted[p][KeyOf(i)]
      BY <1>1, <1>2, <1>3, <2>3 DEF Emissions
    <3>2. emitted[p][KeyOf(i)] \in 0..Window /\ signals[i].age \in 0..Window
      BY <1>3, <1>5, <1>11, <3>1 DEF Signal
    <3>3. emitted'[p][KeyOf(i)] # Never
      BY <1>6, <1>11, <3>1
    <3>4. emitted'[p][KeyOf(i)] = IF emitted[p][KeyOf(i)] = Window THEN Window ELSE emitted[p][KeyOf(i)] + 1
      BY <1>6, <1>11, <3>1
    <3>5. signals'[i].age = IF signals[i].age = Window THEN Window ELSE signals[i].age + 1
      BY <1>3
    <3> QED  BY <1>4, <3>1, <3>2, <3>3, <3>4, <3>5
  <2> QED  BY <1>3, <1>11, <2>1, <2>2, <2>3, KeysOfNextIds DEF Emissions
<1>13. NoRepeatInOneLife'
  <2>1. \A j \in Ids : signals'[j].age # 0
    <3>1. \A j \in Ids : signals[j].age \in 0..Window
      BY <1>3 DEF Signal
    <3> QED  BY <1>3, <1>4, <3>1
  <2> QED  BY <1>3, <2>1 DEF NoRepeatInOneLife
<1> QED  BY <1>7, <1>8, <1>9, <1>10, <1>12, <1>13 DEF LifeInv

LEMMA OutcomesOfEvaluations ==
    ASSUME NEW item, NEW price \in Premiums, NEW expired
    PROVE  /\ [result |-> Evaluated(item, price, expired), profit |-> Profit(item, price)] \in Outcome
           /\ Evaluated(item, price, expired) # "none"
<1>1. Evaluated(item, price, expired) \in {"win", "loss", "pending"}
  BY Zenon DEF Evaluated
<1>2. Profit(item, price) \in BOOLEAN
  <2>1. (price < Entry) \in BOOLEAN /\ (price > Entry) \in BOOLEAN
    BY DEF Premiums, Entry
  <2> QED  BY <2>1, Zenon DEF Profit
<1> QED  BY <1>1, <1>2 DEF Outcome, Results

LEMMA EvaluationKeeps ==
    ASSUME LifeInv, NEW e \in Evaluators,
           StartEvaluation(e) \/ EvaluateRow(e) \/ EvaluationFails(e)
    PROVE  LifeInv'
<1>1. Typed /\ Queues /\ Structures /\ Telling /\ Emissions /\ NoRepeatInOneLife
  BY DEF LifeInv
<1>2. /\ pc' = pc /\ emitted' = emitted /\ out' = out /\ signals' = signals /\ told' = told
      /\ log' = log /\ life' = life /\ dropped' = dropped /\ failures' = failures /\ Ids' = Ids
  BY DEF StartEvaluation, EvaluateRow, EvaluationFails, Ids
<1>3. /\ todo' \in [Evaluators -> SUBSET log]
      /\ outcomes' \in Seq(Outcome) /\ Len(outcomes') = Len(outcomes)
      /\ \A i \in Ids : outcomes'[i] # NoOutcome => i \in log
  <2>1. CASE StartEvaluation(e)
    <3>1. todo' = [todo EXCEPT ![e] = PendingRows] /\ PendingRows \subseteq log
      BY <2>1 DEF StartEvaluation, PendingRows
    <3> QED  BY <1>1, <2>1, <3>1 DEF StartEvaluation, Typed, Queues
  <2>2. CASE EvaluateRow(e)
    <3>1. PICK i \in todo[e], price \in Premiums, expired \in BOOLEAN :
            /\ todo' = [todo EXCEPT ![e] = @ \ {i}]
            /\ outcomes' = IF price = 0 THEN outcomes
                           ELSE [outcomes EXCEPT ![i] =
                                   [result |-> Evaluated(signals[i].item, price, expired),
                                    profit |-> Profit(signals[i].item, price)]]
      BY <2>2 DEF EvaluateRow
    <3> DEFINE found == [result |-> Evaluated(signals[i].item, price, expired),
                         profit |-> Profit(signals[i].item, price)]
    <3>2. found \in Outcome
      BY OutcomesOfEvaluations
    <3> HIDE DEF found
    <3>3. outcomes' = outcomes \/ outcomes' = [outcomes EXCEPT ![i] = found]
      BY <3>1 DEF found
    <3>4. i \in log /\ i \in Ids /\ outcomes \in Seq(Outcome) /\ Ids = 1..Len(outcomes)
      BY <1>1 DEF Typed, Queues, Ids
    <3>5. /\ outcomes' \in Seq(Outcome) /\ Len(outcomes') = Len(outcomes)
          /\ \A j \in Ids : j # i => outcomes'[j] = outcomes[j]
      BY <3>2, <3>3, <3>4
    <3>6. todo' \in [Evaluators -> SUBSET log]
      BY <1>1, <3>1 DEF Typed
    <3> QED  BY <1>1, <3>4, <3>5, <3>6 DEF Queues
  <2>3. CASE EvaluationFails(e)
    BY <1>1, <2>3 DEF EvaluationFails, Typed, Queues
  <2> QED  BY <2>1, <2>2, <2>3
<1>4. Typed'
  BY <1>1, <1>2, <1>3 DEF Typed
<1>5. Queues'
  BY <1>1, <1>2, <1>3 DEF Queues
<1>6. Structures' /\ Telling'
  BY <1>1, <1>2 DEF Structures, Telling
<1>7. Emissions' /\ NoRepeatInOneLife'
  BY <1>1, <1>2 DEF Emissions, NoRepeatInOneLife, KeyOf
<1> QED  BY <1>4, <1>5, <1>6, <1>7 DEF LifeInv

LEMMA InitLife == Init => LifeInv
<1> SUFFICES ASSUME Init PROVE LifeInv
  OBVIOUS
<1>1. /\ signals = <<>> /\ Len(signals) = 0 /\ outcomes = <<>> /\ Len(outcomes) = 0
      /\ Ids = {} /\ told = {} /\ log = {} /\ dropped = {} /\ failures = 0
  BY DEF Init, Ids
<1>2. Typed
  <2>1. emitted \in [Procs -> [Keys -> {Never} \union 0..Window]]
    BY DEF Init, NoneEmitted
  <2>2. out \in [Procs -> Seq(Nat)] /\ signals \in Seq(Signal) /\ outcomes \in Seq(Outcome)
    <3>1. <<>> \in Seq(Nat)
      OBVIOUS
    <3> QED  BY <1>1, <3>1 DEF Init
  <2>3. pc \in [Procs -> {"idle", "deliver", "save"}] /\ life \in [Procs -> Nat]
    BY DEF Init
  <2>4. todo \in [Evaluators -> SUBSET log] /\ told \subseteq Ids
    BY <1>1 DEF Init
  <2>5. failures \in 0..MaxFailures
    BY <1>1, SignalAssumption
  <2> QED  BY <1>1, <2>1, <2>2, <2>3, <2>4, <2>5 DEF Typed
<1>3. Queues
  <2>1. \A p \in Procs : pc[p] = "idle" /\ out[p] = <<>> /\ Len(out[p]) = 0
    BY DEF Init
  <2> QED  BY <1>1, <2>1 DEF Queues
<1>4. Structures /\ NoRepeatInOneLife
  BY <1>1 DEF Structures, NoRepeatInOneLife
<1>5. Telling
  <2>1. told \intersect dropped = {}
    BY <1>1
  <2>2. Cardinality(told \intersect dropped) = 0
    BY <2>1, FS_EmptySet
  <2> QED  BY <1>1, <2>2 DEF Telling
<1>6. Emissions
  <2>1. \A p \in Procs : life[p] = 0
    BY DEF Init
  <2> QED  BY <1>1, <2>1 DEF Emissions
<1> QED  BY <1>2, <1>3, <1>4, <1>5, <1>6 DEF LifeInv

LEMMA StepLife == LifeInv /\ [Next]_vars => LifeInv'
<1> SUFFICES ASSUME LifeInv, [Next]_vars PROVE LifeInv'
  OBVIOUS
<1>1. CASE \E p \in Procs : Generate(p) \/ Deliver(p) \/ Save(p) \/ Fails(p)
  BY <1>1, GenerateKeeps, DeliverKeeps, SaveKeeps, FailsKeeps
<1>2. CASE Tick
  BY <1>2, TickKeeps
<1>3. CASE \E e \in Evaluators : StartEvaluation(e) \/ EvaluateRow(e) \/ EvaluationFails(e)
  BY <1>3, EvaluationKeeps
<1>4. CASE UNCHANGED vars
  <2>1. /\ pc' = pc /\ emitted' = emitted /\ out' = out /\ signals' = signals /\ told' = told
        /\ log' = log /\ outcomes' = outcomes /\ todo' = todo /\ life' = life
        /\ dropped' = dropped /\ failures' = failures /\ Ids' = Ids
    BY <1>4 DEF vars, Ids
  <2>2. Typed /\ Queues /\ Structures /\ Telling /\ Emissions /\ NoRepeatInOneLife
    BY DEF LifeInv
  <2>3. Typed'
    BY <2>1, <2>2 DEF Typed
  <2>4. Queues'
    BY <2>1, <2>2, SMTT(30) DEF Queues
  <2>5. Structures' /\ Telling'
    BY <2>1, <2>2 DEF Structures, Telling
  <2>6. Emissions' /\ NoRepeatInOneLife'
    BY <2>1, <2>2 DEF Emissions, NoRepeatInOneLife, KeyOf
  <2> QED  BY <2>3, <2>4, <2>5, <2>6 DEF LifeInv
<1> QED  BY <1>1, <1>2, <1>3, <1>4 DEF Next

\* LifeInv is an invariant of the specification.
THEOREM LifeHolds == Spec => []LifeInv
BY InitLife, StepLife, PTL DEF Spec

-----------------------------------------------------------------------------
(* What follows from it.                                                   *)

LEMMA QueueSets ==
    ASSUME Typed
    PROVE  \A p \in Procs : \A i : i \in ToSet(out[p]) <=> \E a \in 1..Len(out[p]) : out[p][a] = i
<1>1. \A p \in Procs : DOMAIN out[p] = 1..Len(out[p])
  BY DEF Typed
<1> QED  BY <1>1 DEF ToSet

LEMMA TypedInside == LifeInv => TypeOK
<1> SUFFICES ASSUME LifeInv PROVE TypeOK
  OBVIOUS
<1>1. Typed /\ Queues
  BY DEF LifeInv
<1>2. /\ pc \in [Procs -> {"idle", "deliver", "save"}]
      /\ emitted \in [Procs -> [Keys -> {Never} \union 0..Window]]
      /\ told \subseteq Ids /\ failures \in 0..MaxFailures
  BY <1>1 DEF Typed
<1>3. \A i \in Ids : signals[i].item \in Items /\ signals[i].qty > 0 /\ signals[i].age \in 0..Window
  <2>1. \A i \in Ids : signals[i] \in Signal
    BY <1>1 DEF Typed, Ids
  <2> QED  BY <2>1 DEF Signal
<1>4. \A p \in Procs : ToSet(out[p]) \subseteq Ids \ log /\ (pc[p] = "idle" <=> out[p] = <<>>)
  BY <1>1, QueueSets DEF Queues
<1>5. log \subseteq Ids /\ dropped \subseteq Ids \ log /\ \A e \in Evaluators : todo[e] \subseteq log
  BY <1>1 DEF Typed, Queues
<1>6. ASSUME NEW i \in Ids
      PROVE  /\ outcomes[i].result \in Results /\ outcomes[i].profit \in BOOLEAN
             /\ outcomes[i] # NoOutcome => i \in log
  <2>1. outcomes[i] \in Outcome
    BY <1>1 DEF Typed, Ids
  <2>2. outcomes[i].result \in Results /\ outcomes[i].profit \in BOOLEAN
    BY <2>1 DEF Outcome
  <2> QED  BY <1>1, <2>2 DEF Queues
<1> QED  BY <1>2, <1>3, <1>4, <1>5, <1>6 DEF TypeOK

\* The state of the signals is well formed: each process dispatches what it
\* generated and only logged signals have outcomes.
THEOREM SignalsAreTyped == Spec => []TypeOK
BY LifeHolds, TypedInside, PTL

LEMMA WholeInside == LifeInv => LoggedStructuresAreWhole
<1> SUFFICES ASSUME LifeInv, NEW i \in log, signals[i].item \in Legs, NEW l \in Legs
             PROVE  \E j \in log \union InFlight \union dropped :
                      /\ signals[j].item = l /\ signals[j].pass = signals[i].pass
                      /\ signals[j].qty * Ratio[signals[i].item] = signals[i].qty * Ratio[l]
  BY DEF LoggedStructuresAreWhole
<1>1. Typed /\ Queues /\ Structures
  BY DEF LifeInv
<1>2. i \in Ids
  BY <1>1 DEF Queues
<1>3. PICK j \in Ids : /\ signals[j].item = l /\ signals[j].pass = signals[i].pass
                       /\ signals[j].qty * Ratio[signals[i].item] = signals[i].qty * Ratio[l]
  BY <1>1, <1>2 DEF Structures
<1>4. j \in log \/ j \in dropped \/ \E p \in Procs : \E a \in 1..Len(out[p]) : out[p][a] = j
  BY <1>1 DEF Queues
<1>5. j \in log \union InFlight \union dropped
  BY <1>1, <1>4, QueueSets DEF InFlight
<1> QED  BY <1>3, <1>5

\* A logged leg has its whole structure, in the ratio of the legs, in the log,
\* waiting for it, or lost to a failure.
THEOREM StructuresAreWhole == Spec => []LoggedStructuresAreWhole
BY LifeHolds, WholeInside, PTL

LEMMA ToldInside == LifeInv => ToldIsLogged
<1> SUFFICES ASSUME LifeInv PROVE ToldIsLogged
  OBVIOUS
<1>1. \A i \in told : i \in log \/ i \in dropped \/ \E p \in Procs : pc[p] = "save" /\ out[p][1] = i
  BY DEF LifeInv, Telling
<1>2. told \subseteq log \union dropped \union {out[p][1] : p \in {q \in Procs : pc[q] = "save"}}
  BY <1>1
<1> QED  BY <1>2 DEF ToldIsLogged, LifeInv, Telling

\* Whatever fails and whenever, a signal the user was told of is logged, is
\* about to be, or is the one signal a failure may cost.
THEOREM TellingIsLogging == Spec => []ToldIsLogged
BY LifeHolds, ToldInside, PTL

\* A generator repeats no idea within the window.
THEOREM IdeasAreNotRepeated == Spec => []NoRepeatInOneLife
<1>1. LifeInv => NoRepeatInOneLife
  BY DEF LifeInv
<1> QED  BY <1>1, LifeHolds, PTL

-----------------------------------------------------------------------------
(* Any number of evaluations at a time.                                    *)

\* What a step does to one row that is decided.
Keeps(i) ==
    /\ Holders(i)' \subseteq Holders(i)
    /\ outcomes'[i] # outcomes[i] => Holders(i)' # Holders(i)

LEMMA DecidedRowsAreKept ==
    ASSUME LifeInv, [Next]_vars, NEW i \in Ids, Decided(i)
    PROVE  Keeps(i)
<1>1. Typed /\ outcomes[i] # NoOutcome
  BY DEF LifeInv, Decided, NoOutcome
<1>2. ASSUME outcomes'[i] = outcomes[i], \A e \in Evaluators : i \in todo'[e] => i \in todo[e]
      PROVE  Keeps(i)
  BY <1>2 DEF Keeps, Holders
<1>3. ASSUME NEW p \in Procs, Generate(p)
      PROVE  Keeps(i)
  <2>1. PICK new, keys, ages : Passed(p, new, keys, ages)
    BY <1>3, GeneratePasses
  <2>2. todo' = todo /\ outcomes'[i] = outcomes[i]
    BY <1>1, <2>1, PassGrows DEF Passed
  <2> QED  BY <1>2, <2>2
<1>4. ASSUME NEW e \in Evaluators, StartEvaluation(e)
      PROVE  Keeps(i)
  <2>1. outcomes' = outcomes /\ todo' = [todo EXCEPT ![e] = PendingRows]
    BY <1>4 DEF StartEvaluation
  <2>2. i \notin PendingRows
    BY <1>1 DEF PendingRows
  <2>3. todo'[e] = PendingRows /\ \A d \in Evaluators : d # e => todo'[d] = todo[d]
    BY <1>1, <2>1 DEF Typed
  <2> QED  BY <1>2, <2>1, <2>2, <2>3
<1>5. ASSUME NEW e \in Evaluators, EvaluationFails(e)
      PROVE  Keeps(i)
  <2>1. outcomes' = outcomes /\ todo' = [todo EXCEPT ![e] = {}]
    BY <1>5 DEF EvaluationFails
  <2>2. todo'[e] = {} /\ \A d \in Evaluators : d # e => todo'[d] = todo[d]
    BY <1>1, <2>1 DEF Typed
  <2> QED  BY <1>2, <2>1, <2>2
<1>6. ASSUME NEW e \in Evaluators, EvaluateRow(e)
      PROVE  Keeps(i)
  <2>1. PICK j \in todo[e] :
          /\ todo' = [todo EXCEPT ![e] = @ \ {j}]
          /\ outcomes' = outcomes \/ \E found : outcomes' = [outcomes EXCEPT ![j] = found]
    BY <1>6 DEF EvaluateRow
  <2>2. todo'[e] = todo[e] \ {j} /\ \A d \in Evaluators : d # e => todo'[d] = todo[d]
    BY <1>1, <2>1 DEF Typed
  <2>3. CASE j = i
    BY <2>1, <2>2, <2>3 DEF Keeps, Holders
  <2>4. CASE j # i
    <3>1. outcomes'[i] = outcomes[i]
      BY <1>1, <2>1, <2>4 DEF Typed, Ids
    <3> QED  BY <1>2, <2>2, <3>1
  <2> QED  BY <2>3, <2>4
<1>7. CASE outcomes' = outcomes /\ todo' = todo
  BY <1>2, <1>7
<1>8. CASE \E p \in Procs : Deliver(p) \/ Save(p) \/ Fails(p)
  BY <1>7, <1>8 DEF Deliver, Save, Fails
<1>9. CASE Tick
  BY <1>7, <1>9 DEF Tick
<1>10. CASE UNCHANGED vars
  BY <1>7, <1>10 DEF vars
<1> QED  BY <1>3, <1>4, <1>5, <1>6, <1>8, <1>9, <1>10 DEF Next

\* However many evaluations overlap, and whatever is generated, delivered and
\* lost meanwhile: a result that is in is replaced only by those that had listed
\* its row before, once by each.
THEOREM DecisionsAreFinal == Spec => DecidedIsFinal
<1>1. LifeInv /\ [Next]_vars
      => [\A i \in Ids : Decided(i) =>
            /\ Holders(i)' \subseteq Holders(i)
            /\ outcomes'[i] # outcomes[i] => Holders(i)' # Holders(i)]_vars
  BY DecidedRowsAreKept DEF Keeps
<1> QED  BY <1>1, LifeHolds, PTL DEF Spec, DecidedIsFinal
=============================================================================
