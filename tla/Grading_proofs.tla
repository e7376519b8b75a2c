--------------------------- MODULE Grading_proofs ---------------------------
(***************************************************************************)
(* Grading, for any model, any repository and any caps.  Three parts: what *)
(* the helpers of a digest compute (sums, the lengths of numbers, prefixes *)
(* of texts, the shares of a budget, the places of a sample), the          *)
(* inductive invariant of a candidate's way through the smoke gate and     *)
(* _digest, and what follows from it.                                      *)
(***************************************************************************)
EXTENDS Grading, FiniteSetTheorems, SequenceTheorems, WellFoundedInduction, NaturalsInduction, TLAPS

-----------------------------------------------------------------------------
(* Numbers. *)

\* What holds of a number when it holds of all smaller ones holds of all.
LEMMA Descent ==
  ASSUME NEW S, \A n \in Nat : (\A m \in 0 .. n - 1 : m \in S) => n \in S
  PROVE  Nat \subseteq S
  <1> DEFINE Rest == Nat \ S
  <1> SUFFICES ASSUME Rest # {} PROVE FALSE
    OBVIOUS
  <1>1. Rest \in SUBSET Nat
    OBVIOUS
  <1>2. PICK n \in Rest : \A m \in Rest : <<m, n>> \notin OpToRel(<, Nat)
    <2> HIDE DEF Rest
    <2> QED BY <1>1, WFMin, NatLessThanWellFounded
  <1>3. n \in Nat /\ n \notin S
    OBVIOUS
  <1>4. \A m \in Rest : ~(m < n)
    BY <1>1, <1>2, <1>3 DEF OpToRel
  <1>5. \A m \in 0 .. n - 1 : m \in S
    BY <1>3, <1>4
  <1> QED BY <1>3, <1>5

\* The same, one number at a time.
LEMMA Ascent ==
  ASSUME NEW S, 0 \in S, \A n \in Nat : n \in S => n + 1 \in S
  PROVE  Nat \subseteq S
  <1> SUFFICES ASSUME NEW n \in Nat, \A m \in 0 .. n - 1 : m \in S PROVE n \in S
    BY Descent
  <1>1. CASE n = 0
    BY <1>1
  <1>2. CASE n # 0
    BY <1>2, n - 1 \in Nat, n - 1 \in 0 .. n - 1, (n - 1) + 1 = n
  <1> QED BY <1>1, <1>2

-----------------------------------------------------------------------------
(* Sums. *)

\* The totals that SumOf runs through.
RunningTotals(sizes) ==
  {upTo \in [0 .. Len(sizes) -> Nat] :
     upTo[0] = 0 /\ \A k \in 1 .. Len(sizes) : upTo[k] = upTo[k - 1] + sizes[k]}

\* The recursion of SumOf has a solution, and SumOf is the last of its values.
LEMMA SumIsATotal ==
  ASSUME NEW sizes \in Seq(Nat)
  PROVE  \E upTo \in RunningTotals(sizes) : SumOf(sizes) = upTo[Len(sizes)]
<1> DEFINE count == Len(sizes)
           Solves(f) == f = [k \in 0 .. count |-> IF k = 0 THEN 0 ELSE f[k - 1] + sizes[k]]
           Up(n, f) == f[0] = 0 /\ \A k \in 1 .. n : f[k] = f[k - 1] + sizes[k]
           Far == {n \in Nat : n <= count => \E f \in [0 .. n -> Nat] : Up(n, f)}
<1>1. count \in Nat /\ \A k \in 1 .. count : sizes[k] \in Nat
  OBVIOUS
<1> HIDE DEF count
<1>2. Nat \subseteq Far
  <2>1. 0 \in Far
    <3> DEFINE zero == [k \in 0 .. 0 |-> 0]
    <3>1. zero \in [0 .. 0 -> Nat]
      OBVIOUS
    <3>2. Up(0, zero)
      <4>1. zero[0] = 0
        OBVIOUS
      <4>2. ASSUME NEW k \in 1 .. 0 PROVE FALSE
        OBVIOUS
      <4> HIDE DEF zero
      <4> QED BY <4>1, <4>2
    <3> HIDE DEF zero, Up
    <3> QED BY <3>1, <3>2
  <2>2. ASSUME NEW n \in Nat, n \in Far PROVE n + 1 \in Far
    <3> SUFFICES ASSUME n + 1 <= count
                 PROVE  \E g \in [0 .. n + 1 -> Nat] : Up(n + 1, g)
      <4> HIDE DEF Up
      <4> QED OBVIOUS
    <3>1. PICK f \in [0 .. n -> Nat] : Up(n, f)
      BY <2>2, <1>1
    <3> DEFINE g == [k \in 0 .. n + 1 |-> IF k = n + 1 THEN f[n] + sizes[n + 1] ELSE f[k]]
    <3>2. g \in [0 .. n + 1 -> Nat]
      BY <1>1, <3>1
    <3>3. g[0] = 0
      BY <3>1
    <3>4. ASSUME NEW k \in 1 .. n + 1 PROVE g[k] = g[k - 1] + sizes[k]
      <4>1. CASE k = n + 1
        BY <4>1, k - 1 = n
      <4>2. CASE k # n + 1
        <5>1. k \in 1 .. n /\ k - 1 \in 0 .. n
          BY <4>2
        <5> QED BY <5>1, <3>1
      <4> QED BY <4>1, <4>2
    <3> HIDE DEF g
    <3> QED BY <3>2, <3>3, <3>4
  <2> HIDE DEF Far
  <2> QED BY <2>1, <2>2, Ascent
<1>3. \E f : Solves(f)
  <2> HIDE DEF Far
  <2>0. count \in Far
    BY <1>1, <1>2
  <2> USE DEF Far
  <2>1. PICK f \in [0 .. count -> Nat] : Up(count, f)
    <3> HIDE DEF Up
    <3> QED BY <1>1, <2>0
  <2>2. f = [k \in 0 .. count |-> IF k = 0 THEN 0 ELSE f[k - 1] + sizes[k]]
    BY <2>1
  <2> QED BY <2>2
<1> DEFINE upTo == CHOOSE f : Solves(f)
<1>4. SumOf(sizes) = upTo[count]
  BY DEF SumOf, count
<1>5. Solves(upTo)
  <2> HIDE DEF Solves
  <2> QED BY <1>3, Zenon
<1> HIDE DEF upTo
<1>6. Up(count, upTo) /\ DOMAIN upTo = 0 .. count
  BY <1>1, <1>5
<1> DEFINE Typed == {k \in Nat : k <= count => upTo[k] \in Nat}
<1>7. Nat \subseteq Typed
  <2>1. 0 \in Typed
    BY <1>6
  <2>2. ASSUME NEW k \in Nat, k \in Typed PROVE k + 1 \in Typed
    <3> SUFFICES ASSUME k + 1 <= count PROVE upTo[k + 1] \in Nat
      OBVIOUS
    <3>1. k \in 0 .. count /\ k + 1 \in 1 .. count /\ (k + 1) - 1 = k /\ upTo[k] \in Nat
      BY <1>1, <2>2
    <3>2. upTo[k + 1] = upTo[k] + sizes[k + 1]
      BY <1>6, <3>1
    <3> QED BY <1>1, <3>1, <3>2
  <2> HIDE DEF Typed
  <2> QED BY <2>1, <2>2, Ascent
<1>8. upTo \in [0 .. count -> Nat]
  <2>1. \A k \in 0 .. count : upTo[k] \in Nat
    BY <1>1, <1>7
  <2>2. upTo = [k \in 0 .. count |-> upTo[k]]
    BY <1>5
  <2> QED BY <2>1, <2>2
<1> QED BY <1>4, <1>6, <1>8 DEF RunningTotals, count

\* A total is a number, none is larger than the last, and none shrinks.
LEMMA TotalsGrow ==
  ASSUME NEW sizes \in Seq(Nat), NEW upTo \in RunningTotals(sizes),
         NEW low \in 0 .. Len(sizes), NEW high \in low .. Len(sizes)
  PROVE  upTo[low] <= upTo[high]
<1> DEFINE count == Len(sizes)
           Above == {k \in Nat : k \in low .. count => upTo[low] <= upTo[k]}
<1>1. count \in Nat /\ \A k \in 1 .. count : sizes[k] \in Nat
  OBVIOUS
<1>2. /\ upTo \in [0 .. count -> Nat]
      /\ \A k \in 1 .. count : upTo[k] = upTo[k - 1] + sizes[k]
  BY DEF RunningTotals
<1> HIDE DEF count
<1>3. low \in 0 .. count /\ high \in low .. count
  BY DEF count
<1>4. 0 \in Above
  BY <1>1, <1>2, <1>3
<1>5. ASSUME NEW k \in Nat, k \in Above PROVE k + 1 \in Above
  <2> SUFFICES ASSUME k + 1 \in low .. count PROVE upTo[low] <= upTo[k + 1]
    OBVIOUS
  <2>1. CASE k + 1 = low
    <3>1. upTo[low] \in Nat
      BY <1>2, <1>3
    <3> QED BY <2>1, <3>1
  <2>2. CASE k + 1 # low
    <3>1. k \in low .. count /\ k \in 0 .. count /\ k + 1 \in 1 .. count /\ (k + 1) - 1 = k
      BY <1>1, <1>3, <2>2
    <3>2. upTo[k + 1] = upTo[k] + sizes[k + 1] /\ upTo[low] <= upTo[k]
      BY <1>2, <1>5, <3>1
    <3> QED BY <1>1, <1>2, <1>3, <3>1, <3>2
  <2> QED BY <2>1, <2>2
<1>6. Nat \subseteq Above
  <2> HIDE DEF Above
  <2> QED BY <1>4, <1>5, Ascent
<1>7. high \in Nat
  BY <1>1, <1>3
<1> QED BY <1>3, <1>6, <1>7

\* A function on 1 .. n is a sequence of length n.
LEMMA IsSequence ==
  ASSUME NEW S, NEW n \in Nat, NEW s \in [1 .. n -> S]
  PROVE  s \in Seq(S) /\ Len(s) = n
OBVIOUS

\* Sizes add up to a size, and each of them is part of it.
LEMMA PartOfSum ==
  ASSUME NEW sizes \in Seq(Nat)
  PROVE  SumOf(sizes) \in Nat /\ \A k \in 1 .. Len(sizes) : sizes[k] <= SumOf(sizes)
<1>1. PICK upTo \in RunningTotals(sizes) : SumOf(sizes) = upTo[Len(sizes)]
  BY SumIsATotal
<1> DEFINE count == Len(sizes)
<1>2. count \in Nat /\ \A k \in 1 .. count : sizes[k] \in Nat
  OBVIOUS
<1>3. /\ upTo \in [0 .. count -> Nat]
      /\ \A k \in 1 .. count : upTo[k] = upTo[k - 1] + sizes[k]
  BY DEF RunningTotals
<1>4. \A low \in 0 .. count : \A high \in low .. count : upTo[low] <= upTo[high]
  BY TotalsGrow
<1>5. SumOf(sizes) = upTo[count]
  BY <1>1
<1> HIDE DEF count
<1>6. SumOf(sizes) \in Nat
  BY <1>2, <1>3, <1>5
<1>7. ASSUME NEW k \in 1 .. count PROVE sizes[k] <= SumOf(sizes)
  <2>1. k \in 0 .. count /\ k - 1 \in 0 .. count /\ count \in k .. count
    BY <1>2
  <2>2. upTo[k] = upTo[k - 1] + sizes[k] /\ upTo[k] <= upTo[count]
    BY <1>3, <1>4, <2>1
  <2>3. upTo[k] \in Nat /\ upTo[k - 1] \in Nat /\ upTo[count] \in Nat /\ sizes[k] \in Nat
    BY <1>2, <1>3, <2>1
  <2> QED BY <1>5, <2>2, <2>3
<1> QED BY <1>6, <1>7 DEF count

\* A sum can be taken apart, term by term.
LEMMA SumsAdd ==
  ASSUME NEW n \in Nat, NEW a \in [1 .. n -> Nat], NEW b \in [1 .. n -> Nat]
  PROVE  SumOf([k \in 1 .. n |-> a[k] + b[k]]) = SumOf(a) + SumOf(b)
<1> DEFINE c == [k \in 1 .. n |-> a[k] + b[k]]
<1>1. c \in [1 .. n -> Nat]
  OBVIOUS
<1>2. \A k \in 1 .. n : c[k] = a[k] + b[k]
  OBVIOUS
<1> HIDE DEF c
<1>3. PICK p \in RunningTotals(a) : SumOf(a) = p[n]
  <2>1. a \in Seq(Nat) /\ Len(a) = n
    BY IsSequence
  <2> QED BY <2>1, SumIsATotal
<1>4. PICK q \in RunningTotals(b) : SumOf(b) = q[n]
  <2>1. b \in Seq(Nat) /\ Len(b) = n
    BY IsSequence
  <2> QED BY <2>1, SumIsATotal
<1>5. PICK r \in RunningTotals(c) : SumOf(c) = r[n]
  <2>1. c \in Seq(Nat) /\ Len(c) = n
    BY <1>1, IsSequence
  <2> QED BY <2>1, SumIsATotal
<1>6. /\ p \in [0 .. n -> Nat] /\ p[0] = 0 /\ \A k \in 1 .. n : p[k] = p[k - 1] + a[k]
      /\ q \in [0 .. n -> Nat] /\ q[0] = 0 /\ \A k \in 1 .. n : q[k] = q[k - 1] + b[k]
      /\ r \in [0 .. n -> Nat] /\ r[0] = 0 /\ \A k \in 1 .. n : r[k] = r[k - 1] + c[k]
  <2>1. Len(a) = n /\ Len(b) = n /\ Len(c) = n
    BY <1>1, IsSequence
  <2> QED BY <2>1 DEF RunningTotals
<1> DEFINE Same == {k \in Nat : k <= n => r[k] = p[k] + q[k]}
<1>7. 0 \in Same
  BY <1>6
<1>8. ASSUME NEW k \in Nat, k \in Same PROVE k + 1 \in Same
  <2> SUFFICES ASSUME k + 1 <= n PROVE r[k + 1] = p[k + 1] + q[k + 1]
    OBVIOUS
  <2>1. k + 1 \in 1 .. n /\ (k + 1) - 1 = k /\ k \in 0 .. n /\ r[k] = p[k] + q[k]
    BY <1>8
  <2>2. /\ p[k + 1] = p[k] + a[k + 1] /\ q[k + 1] = q[k] + b[k + 1]
        /\ r[k + 1] = r[k] + c[k + 1]
    BY <1>6, <2>1
  <2>3. c[k + 1] = a[k + 1] + b[k + 1]
    BY <1>2, <2>1
  <2>4. p[k] \in Nat /\ q[k] \in Nat /\ a[k + 1] \in Nat /\ b[k + 1] \in Nat
    BY <1>6, <2>1
  <2> QED BY <2>1, <2>2, <2>3, <2>4
<1>9. Nat \subseteq Same
  <2> HIDE DEF Same
  <2> QED BY <1>7, <1>8, Ascent
<1>10. r[n] = p[n] + q[n]
  BY <1>9
<1> QED BY <1>3, <1>4, <1>5, <1>10 DEF c

\* Smaller terms have a smaller sum, strictly if one term is.
LEMMA SumsCompare ==
  ASSUME NEW n \in Nat, NEW a \in [1 .. n -> Nat], NEW b \in [1 .. n -> Nat],
         \A k \in 1 .. n : a[k] <= b[k]
  PROVE  /\ SumOf(a) <= SumOf(b)
         /\ \A k \in 1 .. n : a[k] < b[k] => SumOf(a) < SumOf(b)
<1> DEFINE d == [k \in 1 .. n |-> b[k] - a[k]]
<1>1. d \in [1 .. n -> Nat] /\ \A k \in 1 .. n : d[k] = b[k] - a[k]
  OBVIOUS
<1> HIDE DEF d
<1>2. b = [k \in 1 .. n |-> a[k] + d[k]]
  BY <1>1
<1>3. SumOf(b) = SumOf(a) + SumOf(d)
  BY <1>1, <1>2, SumsAdd
<1>4. SumOf(a) \in Nat /\ SumOf(d) \in Nat /\ \A k \in 1 .. n : d[k] <= SumOf(d)
  <2>1. a \in Seq(Nat) /\ d \in Seq(Nat) /\ Len(d) = n
    BY <1>1, IsSequence
  <2> QED BY <2>1, PartOfSum
<1>5. ASSUME NEW k \in 1 .. n, a[k] < b[k] PROVE SumOf(a) < SumOf(b)
  <2>1. d[k] > 0 /\ d[k] <= SumOf(d) /\ d[k] \in Nat
    BY <1>1, <1>4, <1>5
  <2> QED BY <1>3, <1>4, <2>1
<1> QED BY <1>3, <1>4, <1>5

\* Equal shares, and one more for the first ones, come to no more than that.
LEMMA SharesAddUp ==
  ASSUME NEW n \in Nat, NEW each \in Nat, NEW rest \in 0 .. n,
         NEW shares \in [1 .. n -> Nat],
         \A k \in 1 .. n : shares[k] <= each + (IF k <= rest THEN 1 ELSE 0)
  PROVE  SumOf(shares) <= n * each + rest
<1>1. PICK upTo \in RunningTotals(shares) : SumOf(shares) = upTo[n]
  <2>1. shares \in Seq(Nat) /\ Len(shares) = n
    BY IsSequence
  <2> QED BY <2>1, SumIsATotal
<1>2. /\ upTo \in [0 .. n -> Nat] /\ upTo[0] = 0
      /\ \A k \in 1 .. n : upTo[k] = upTo[k - 1] + shares[k]
  <2>1. Len(shares) = n
    BY IsSequence
  <2> QED BY <2>1 DEF RunningTotals
<1> DEFINE More(k) == IF k <= rest THEN k ELSE rest
           Small == {k \in Nat : k <= n => upTo[k] <= k * each + More(k)}
<1>3. 0 \in Small
  BY <1>2
<1>4. ASSUME NEW k \in Nat, k \in Small PROVE k + 1 \in Small
  <2> SUFFICES ASSUME k + 1 <= n PROVE upTo[k + 1] <= (k + 1) * each + More(k + 1)
    OBVIOUS
  <2>1. k + 1 \in 1 .. n /\ (k + 1) - 1 = k /\ k \in 0 .. n /\ upTo[k] <= k * each + More(k)
    BY <1>4
  <2>2. upTo[k + 1] = upTo[k] + shares[k + 1] /\ upTo[k] \in Nat /\ shares[k + 1] \in Nat
    BY <1>2, <2>1
  <2>3. shares[k + 1] <= each + (IF k + 1 <= rest THEN 1 ELSE 0)
    BY <2>1
  <2>4. (k + 1) * each = k * each + each /\ k * each \in Nat
    OBVIOUS
  <2>5. More(k + 1) = More(k) + (IF k + 1 <= rest THEN 1 ELSE 0)
    OBVIOUS
  <2> QED BY <2>1, <2>2, <2>3, <2>4, <2>5
<1>5. Nat \subseteq Small
  <2> HIDE DEF Small
  <2> QED BY <1>3, <1>4, Ascent
<1>6. upTo[n] <= n * each + More(n)
  BY <1>5
<1> QED BY <1>1, <1>6

\* What is chosen, each time further on, comes to no more than the whole.
LEMMA ChosenAddUp ==
  ASSUME NEW n \in Nat, NEW sizes \in [1 .. n -> Nat],
         NEW m \in Nat, NEW at \in [1 .. m -> 1 .. n],
         \A k \in 1 .. m - 1 : at[k] < at[k + 1]
  PROVE  SumOf([k \in 1 .. m |-> sizes[at[k]]]) <= SumOf(sizes)
<1> DEFINE chosen == [k \in 1 .. m |-> sizes[at[k]]]
<1>1. chosen \in [1 .. m -> Nat] /\ \A k \in 1 .. m : chosen[k] = sizes[at[k]]
  OBVIOUS
<1> HIDE DEF chosen
<1>2. PICK p \in RunningTotals(chosen) : SumOf(chosen) = p[m]
  <2>1. chosen \in Seq(Nat) /\ Len(chosen) = m
    BY <1>1, IsSequence
  <2> QED BY <2>1, SumIsATotal
<1>3. PICK q \in RunningTotals(sizes) : SumOf(sizes) = q[n]
  <2>1. sizes \in Seq(Nat) /\ Len(sizes) = n
    BY IsSequence
  <2> QED BY <2>1, SumIsATotal
<1>4. /\ p \in [0 .. m -> Nat] /\ p[0] = 0 /\ \A k \in 1 .. m : p[k] = p[k - 1] + chosen[k]
      /\ q \in [0 .. n -> Nat] /\ q[0] = 0 /\ \A k \in 1 .. n : q[k] = q[k - 1] + sizes[k]
  <2>1. Len(chosen) = m /\ Len(sizes) = n
    BY <1>1, IsSequence
  <2> QED BY <2>1 DEF RunningTotals
<1>5. \A low \in 0 .. n : \A high \in low .. n : q[low] <= q[high]
  <2>1. sizes \in Seq(Nat) /\ Len(sizes) = n
    BY IsSequence
  <2> QED BY <2>1, TotalsGrow
<1> DEFINE Below == {k \in Nat : k \in 1 .. m => p[k] <= q[at[k]]}
<1>6. 0 \in Below
  OBVIOUS
<1>7. ASSUME NEW k \in Nat, k \in Below PROVE k + 1 \in Below
  <2> SUFFICES ASSUME k + 1 <= m PROVE p[k + 1] <= q[at[k + 1]]
    OBVIOUS
  <2> DEFINE here == at[k + 1]
  <2>1. k + 1 \in 1 .. m /\ (k + 1) - 1 = k /\ k \in 0 .. m
    OBVIOUS
  <2>2. here \in 1 .. n /\ here - 1 \in 0 .. n /\ here \in 0 .. n
    BY <2>1
  <2>3. p[k + 1] = p[k] + sizes[here]
    BY <1>1, <1>4, <2>1
  <2>4. q[here] = q[here - 1] + sizes[here]
    BY <1>4, <2>2
  <2>5. p[k] <= q[here - 1]
    <3>1. CASE k = 0
      BY <3>1, <1>4, <2>2
    <3>2. CASE k # 0
      <4>1. k \in 1 .. m /\ k \in 1 .. m - 1
        BY <2>1, <3>2
      <4>2. at[k] < here /\ at[k] \in 1 .. n
        BY <4>1
      <4>3. at[k] \in 0 .. n /\ here - 1 \in at[k] .. n
        BY <2>2, <4>2
      <4>4. p[k] <= q[at[k]] /\ q[at[k]] <= q[here - 1]
        BY <1>5, <1>7, <4>1, <4>3
      <4>5. p[k] \in Nat /\ q[at[k]] \in Nat /\ q[here - 1] \in Nat
        BY <1>4, <2>1, <2>2, <4>3
      <4>6. \A x, y, z \in Nat : x <= y /\ y <= z => x <= z
        OBVIOUS
      <4> HIDE DEF here
      <4> QED BY <4>4, <4>5, <4>6
    <3> QED BY <3>1, <3>2
  <2>6. p[k] \in Nat /\ q[here - 1] \in Nat /\ sizes[here] \in Nat
    BY <1>4, <2>1, <2>2
  <2> HIDE DEF here
  <2>7. p[k + 1] <= q[here]
    BY <2>3, <2>4, <2>5, <2>6
  <2> QED BY <2>7 DEF here
<1>8. Nat \subseteq Below
  <2> HIDE DEF Below
  <2> QED BY <1>6, <1>7, Ascent
<1>9. p[m] <= q[n]
  <2>1. CASE m = 0
    BY <2>1, <1>4
  <2>2. CASE m # 0
    <3>1. m \in 1 .. m /\ at[m] \in 1 .. n
      BY <2>2
    <3>2. at[m] \in 0 .. n /\ n \in at[m] .. n
      BY <3>1
    <3>3. p[m] <= q[at[m]] /\ q[at[m]] <= q[n]
      BY <1>5, <1>8, <3>1, <3>2
    <3>4. p[m] \in Nat /\ q[at[m]] \in Nat /\ q[n] \in Nat
      BY <1>4, <3>1, <3>2
    <3> QED BY <3>3, <3>4
  <2> QED BY <2>1, <2>2
<1> QED BY <1>2, <1>3, <1>9 DEF chosen

-----------------------------------------------------------------------------
(* The lengths of numbers. *)

\* What the recursion of Digits asks of a function, up to n.
CountsDigits(f, n) == f = [m \in 0 .. n |-> IF m < 10 THEN 1 ELSE 1 + f[m \div 10]]

\* The recursion has a solution for every number.
LEMMA DigitsCanBeCounted ==
  ASSUME NEW n \in Nat
  PROVE  \E f : CountsDigits(f, n)
<1> DEFINE Counted == {m \in Nat : \E f : CountsDigits(f, m)}
<1>1. 0 \in Counted
  <2> DEFINE f == [m \in 0 .. 0 |-> 1]
  <2>1. f = [m \in 0 .. 0 |-> IF m < 10 THEN 1 ELSE 1 + f[m \div 10]]
    OBVIOUS
  <2> HIDE DEF f
  <2> QED BY <2>1 DEF CountsDigits
<1>2. ASSUME NEW m \in Nat, m \in Counted PROVE m + 1 \in Counted
  <2>1. PICK f : CountsDigits(f, m)
    BY <1>2
  <2> DEFINE next == m + 1
             value == IF next < 10 THEN 1 ELSE 1 + f[next \div 10]
             g == [k \in 0 .. next |-> IF k = next THEN value ELSE f[k]]
  <2>2. next \in Nat /\ 0 .. m = (0 .. next) \ {next}
    OBVIOUS
  <2>3. \A k \in 0 .. m : f[k] = IF k < 10 THEN 1 ELSE 1 + f[k \div 10]
    BY <2>1 DEF CountsDigits
  <2>4. \A k \in 0 .. next : k >= 10 => k \div 10 \in 0 .. m
    <3>1. \A k \in Nat : k >= 10 => k \div 10 \in Nat /\ k \div 10 <= k - 1
      OBVIOUS
    <3> QED BY <3>1
  <2>5. \A k \in 0 .. next : k >= 10 => g[k \div 10] = f[k \div 10]
    BY <2>2, <2>4
  <2>6. ASSUME NEW k \in 0 .. next PROVE g[k] = IF k < 10 THEN 1 ELSE 1 + g[k \div 10]
    <3>1. CASE k = next
      <4>1. g[k] = IF k < 10 THEN 1 ELSE 1 + f[k \div 10]
        BY <3>1
      <4> HIDE DEF g, next, value
      <4> QED BY <2>5, <4>1, <2>2
    <3>2. CASE k # next
      <4>1. k \in 0 .. m /\ g[k] = f[k]
        BY <3>2, <2>2
      <4> HIDE DEF g, next, value
      <4> QED BY <2>3, <2>5, <4>1
    <3> QED BY <3>1, <3>2
  <2>7. g = [k \in 0 .. next |-> g[k]]
    OBVIOUS
  <2> HIDE DEF g, value
  <2>8. g = [k \in 0 .. next |-> IF k < 10 THEN 1 ELSE 1 + g[k \div 10]]
    BY <2>6, <2>7
  <2> QED BY <2>8 DEF CountsDigits
<1>3. Nat \subseteq Counted
  <2> HIDE DEF Counted
  <2> QED BY <1>1, <1>2, Ascent
<1> QED BY <1>3

\* Two solutions agree where both are defined.
LEMMA DigitsAreCountedOnce ==
  ASSUME NEW n \in Nat, NEW m \in Nat, NEW f, NEW g,
         CountsDigits(f, n), CountsDigits(g, m)
  PROVE  \A k \in Nat : k <= n /\ k <= m => f[k] = g[k]
<1> DEFINE Same == {k \in Nat : k <= n /\ k <= m => f[k] = g[k]}
<1>1. \A k \in 0 .. n : f[k] = IF k < 10 THEN 1 ELSE 1 + f[k \div 10]
  BY DEF CountsDigits
<1>2. \A k \in 0 .. m : g[k] = IF k < 10 THEN 1 ELSE 1 + g[k \div 10]
  BY DEF CountsDigits
<1>3. ASSUME NEW k \in Nat, \A j \in 0 .. k - 1 : j \in Same PROVE k \in Same
  <2> SUFFICES ASSUME k <= n, k <= m PROVE f[k] = g[k]
    OBVIOUS
  <2>1. CASE k < 10
    BY <1>1, <1>2, <2>1
  <2>2. CASE k >= 10
    <3>1. k \div 10 \in 0 .. k - 1
      BY <2>2
    <3>2. k \div 10 \in Nat /\ k \div 10 <= n /\ k \div 10 <= m
      BY <3>1
    <3>3. f[k \div 10] = g[k \div 10]
      BY <1>3, <3>1, <3>2
    <3> QED BY <1>1, <1>2, <2>2, <3>3
  <2> QED BY <2>1, <2>2
<1>4. Nat \subseteq Same
  <2> HIDE DEF Same
  <2> QED BY <1>3, Descent
<1> QED BY <1>4

\* A number has a digit more than its tenth.
LEMMA DigitsUnfold ==
  ASSUME NEW n \in Nat
  PROVE  Digits(n) = IF n < 10 THEN 1 ELSE 1 + Digits(n \div 10)
<1> DEFINE Counting(k) == CHOOSE f : CountsDigits(f, k)
<1>1. \A k \in Nat : CountsDigits(Counting(k), k)
  BY DigitsCanBeCounted, Zenon
<1>2. \A k : Digits(k) = Counting(k)[k]
  BY DEF Digits, CountsDigits
<1> HIDE DEF Counting
<1>3. Digits(n) = IF n < 10 THEN 1 ELSE 1 + Counting(n)[n \div 10]
  BY <1>1, <1>2 DEF CountsDigits
<1>4. CASE n < 10
  BY <1>3, <1>4
<1>5. CASE n >= 10
  <2>1. n \div 10 \in Nat /\ n \div 10 <= n
    OBVIOUS
  <2>2. Counting(n)[n \div 10] = Counting(n \div 10)[n \div 10]
    BY <1>1, <2>1, DigitsAreCountedOnce
  <2> QED BY <1>2, <1>3, <1>5, <2>2
<1> QED BY <1>4, <1>5

\* The length of a number is positive, and no smaller number is longer.
LEMMA DigitsGrow ==
  ASSUME NEW n \in Nat
  PROVE  Digits(n) \in Nat \ {0} /\ \A m \in 0 .. n : Digits(m) <= Digits(n)
<1> DEFINE Good == {k \in Nat : /\ Digits(k) \in Nat \ {0}
                                /\ \A m \in 0 .. k : Digits(m) <= Digits(k)}
<1>1. ASSUME NEW k \in Nat, \A j \in 0 .. k - 1 : j \in Good PROVE k \in Good
  <2>1. Digits(k) = IF k < 10 THEN 1 ELSE 1 + Digits(k \div 10)
    BY DigitsUnfold
  <2>2. CASE k < 10
    <3>1. \A m \in 0 .. k : Digits(m) = 1
      BY <2>2, DigitsUnfold
    <3> QED BY <2>1, <2>2, <3>1
  <2>3. CASE k >= 10
    <3> DEFINE tenth == k \div 10
    <3>1. tenth \in 0 .. k - 1
      BY <2>3
    <3>2. tenth \in Good
      BY <1>1, <3>1
    <3>3. Digits(tenth) \in Nat \ {0} /\ \A m \in 0 .. tenth : Digits(m) <= Digits(tenth)
      BY <3>2
    <3>4. Digits(k) = 1 + Digits(tenth)
      BY <2>1, <2>3
    <3>5. ASSUME NEW m \in 0 .. k PROVE Digits(m) <= Digits(k)
      <4>1. m \in Nat /\ Digits(m) = IF m < 10 THEN 1 ELSE 1 + Digits(m \div 10)
        BY DigitsUnfold
      <4>2. m \div 10 \in 0 .. tenth
        BY <4>1
      <4>3. Digits(m \div 10) <= Digits(tenth) /\ Digits(m \div 10) \in Nat
        <5>1. m \div 10 \in 0 .. k - 1
          BY <3>1, <4>2
        <5> QED BY <1>1, <3>3, <4>2, <5>1
      <4> HIDE DEF tenth
      <4> QED BY <3>3, <3>4, <4>1, <4>3
    <3> HIDE DEF tenth
    <3> QED BY <3>3, <3>4, <3>5
  <2> QED BY <2>2, <2>3
<1>2. Nat \subseteq Good
  <2> HIDE DEF Good
  <2> QED BY <1>1, Descent
<1> QED BY <1>2

-----------------------------------------------------------------------------
(* Texts, and what is shown of them. *)

\* A set of numbers that has a bound, and something in it, has a largest.
LEMMA LargestIsThere ==
  ASSUME NEW S \in SUBSET Nat, S # {}, NEW bound \in Nat, \A n \in S : n <= bound
  PROVE  Largest(S) \in S /\ \A n \in S : n <= Largest(S)
<1> DEFINE Has(T) == \E n \in T : \A o \in T : o <= n
           Topped == {b \in Nat : \A T \in SUBSET (0 .. b) : T # {} => Has(T)}
<1>1. 0 \in Topped
  <2>1. ASSUME NEW T \in SUBSET (0 .. 0), T # {} PROVE Has(T)
    <3>1. \A o \in T : o = 0
      BY <2>1
    <3>2. PICK n : n \in T
      BY <2>1
    <3>3. \A o \in T : o <= n
      BY <3>1, <3>2
    <3> QED BY <3>2, <3>3
  <2> HIDE DEF Has
  <2> QED BY <2>1
<1>2. ASSUME NEW b \in Nat, b \in Topped PROVE b + 1 \in Topped
  <2>1. ASSUME NEW T \in SUBSET (0 .. b + 1), T # {} PROVE Has(T)
    <3>1. CASE b + 1 \in T
      BY <3>1
    <3>2. CASE b + 1 \notin T
      <4>1. T \in SUBSET (0 .. b)
        BY <3>2
      <4> HIDE DEF Has
      <4> QED BY <1>2, <2>1, <4>1
    <3> QED BY <3>1, <3>2
  <2> HIDE DEF Has
  <2> QED BY <2>1
<1>3. Nat \subseteq Topped
  <2> HIDE DEF Topped
  <2> QED BY <1>1, <1>2, Ascent
<1>4. Has(S)
  <2>1. S \in SUBSET (0 .. bound)
    OBVIOUS
  <2> HIDE DEF Has
  <2> QED BY <1>3, <2>1
<1> QED BY <1>4, Zenon DEF Largest

\* Files with texts in them.
Texts == {file \in [path : Nat, cuts : SUBSET Nat] : IsText(file.cuts)}

\* A text has a size, at which it ends.
LEMMA TextEnds ==
  ASSUME NEW file \in Texts
  PROVE  /\ Size(file) \in Nat /\ Size(file) \in file.cuts /\ 0 \in file.cuts
         /\ file.cuts \in SUBSET Nat /\ \A c \in file.cuts : c <= Size(file)
<1> DEFINE cuts == file.cuts
<1>1. cuts \in SUBSET Nat /\ IsText(cuts)
  BY DEF Texts
<1> HIDE DEF cuts
<1>2. PICK end \in cuts : cuts \subseteq 0 .. end
  BY <1>1 DEF IsText
<1>3. 0 \in cuts /\ end \in Nat /\ \A c \in cuts : c <= end
  BY <1>1, <1>2 DEF IsText
<1>4. Largest(cuts) \in cuts /\ \A c \in cuts : c <= Largest(cuts)
  <2>1. cuts # {}
    BY <1>3
  <2> QED BY <1>1, <1>3, <2>1, LargestIsThere
<1> QED BY <1>1, <1>3, <1>4 DEF Size, cuts

\* What is shown of a text ends where one of its characters does, within what
\* was asked for, and not a whole character short of it.
LEMMA PrefixFits ==
  ASSUME NEW file \in Texts, NEW maximum \in Nat
  PROVE  /\ Prefix(file, maximum) \in Nat /\ Prefix(file, maximum) \in file.cuts
         /\ Prefix(file, maximum) <= maximum /\ Prefix(file, maximum) <= Size(file)
         /\ Prefix(file, maximum) = Size(file) \/ maximum <= Prefix(file, maximum) + 3
<1> DEFINE cuts == file.cuts
           fitting == {c \in cuts : c <= maximum}
           shown == Largest(fitting)
<1>1. /\ cuts \in SUBSET Nat /\ 0 \in cuts /\ Size(file) \in cuts /\ Size(file) \in Nat
      /\ \A c \in cuts : c <= Size(file)
  BY TextEnds
<1>2. \A c \in cuts \ {Size(file)} : \E w \in 1 .. 4 : c + w \in cuts
  BY DEF Texts, IsText, Size, CharacterSize
<1> HIDE DEF cuts
<1>3. fitting \in SUBSET Nat /\ fitting # {} /\ \A c \in fitting : c <= maximum
  <2>1. fitting \in SUBSET Nat /\ \A c \in fitting : c <= maximum
    BY <1>1
  <2>2. 0 \in fitting
    BY <1>1
  <2> HIDE DEF fitting
  <2> QED BY <2>1, <2>2
<1>4. shown \in fitting /\ \A c \in fitting : c <= shown
  <2> HIDE DEF fitting
  <2> QED BY <1>3, LargestIsThere
<1>5. Prefix(file, maximum) = shown
  BY DEF Prefix, cuts
<1> HIDE DEF shown
<1>6. shown \in Nat /\ shown \in cuts /\ shown <= maximum /\ shown <= Size(file)
  BY <1>1, <1>4
<1>7. CASE shown # Size(file)
  <2>1. PICK w \in 1 .. 4 : shown + w \in cuts
    BY <1>2, <1>6, <1>7
  <2>2. CASE shown + w <= maximum
    BY <1>4, <1>6, <2>1, <2>2
  <2>3. CASE ~(shown + w <= maximum)
    <3>1. maximum <= shown + 3
      BY <1>6, <2>1, <2>3
    <3> QED BY <1>5, <1>6, <3>1 DEF cuts
  <2> QED BY <2>2, <2>3
<1> QED BY <1>5, <1>6, <1>7 DEF cuts

-----------------------------------------------------------------------------
(* The places of a sample. *)

\* A sample has the ends of a list, none twice, and steps that differ by one.
LEMMA PlacesAreSpread ==
  ASSUME NEW count \in Nat \ {0}
  PROVE  LET at == EvenlySpaced(count)
             m  == LeastOf(count, SampleCap)
         IN /\ m \in Nat \ {0} /\ at \in [1 .. m -> 1 .. count]
            /\ at[1] = 1 /\ at[m] = count
            /\ \E step \in Nat \ {0} : \A k \in 1 .. m - 1 :
                 at[k + 1] - at[k] = step \/ at[k + 1] - at[k] = step + 1
<1>1. CASE count <= SampleCap
  <2>1. LeastOf(count, SampleCap) = count
    BY <1>1 DEF LeastOf
  <2>2. EvenlySpaced(count) = [k \in 1 .. count |-> k]
    BY <1>1 DEF EvenlySpaced
  <2> DEFINE at == [k \in 1 .. count |-> k]
  <2>3. at \in [1 .. count -> 1 .. count] /\ \A k \in 1 .. count : at[k] = k
    OBVIOUS
  <2> HIDE DEF at
  <2>4. \A k \in 1 .. count - 1 : at[k + 1] - at[k] = 1
    BY <2>3
  <2>5. \E step \in Nat \ {0} : \A k \in 1 .. count - 1 :
          at[k + 1] - at[k] = step \/ at[k + 1] - at[k] = step + 1
    BY <2>4
  <2>6. EvenlySpaced(count) = at
    BY <2>2 DEF at
  <2> QED BY <2>1, <2>3, <2>5, <2>6
<1>2. CASE count > SampleCap
  <2> DEFINE s == SampleCap - 1
             q == count - 1
             at == [k \in 1 .. SampleCap |-> 1 + ((k - 1) * q) \div s]
  <2>1. s \in Nat \ {0} /\ q \in Nat /\ s < q /\ s + 1 = SampleCap /\ q + 1 = count
    BY <1>2, SampleHasTwoEnds
  <2>2. LeastOf(count, SampleCap) = SampleCap
    BY <1>2, SampleHasTwoEnds DEF LeastOf
  <2>3. EvenlySpaced(count) = at
    BY <1>2, SampleHasTwoEnds DEF EvenlySpaced
  <2>4. \A k \in 1 .. SampleCap : at[k] = 1 + ((k - 1) * q) \div s
    OBVIOUS
  <2>5. DOMAIN at = 1 .. SampleCap /\ at = [k \in 1 .. SampleCap |-> at[k]]
    OBVIOUS
  <2> HIDE DEF at, s, q
  <2>6. \A x, y \in Nat : (x + y) \div s = x \div s + y \div s \/ (x + y) \div s = x \div s + y \div s + 1
    BY <2>1
  <2>7. \A x \in Nat : x \div s \in Nat /\ (x * s) \div s = x
    BY <2>1
  <2>8. \A j \in Nat : j * q \in Nat /\ (j + 1) * q = j * q + q
    BY <2>1
  <2>9. q \div s \in Nat \ {0}
    BY <2>1
  <2>10. ASSUME NEW k \in 1 .. SampleCap - 1
         PROVE  at[k + 1] - at[k] = q \div s \/ at[k + 1] - at[k] = q \div s + 1
    <3>1. k - 1 \in Nat /\ k \in 1 .. SampleCap /\ k + 1 \in 1 .. SampleCap /\ (k + 1) - 1 = (k - 1) + 1
      BY <2>1
    <3>2. at[k + 1] = 1 + ((k - 1) * q + q) \div s
      BY <2>4, <2>8, <3>1
    <3>3. at[k] = 1 + ((k - 1) * q) \div s
      BY <2>4, <3>1
    <3> DEFINE x == (k - 1) * q
    <3>4. x \in Nat
      BY <2>8, <3>1
    <3>5. at[k + 1] = 1 + (x + q) \div s /\ at[k] = 1 + x \div s
      BY <3>2, <3>3
    <3> HIDE DEF x
    <3>6. (x + q) \div s = x \div s + q \div s \/ (x + q) \div s = x \div s + q \div s + 1
      BY <2>1, <2>6, <3>4
    <3>7. x \div s \in Nat /\ q \div s \in Nat
      BY <2>1, <2>7, <3>4
    <3>8. \A e, f, g \in Nat : (f = e + g => (1 + f) - (1 + e) = g) /\ (f = e + g + 1 => (1 + f) - (1 + e) = g + 1)
      OBVIOUS
    <3>9. (x + q) \div s \in Nat
      BY <2>1, <2>7, <3>4
    <3> QED BY <3>5, <3>6, <3>7, <3>8, <3>9
  <2>11. at[1] = 1
    <3>1. 1 \in 1 .. SampleCap /\ (1 - 1) * q = 0 /\ 0 \div s = 0
      BY <2>1
    <3> QED BY <2>4, <3>1
  <2>12. at[SampleCap] = count
    <3>1. SampleCap \in 1 .. SampleCap /\ SampleCap - 1 = s
      BY <2>1
    <3>2. at[SampleCap] = 1 + (s * q) \div s
      BY <2>4, <3>1
    <3>3. s * q = q * s
      BY <2>1
    <3> QED BY <2>1, <2>7, <3>2, <3>3
  <2>13. ASSUME NEW k \in 1 .. SampleCap PROVE at[k] \in 1 .. count
    <3>1. k - 1 \in Nat /\ k - 1 <= s
      BY <2>1
    <3>2. (k - 1) * q <= q * s /\ (k - 1) * q \in Nat
      BY <2>1, <3>1
    <3>3. \A x, y \in Nat : x <= y => x \div s <= y \div s
      BY <2>1
    <3>4. q * s \in Nat /\ (q * s) \div s = q
      BY <2>1, <2>7
    <3>5. ((k - 1) * q) \div s <= q /\ ((k - 1) * q) \div s \in Nat
      BY <2>7, <3>2, <3>3, <3>4
    <3> QED BY <2>1, <2>4, <3>5
  <2>14. at \in [1 .. SampleCap -> 1 .. count]
    BY <2>5, <2>13
  <2>15. \E step \in Nat \ {0} : \A k \in 1 .. SampleCap - 1 :
           at[k + 1] - at[k] = step \/ at[k + 1] - at[k] = step + 1
    BY <2>9, <2>10
  <2>16. SampleCap \in Nat \ {0}
    BY SampleHasTwoEnds
  <2> QED BY <2>2, <2>3, <2>11, <2>12, <2>14, <2>15, <2>16
<1>3. count <= SampleCap \/ count > SampleCap
  BY SampleHasTwoEnds
<1> QED BY <1>1, <1>2, <1>3, Zenon

-----------------------------------------------------------------------------
(* The sizes of a digest. *)

\* The sizes of texts, in their order.
Sizes(texts) == [k \in DOMAIN texts |-> Size(texts[k])]

\* Texts have sizes, and these add up.
LEMMA TextsAddUp ==
  ASSUME NEW texts \in Seq(Texts)
  PROVE  /\ Len(texts) \in Nat /\ DOMAIN texts = 1 .. Len(texts)
         /\ \A k \in 1 .. Len(texts) : texts[k] \in Texts
         /\ Sizes(texts) \in [1 .. Len(texts) -> Nat]
         /\ \A k \in 1 .. Len(texts) : Sizes(texts)[k] = Size(texts[k])
         /\ Selected(texts) = SumOf(Sizes(texts)) /\ Selected(texts) \in Nat
<1> DEFINE n == Len(texts)
<1>1. n \in Nat /\ DOMAIN texts = 1 .. n /\ \A k \in 1 .. n : texts[k] \in Texts
  OBVIOUS
<1> HIDE DEF n
<1>2. \A k \in 1 .. n : Size(texts[k]) \in Nat
  BY <1>1, TextEnds
<1>3. Sizes(texts) \in [1 .. n -> Nat] /\ \A k \in 1 .. n : Sizes(texts)[k] = Size(texts[k])
  BY <1>1, <1>2 DEF Sizes
<1>4. Selected(texts) = SumOf(Sizes(texts))
  BY DEF Selected, Sizes
<1>5. SumOf(Sizes(texts)) \in Nat
  <2>1. Sizes(texts) \in Seq(Nat)
    BY <1>1, <1>3, IsSequence
  <2> QED BY <2>1, PartOfSum
<1> QED BY <1>1, <1>3, <1>4, <1>5 DEF n

\* A sample is of the files, has all of them if they are few enough, and has no
\* more in it than they have.
LEMMA SampleIsOfFiles ==
  ASSUME NEW texts \in Seq(Texts), Len(texts) > 0
  PROVE  /\ Sampled(texts) \in Seq(Texts)
         /\ Len(Sampled(texts)) = LeastOf(Len(texts), SampleCap)
         /\ Len(Sampled(texts)) \in Nat \ {0} /\ Len(Sampled(texts)) <= Len(texts)
         /\ Len(Sampled(texts)) = Len(texts) => Sampled(texts) = texts
         /\ Selected(Sampled(texts)) <= Selected(texts)
<1> DEFINE n  == Len(texts)
           m  == LeastOf(n, SampleCap)
           at == EvenlySpaced(n)
           chosen == Sampled(texts)
<1>1. n \in Nat \ {0} /\ DOMAIN texts = 1 .. n /\ texts \in [1 .. n -> Texts]
  <2>1. n \in Nat /\ n > 0
    OBVIOUS
  <2> QED BY <2>1, TextsAddUp
<1>2. m \in Nat \ {0} /\ m <= n /\ at \in [1 .. m -> 1 .. n] /\ \A k \in 1 .. m - 1 : at[k] < at[k + 1]
  <2> HIDE DEF n
  <2>1. /\ m \in Nat \ {0} /\ at \in [1 .. m -> 1 .. n]
        /\ \E step \in Nat \ {0} : \A k \in 1 .. m - 1 :
             at[k + 1] - at[k] = step \/ at[k + 1] - at[k] = step + 1
    BY <1>1, PlacesAreSpread
  <2> HIDE DEF at
  <2>2. m <= n
    BY <1>1, SampleHasTwoEnds DEF LeastOf
  <2> HIDE DEF m
  <2>3. ASSUME NEW k \in 1 .. m - 1 PROVE at[k] < at[k + 1]
    <3>1. k \in 1 .. m /\ k + 1 \in 1 .. m
      BY <2>1
    <3>2. at[k] \in 1 .. n /\ at[k + 1] \in 1 .. n
      BY <2>1, <3>1
    <3> QED BY <1>1, <2>1, <3>2
  <2> QED BY <2>1, <2>2, <2>3
<1>3. chosen = [k \in 1 .. m |-> texts[at[k]]]
  BY <1>2 DEF Sampled
<1>4. m = n => at = [k \in 1 .. n |-> k]
  <2> HIDE DEF n
  <2>1. m = n => n <= SampleCap
    BY <1>1, SampleHasTwoEnds DEF LeastOf
  <2>2. n <= SampleCap => at = [k \in 1 .. n |-> k]
    BY DEF EvenlySpaced
  <2> QED BY <2>1, <2>2
<1> HIDE DEF n, m, at, chosen
<1>5. chosen \in [1 .. m -> Texts]
  BY <1>1, <1>2, <1>3
<1>6. chosen \in Seq(Texts) /\ Len(chosen) = m
  BY <1>2, <1>5, IsSequence
<1>7. m = n => chosen = texts
  <2> SUFFICES ASSUME m = n PROVE chosen = texts
    OBVIOUS
  <2>1. \A k \in 1 .. n : at[k] = k
    BY <1>4
  <2>2. \A k \in 1 .. n : chosen[k] = texts[k]
    BY <1>3, <2>1
  <2> QED BY <1>1, <1>5, <2>2
<1>8. Selected(chosen) <= Selected(texts)
  <2>1. /\ Sizes(texts) \in [1 .. n -> Nat] /\ Selected(texts) = SumOf(Sizes(texts))
        /\ \A k \in 1 .. n : Sizes(texts)[k] = Size(texts[k])
    BY TextsAddUp DEF n
  <2>2. SumOf([k \in 1 .. m |-> Sizes(texts)[at[k]]]) <= SumOf(Sizes(texts))
    BY <1>1, <1>2, <2>1, ChosenAddUp
  <2>3. DOMAIN chosen = 1 .. m /\ \A k \in 1 .. m : chosen[k] = texts[at[k]] /\ at[k] \in 1 .. n
    BY <1>2, <1>3
  <2>4. \A k \in 1 .. m : Sizes(texts)[at[k]] = Size(chosen[k])
    BY <2>1, <2>3
  <2>5. [k \in 1 .. m |-> Sizes(texts)[at[k]]] = [k \in DOMAIN chosen |-> Size(chosen[k])]
    BY <2>3, <2>4
  <2> QED BY <2>1, <2>2, <2>5 DEF Selected
<1> QED BY <1>1, <1>2, <1>6, <1>7, <1>8 DEF n, m, chosen

\* A budget that is shared out is not exceeded, what is shown of a file is cut
\* where a character ends, and no file has much more than one that was cut.
LEMMA IncludedFits ==
  ASSUME NEW texts \in Seq(Texts), Len(texts) > 0, NEW b \in Nat
  PROVE  LET shown == Included(texts, b)
             n     == Len(texts)
         IN /\ shown \in [1 .. n -> Nat] /\ SumOf(shown) <= b
            /\ \A k \in 1 .. n : shown[k] \in texts[k].cuts /\ shown[k] <= Size(texts[k])
            /\ \A j, k \in 1 .. n : shown[j] < Size(texts[j]) => shown[k] <= shown[j] + 4
<1> DEFINE n == Len(texts)
           shown == Included(texts, b)
           each == b \div n
           rest == b % n
           sizes == [k \in DOMAIN texts |-> Size(texts[k])]
           more(k) == IF k <= rest THEN 1 ELSE 0
           asked == Divide(b, sizes)
<1>1. /\ n \in Nat \ {0} /\ DOMAIN texts = 1 .. n /\ \A k \in 1 .. n : texts[k] \in Texts
      /\ \A k \in 1 .. n : Size(texts[k]) \in Nat
  <2>1. n \in Nat /\ n > 0
    OBVIOUS
  <2>2. DOMAIN texts = 1 .. n /\ \A k \in 1 .. n : texts[k] \in Texts
    BY TextsAddUp
  <2>3. \A k \in 1 .. n : Size(texts[k]) \in Nat
    <3> HIDE DEF n
    <3> QED BY <2>2, TextEnds
  <2> QED BY <2>1, <2>2, <2>3
<1> HIDE DEF n
<1>2. each \in Nat /\ rest \in 0 .. n - 1 /\ n * each + rest = b
  BY <1>1
<1>3. Len(sizes) = n /\ \A k \in 1 .. n : sizes[k] = Size(texts[k])
  <2>1. sizes \in [1 .. n -> Nat]
    BY <1>1
  <2>2. Len(sizes) = n
    <3> HIDE DEF sizes
    <3> QED BY <1>1, <2>1, IsSequence
  <2> QED BY <1>1, <2>2
<1>4. asked = [k \in 1 .. n |-> LeastOf(sizes[k], each + more(k))]
  <2> HIDE DEF sizes
  <2> QED BY <1>3 DEF Divide
<1> HIDE DEF sizes, asked, each, rest
<1>5. \A k \in 1 .. n : /\ asked[k] \in Nat /\ asked[k] <= each + more(k)
                        /\ asked[k] = Size(texts[k]) \/ each <= asked[k]
  BY <1>1, <1>2, <1>3, <1>4 DEF LeastOf
<1>6. shown = [k \in 1 .. n |-> Prefix(texts[k], asked[k])]
  BY <1>1 DEF Included, asked, sizes
<1> HIDE DEF shown
<1>7. \A k \in 1 .. n :
        /\ shown[k] \in Nat /\ shown[k] \in texts[k].cuts
        /\ shown[k] <= asked[k] /\ shown[k] <= Size(texts[k])
        /\ shown[k] = Size(texts[k]) \/ asked[k] <= shown[k] + 3
  <2>1. ASSUME NEW k \in 1 .. n
        PROVE  /\ shown[k] \in Nat /\ shown[k] \in texts[k].cuts
               /\ shown[k] <= asked[k] /\ shown[k] <= Size(texts[k])
               /\ shown[k] = Size(texts[k]) \/ asked[k] <= shown[k] + 3
    <3>1. texts[k] \in Texts /\ asked[k] \in Nat /\ shown[k] = Prefix(texts[k], asked[k])
      BY <1>1, <1>5, <1>6
    <3> QED BY <3>1, PrefixFits
  <2> QED BY <2>1
<1>8. shown \in [1 .. n -> Nat]
  BY <1>6, <1>7
<1>9. \A k \in 1 .. n : shown[k] <= each + more(k)
  <2>1. \A k \in 1 .. n : each + more(k) \in Nat
    BY <1>2
  <2> HIDE DEF more
  <2> QED BY <1>5, <1>7, <2>1
<1>10. SumOf(shown) <= b
  <2>1. rest \in 0 .. n
    BY <1>1, <1>2
  <2>2. SumOf(shown) <= n * each + rest
    BY <1>1, <1>2, <1>8, <1>9, <2>1, SharesAddUp
  <2> QED BY <1>2, <2>2
<1>11. ASSUME NEW j \in 1 .. n, NEW k \in 1 .. n, shown[j] < Size(texts[j])
       PROVE  shown[k] <= shown[j] + 4
  <2>1. /\ shown[j] \in Nat /\ shown[k] \in Nat /\ asked[j] \in Nat /\ Size(texts[j]) \in Nat
        /\ asked[j] <= shown[j] + 3
    BY <1>1, <1>5, <1>7, <1>11
  <2>2. each <= asked[j] \/ asked[j] = Size(texts[j])
    BY <1>5
  <2>3. shown[k] <= each + 1
    BY <1>2, <1>9, <2>1
  <2>4. each <= asked[j]
    \* A file that was asked for whole is shown whole.
    <3>1. CASE asked[j] = Size(texts[j])
      <4>1. Prefix(texts[j], asked[j]) = Size(texts[j])
        <5>1. texts[j] \in Texts
          BY <1>1
        <5>2. Size(texts[j]) \in {c \in texts[j].cuts : c <= asked[j]}
          BY <3>1, <5>1, TextEnds
        <5>3. \A c \in {c \in texts[j].cuts : c <= asked[j]} : c <= Size(texts[j])
          BY <5>1, TextEnds
        <5>4. {c \in texts[j].cuts : c <= asked[j]} = texts[j].cuts
          BY <3>1, <5>1, TextEnds
        <5> QED BY <5>4 DEF Prefix, Size
      <4> QED BY <1>6, <1>11, <2>1, <4>1
    <3> QED BY <2>2, <3>1
  <2>5. \A u, v, x, y \in Nat : u <= v + 1 /\ v <= x /\ x <= y + 3 => u <= y + 4
    OBVIOUS
  <2> QED BY <1>2, <2>1, <2>3, <2>4, <2>5
<1> QED BY <1>7, <1>8, <1>10, <1>11 DEF n, shown

\* The size of a section is a number; markers add to it, and with text it is
\* larger than without, by no more than the text and the length of its size.
LEMMA SectionsGrow ==
  ASSUME NEW file \in Texts, NEW shown \in Nat, shown <= Size(file)
  PROVE  /\ SectionSize(file, shown, FALSE) \in Nat /\ SectionSize(file, shown, TRUE) \in Nat
         /\ SectionSize(file, shown, FALSE) < SectionSize(file, shown, TRUE)
         /\ SectionSize(file, shown, TRUE)
              <= SectionSize(file, 0, TRUE) + shown + Digits(Size(file))
<1>1. file.path \in Nat
  BY DEF Texts
<1>2. Size(file) \in Nat
  BY TextEnds
<1>3. /\ Digits(Size(file)) \in Nat \ {0} /\ Digits(shown) \in Nat \ {0}
      /\ Digits(shown) <= Digits(Size(file)) /\ Digits(0) = 1
  <2>1. shown \in 0 .. Size(file)
    BY <1>2
  <2>2. Digits(0) = 1
    BY DigitsUnfold
  <2> QED BY <1>2, <2>1, <2>2, DigitsGrow
<1>4. MarkerOf(file, shown) \in Nat \ {0} /\ MarkerOf(file, 0) \in Nat
  BY <1>2, <1>3, SizesAreNaturals DEF MarkerOf, FlagSize
<1>5. MarkerOf(file, shown) <= MarkerOf(file, 0) + Digits(Size(file))
  BY <1>2, <1>3, SizesAreNaturals DEF MarkerOf, FlagSize
<1>6. /\ SectionSize(file, shown, FALSE) = 6 + file.path + shown
      /\ SectionSize(file, shown, TRUE) = 6 + file.path + shown + MarkerOf(file, shown)
      /\ SectionSize(file, 0, TRUE) = 6 + file.path + MarkerOf(file, 0)
  BY <1>1, <1>4 DEF SectionSize
<1> DEFINE path == file.path
           plain  == SectionSize(file, shown, FALSE)
           marked == SectionSize(file, shown, TRUE)
           bare   == SectionSize(file, 0, TRUE)
           marker == MarkerOf(file, shown)
           least  == MarkerOf(file, 0)
           digits == Digits(Size(file))
<1>7. /\ path \in Nat /\ marker \in Nat \ {0} /\ least \in Nat /\ digits \in Nat
      /\ marker <= least + digits
      /\ plain = 6 + path + shown /\ marked = 6 + path + shown + marker /\ bare = 6 + path + least
  BY <1>1, <1>3, <1>4, <1>5, <1>6
<1> HIDE DEF path, plain, marked, bare, marker, least, digits
<1>8. plain \in Nat /\ marked \in Nat /\ plain < marked /\ marked <= bare + shown + digits
  BY <1>7
<1> QED BY <1>8 DEF plain, marked, bare, digits

\* The sections of a digest.
Sections(texts, shown, described) ==
  [k \in DOMAIN texts |-> SectionSize(texts[k], shown[k], described)]

\* Their sizes are numbers, with markers or without.
LEMMA SectionsAddUp ==
  ASSUME NEW texts \in Seq(Texts), NEW shown \in [1 .. Len(texts) -> Nat],
         \A k \in 1 .. Len(texts) : shown[k] <= Size(texts[k])
  PROVE  /\ Sections(texts, shown, FALSE) \in [1 .. Len(texts) -> Nat]
         /\ Sections(texts, shown, TRUE) \in [1 .. Len(texts) -> Nat]
         /\ SumOf(Sections(texts, shown, FALSE)) \in Nat
         /\ SumOf(Sections(texts, shown, TRUE)) \in Nat
<1> DEFINE n == Len(texts)
           plain  == Sections(texts, shown, FALSE)
           marked == Sections(texts, shown, TRUE)
<1>1. n \in Nat /\ DOMAIN texts = 1 .. n /\ \A k \in 1 .. n : texts[k] \in Texts
  BY TextsAddUp
<1>2. shown \in [1 .. n -> Nat] /\ \A k \in 1 .. n : shown[k] <= Size(texts[k])
  OBVIOUS
<1> HIDE DEF n
<1>3. \A k \in 1 .. n : /\ SectionSize(texts[k], shown[k], FALSE) \in Nat
                        /\ SectionSize(texts[k], shown[k], TRUE) \in Nat
  <2>1. ASSUME NEW k \in 1 .. n
        PROVE  /\ SectionSize(texts[k], shown[k], FALSE) \in Nat
               /\ SectionSize(texts[k], shown[k], TRUE) \in Nat
    <3>1. texts[k] \in Texts /\ shown[k] \in Nat /\ shown[k] <= Size(texts[k])
      BY <1>1, <1>2
    <3> QED BY <3>1, SectionsGrow
  <2> QED BY <2>1
<1>4. plain = [k \in 1 .. n |-> SectionSize(texts[k], shown[k], FALSE)]
  BY <1>1 DEF Sections
<1>5. marked = [k \in 1 .. n |-> SectionSize(texts[k], shown[k], TRUE)]
  BY <1>1 DEF Sections
<1> HIDE DEF plain, marked
<1>6. plain \in [1 .. n -> Nat] /\ marked \in [1 .. n -> Nat]
  BY <1>3, <1>4, <1>5
<1>7. SumOf(plain) \in Nat /\ SumOf(marked) \in Nat
  <2>1. plain \in Seq(Nat) /\ marked \in Seq(Nat)
    BY <1>1, <1>6, IsSequence
  <2> QED BY <2>1, PartOfSum
<1> QED BY <1>6, <1>7 DEF n, plain, marked

\* A digest takes its sections, its frame and the numbers of its last line.
LEMMA DigestHasASize ==
  ASSUME NEW texts \in Seq(Texts), NEW chosen \in Seq(Texts),
         NEW shown \in [1 .. Len(chosen) -> Nat],
         \A k \in 1 .. Len(chosen) : shown[k] <= Size(chosen[k]),
         Selected(chosen) <= Selected(texts), NEW described \in BOOLEAN
  PROVE  /\ RenderedSize(texts, chosen, shown, described)
              = FrameSize + EvidenceSize(texts, chosen, shown) + SumOf(Sections(chosen, shown, described))
         /\ SumOf(shown) \in Nat /\ SumOf(shown) <= Selected(chosen)
         /\ EvidenceSize(texts, chosen, shown) \in Nat
         /\ RenderedSize(texts, chosen, shown, described) \in Nat
<1> DEFINE n == Len(chosen)
<1>1. RenderedSize(texts, chosen, shown, described)
        = FrameSize + EvidenceSize(texts, chosen, shown) + SumOf(Sections(chosen, shown, described))
  BY DEF RenderedSize, Sections
<1>2. /\ n \in Nat /\ Sizes(chosen) \in [1 .. n -> Nat] /\ Selected(chosen) = SumOf(Sizes(chosen))
      /\ \A k \in 1 .. n : Sizes(chosen)[k] = Size(chosen[k])
  BY TextsAddUp
<1>3. shown \in [1 .. n -> Nat] /\ \A k \in 1 .. n : shown[k] <= Sizes(chosen)[k]
  BY <1>2
<1>4. Len(texts) \in Nat /\ Selected(texts) \in Nat /\ Selected(chosen) \in Nat
  BY TextsAddUp
<1>5. SumOf(Sections(chosen, shown, described)) \in Nat
  <2>1. SumOf(Sections(chosen, shown, TRUE)) \in Nat /\ SumOf(Sections(chosen, shown, FALSE)) \in Nat
    BY SectionsAddUp
  <2>2. CASE described = TRUE
    BY <2>1, <2>2
  <2>3. CASE described = FALSE
    BY <2>1, <2>3
  <2> QED BY <2>2, <2>3
<1> HIDE DEF n
<1>6. SumOf(shown) \in Nat /\ SumOf(shown) <= SumOf(Sizes(chosen))
  <2>1. shown \in Seq(Nat)
    BY <1>2, <1>3, IsSequence
  <2> QED BY <1>2, <1>3, <2>1, PartOfSum, SumsCompare
<1>7. EvidenceSize(texts, chosen, shown) \in Nat
  <2>1. Selected(texts) - SumOf(shown) \in Nat
    BY <1>2, <1>4, <1>6
  <2> DEFINE omitted == Selected(texts) - SumOf(shown)
  <2>2. /\ Digits(Len(texts)) \in Nat /\ Digits(n) \in Nat /\ Digits(Selected(texts)) \in Nat
        /\ Digits(SumOf(shown)) \in Nat /\ Digits(omitted) \in Nat
    <3> HIDE DEF omitted
    <3>1. omitted \in Nat
      BY <2>1 DEF omitted
    <3> QED BY <1>2, <1>4, <1>6, <3>1, DigitsGrow
  <2> HIDE DEF omitted
  <2>3. EvidenceSize(texts, chosen, shown) = Digits(Len(texts)) + Digits(n)
          + Digits(Selected(texts)) + Digits(SumOf(shown)) + Digits(omitted)
    BY DEF EvidenceSize, n, omitted
  <2> QED BY <2>2, <2>3
<1> QED BY <1>1, <1>2, <1>5, <1>6, <1>7, SizesAreNaturals

\* What a digest needs for the numbers in it.
NumbersOf(texts, chosen) ==
  SumOf([k \in DOMAIN chosen |-> Digits(Size(chosen[k]))]) + Digits(Selected(texts))

\* With its text a digest is larger than its structure by the text and what the
\* numbers in it may come to need, at most.
LEMMA StructureGrows ==
  ASSUME NEW texts \in Seq(Texts), NEW chosen \in Seq(Texts),
         NEW shown \in [1 .. Len(chosen) -> Nat],
         \A k \in 1 .. Len(chosen) : shown[k] <= Size(chosen[k]),
         Selected(chosen) <= Selected(texts)
  PROVE  /\ NumbersOf(texts, chosen) \in Nat /\ StructureSize(texts, chosen) \in Nat
         /\ CutSize(texts, chosen, shown)
              <= StructureSize(texts, chosen) + SumOf(shown) + NumbersOf(texts, chosen)
<1> DEFINE n == Len(chosen)
           nothing == [k \in 1 .. n |-> 0]
           lengths == [k \in 1 .. n |-> Digits(Size(chosen[k]))]
           full == Sections(chosen, shown, TRUE)
           bare == Sections(chosen, nothing, TRUE)
<1>1. n \in Nat /\ DOMAIN chosen = 1 .. n /\ \A k \in 1 .. n : chosen[k] \in Texts
  BY TextsAddUp
<1>2. shown \in [1 .. n -> Nat] /\ \A k \in 1 .. n : shown[k] <= Size(chosen[k])
  OBVIOUS
<1>3. nothing \in [1 .. n -> Nat] /\ \A k \in 1 .. n : nothing[k] = 0
  OBVIOUS
<1>4. \A k \in 1 .. n : Size(chosen[k]) \in Nat /\ nothing[k] <= Size(chosen[k])
  <2> HIDE DEF n, nothing
  <2> QED BY <1>1, <1>3, TextEnds
<1>5. StructureSize(texts, chosen) = CutSize(texts, chosen, nothing)
  BY <1>1 DEF StructureSize
<1>6. /\ CutSize(texts, chosen, shown)
            = FrameSize + EvidenceSize(texts, chosen, shown) + SumOf(full)
      /\ SumOf(shown) \in Nat /\ SumOf(shown) <= Selected(chosen)
      /\ EvidenceSize(texts, chosen, shown) \in Nat /\ CutSize(texts, chosen, shown) \in Nat
  <2> HIDE DEF n
  <2> QED BY DigestHasASize DEF CutSize, n
<1>7. /\ CutSize(texts, chosen, nothing)
            = FrameSize + EvidenceSize(texts, chosen, nothing) + SumOf(bare)
      /\ EvidenceSize(texts, chosen, nothing) \in Nat /\ CutSize(texts, chosen, nothing) \in Nat
  <2> HIDE DEF nothing
  <2> QED BY <1>3, <1>4, DigestHasASize DEF CutSize
<1>8. Selected(texts) \in Nat /\ Selected(chosen) \in Nat /\ Len(texts) \in Nat
  BY TextsAddUp
<1> HIDE DEF n, nothing, full, bare
<1>9. lengths \in [1 .. n -> Nat]
  <2>1. \A k \in 1 .. n : Digits(Size(chosen[k])) \in Nat
    BY <1>4, DigitsGrow
  <2> QED BY <2>1
<1>10. full \in [1 .. n -> Nat] /\ bare \in [1 .. n -> Nat] /\ SumOf(full) \in Nat /\ SumOf(bare) \in Nat
  BY <1>2, <1>3, <1>4, SectionsAddUp DEF n, full, bare
<1>11. \A k \in 1 .. n : full[k] <= (bare[k] + shown[k]) + lengths[k]
  <2>1. ASSUME NEW k \in 1 .. n PROVE full[k] <= (bare[k] + shown[k]) + lengths[k]
    <3>1. chosen[k] \in Texts /\ shown[k] \in Nat /\ shown[k] <= Size(chosen[k])
      BY <1>1, <1>2
    <3>2. SectionSize(chosen[k], shown[k], TRUE)
            <= SectionSize(chosen[k], 0, TRUE) + shown[k] + Digits(Size(chosen[k]))
      BY <3>1, SectionsGrow
    <3>3. full[k] = SectionSize(chosen[k], shown[k], TRUE)
      BY <1>1 DEF full, Sections
    <3>4. bare[k] = SectionSize(chosen[k], 0, TRUE)
      BY <1>1, <1>3 DEF bare, Sections
    <3> QED BY <3>2, <3>3, <3>4
  <2> QED BY <2>1
<1> DEFINE most == [k \in 1 .. n |-> bare[k] + shown[k]]
           all  == [k \in 1 .. n |-> most[k] + lengths[k]]
<1>12. most \in [1 .. n -> Nat] /\ SumOf(most) = SumOf(bare) + SumOf(shown)
  <2>1. most \in [1 .. n -> Nat]
    <3>1. shown \in [1 .. n -> Nat] /\ bare \in [1 .. n -> Nat]
      BY <1>2, <1>10
    <3>2. \A f, g \in [1 .. n -> Nat] : [k \in 1 .. n |-> f[k] + g[k]] \in [1 .. n -> Nat]
      OBVIOUS
    <3> QED BY <3>1, <3>2
  <2>2. SumOf([k \in 1 .. n |-> bare[k] + shown[k]]) = SumOf(bare) + SumOf(shown)
    BY <1>1, <1>2, <1>10, SumsAdd
  <2> QED BY <2>1, <2>2
<1>13. \A k \in 1 .. n : most[k] = bare[k] + shown[k]
  OBVIOUS
<1> HIDE DEF most, lengths
<1>14. all \in [1 .. n -> Nat] /\ SumOf(all) = SumOf(most) + SumOf(lengths)
  <2>0. lengths \in [1 .. n -> Nat]
    BY <1>9 DEF lengths
  <2>1. all \in [1 .. n -> Nat]
    BY <2>0, <1>12
  <2>2. SumOf([k \in 1 .. n |-> most[k] + lengths[k]]) = SumOf(most) + SumOf(lengths)
    BY <1>1, <2>0, <1>12, SumsAdd
  <2> QED BY <2>1, <2>2
<1>15. \A k \in 1 .. n : full[k] <= all[k]
  BY <1>11, <1>13
<1> HIDE DEF all
<1>16. SumOf(full) <= SumOf(all) /\ SumOf(lengths) \in Nat
  <2>1. lengths \in Seq(Nat)
    BY <1>1, <1>9, IsSequence
  <2> QED BY <1>1, <1>10, <1>14, <1>15, <2>1, SumsCompare, PartOfSum
<1>17. EvidenceSize(texts, chosen, shown)
         <= EvidenceSize(texts, chosen, nothing) + Digits(Selected(texts))
  <2> DEFINE S == Selected(texts)
             omitted == S - SumOf(shown)
  <2>1. SumOf(nothing) = 0
    <3>1. SumOf(nothing) <= n * 0 + 0
      <4>1. \A k \in 1 .. n : nothing[k] <= 0 + (IF k <= 0 THEN 1 ELSE 0)
        BY <1>3
      <4>2. 0 \in Nat /\ 0 \in 0 .. n
        BY <1>1
      <4>3. \A each \in Nat, rest \in 0 .. n :
              (\A k \in 1 .. n : nothing[k] <= each + (IF k <= rest THEN 1 ELSE 0))
                => SumOf(nothing) <= n * each + rest
        BY <1>1, <1>3, SharesAddUp
      <4> QED BY <4>1, <4>2, <4>3
    <3>2. SumOf(nothing) \in Nat
      <4>1. nothing \in Seq(Nat)
        BY <1>1, <1>3, IsSequence
      <4> QED BY <4>1, PartOfSum
    <3> QED BY <1>1, <3>1, <3>2
  <2>2. /\ EvidenceSize(texts, chosen, shown) = Digits(Len(texts)) + Digits(Len(chosen))
             + Digits(S) + Digits(SumOf(shown)) + Digits(omitted)
        /\ EvidenceSize(texts, chosen, nothing) = Digits(Len(texts)) + Digits(Len(chosen))
             + Digits(S) + Digits(0) + Digits(S)
    <3>1. S - 0 = S
      BY <1>8
    <3> QED BY <2>1, <3>1 DEF EvidenceSize
  <2>3. S \in Nat /\ omitted \in 0 .. S /\ SumOf(shown) \in 0 .. S
    BY <1>6, <1>8
  <2> HIDE DEF S, omitted
  <2>4. /\ Digits(S) \in Nat /\ Digits(omitted) \in Nat /\ Digits(SumOf(shown)) \in Nat
        /\ Digits(omitted) <= Digits(S) /\ Digits(SumOf(shown)) <= Digits(S) /\ Digits(0) \in Nat
        /\ Digits(Len(texts)) \in Nat /\ Digits(Len(chosen)) \in Nat
    <3>1. omitted \in Nat /\ SumOf(shown) \in Nat /\ Len(chosen) \in Nat
      BY <1>1, <2>3 DEF n
    <3> QED BY <1>8, <2>3, <3>1, DigitsGrow
  <2>5. EvidenceSize(texts, chosen, shown) <= EvidenceSize(texts, chosen, nothing) + Digits(S)
    BY <2>2, <2>4
  <2> QED BY <2>5 DEF S
<1>18. NumbersOf(texts, chosen) = SumOf(lengths) + Digits(Selected(texts))
  BY <1>1 DEF NumbersOf, lengths
<1>19. Digits(Selected(texts)) \in Nat
  BY <1>8, DigitsGrow
<1>20. SumOf(full) \in Nat /\ SumOf(bare) \in Nat /\ SumOf(most) = SumOf(bare) + SumOf(shown)
  BY <1>10, <1>12
<1>21. CutSize(texts, chosen, shown) <= CutSize(texts, chosen, nothing) + SumOf(shown) + NumbersOf(texts, chosen)
  <2> DEFINE E == EvidenceSize(texts, chosen, shown)
             F == EvidenceSize(texts, chosen, nothing)
             D == Digits(Selected(texts))
  <2>1. E \in Nat /\ F \in Nat /\ D \in Nat /\ E <= F + D
    BY <1>6, <1>7, <1>17, <1>19
  <2>2. /\ CutSize(texts, chosen, shown) = FrameSize + E + SumOf(full)
        /\ CutSize(texts, chosen, nothing) = FrameSize + F + SumOf(bare)
        /\ NumbersOf(texts, chosen) = SumOf(lengths) + D
    BY <1>6, <1>7, <1>18
  <2> HIDE DEF E, F, D
  <2>3. SumOf(full) <= SumOf(bare) + SumOf(shown) + SumOf(lengths)
    BY <1>6, <1>14, <1>16, <1>20
  <2> DEFINE f == SumOf(full)
             b == SumOf(bare)
             s == SumOf(shown)
             l == SumOf(lengths)
             c == CutSize(texts, chosen, shown)
             d == CutSize(texts, chosen, nothing)
             N == NumbersOf(texts, chosen)
  <2>4. /\ f \in Nat /\ b \in Nat /\ s \in Nat /\ l \in Nat /\ f <= b + s + l
        /\ c = FrameSize + E + f /\ d = FrameSize + F + b /\ N = l + D
    BY <1>6, <1>16, <1>20, <2>2, <2>3
  <2> HIDE DEF f, b, s, l, c, d, N
  <2>5. c <= d + s + N
    BY <2>1, <2>4, SizesAreNaturals
  <2> QED BY <2>5 DEF c, d, s, N
<1> QED BY <1>5, <1>7, <1>16, <1>18, <1>19, <1>21

\* A sample of all files that shows all of them is no smaller than the whole.
LEMMA MarkersCost ==
  ASSUME NEW texts \in Seq(Texts), NEW shown \in [1 .. Len(texts) -> Nat],
         \A k \in 1 .. Len(texts) : shown[k] <= Size(texts[k]),
         ~(SumOf(shown) < Selected(texts))
  PROVE  WholeSize(texts) <= CutSize(texts, texts, shown)
<1> DEFINE n == Len(texts)
           plain  == Sections(texts, shown, FALSE)
           marked == Sections(texts, shown, TRUE)
<1>1. /\ n \in Nat /\ DOMAIN texts = 1 .. n /\ \A k \in 1 .. n : texts[k] \in Texts
      /\ Sizes(texts) \in [1 .. n -> Nat] /\ Selected(texts) = SumOf(Sizes(texts))
      /\ \A k \in 1 .. n : Sizes(texts)[k] = Size(texts[k])
  BY TextsAddUp
<1>2. shown \in [1 .. n -> Nat] /\ \A k \in 1 .. n : shown[k] <= Size(texts[k])
  OBVIOUS
<1>3. Selected(texts) <= Selected(texts) /\ Selected(texts) \in Nat
  BY TextsAddUp
<1>4. shown = Sizes(texts)
  <2> HIDE DEF n
  <2>1. \A k \in 1 .. n : shown[k] <= Sizes(texts)[k]
    BY <1>1, <1>2
  <2>2. \A k \in 1 .. n : ~(shown[k] < Sizes(texts)[k])
    BY <1>1, <1>2, <2>1, SumsCompare
  <2>3. \A k \in 1 .. n : shown[k] = Sizes(texts)[k]
    <3>1. \A k \in 1 .. n : shown[k] \in Nat /\ Sizes(texts)[k] \in Nat
      BY <1>1, <1>2
    <3> QED BY <2>1, <2>2, <3>1
  <2> QED BY <1>1, <1>2, <2>3
<1>5. WholeSize(texts) = RenderedSize(texts, texts, shown, FALSE)
  BY <1>4 DEF WholeSize, Sizes
<1>6. /\ RenderedSize(texts, texts, shown, FALSE)
           = FrameSize + EvidenceSize(texts, texts, shown) + SumOf(plain)
      /\ EvidenceSize(texts, texts, shown) \in Nat
  <2> HIDE DEF plain
  <2> QED BY <1>3, DigestHasASize DEF plain
<1>7. CutSize(texts, texts, shown) = FrameSize + EvidenceSize(texts, texts, shown) + SumOf(marked)
  <2> HIDE DEF marked
  <2> QED BY <1>3, DigestHasASize DEF CutSize, marked
<1>8. /\ plain \in [1 .. n -> Nat] /\ marked \in [1 .. n -> Nat]
      /\ SumOf(plain) \in Nat /\ SumOf(marked) \in Nat
  BY SectionsAddUp
<1> HIDE DEF n
<1>9. \A k \in 1 .. n : plain[k] <= marked[k]
  <2>1. ASSUME NEW k \in 1 .. n PROVE plain[k] <= marked[k]
    <3>1. texts[k] \in Texts /\ shown[k] \in Nat /\ shown[k] <= Size(texts[k])
      BY <1>1, <1>2
    <3>2. /\ SectionSize(texts[k], shown[k], FALSE) \in Nat
          /\ SectionSize(texts[k], shown[k], TRUE) \in Nat
          /\ SectionSize(texts[k], shown[k], FALSE) < SectionSize(texts[k], shown[k], TRUE)
      BY <3>1, SectionsGrow
    <3>3. plain[k] = SectionSize(texts[k], shown[k], FALSE)
      BY <1>1 DEF Sections
    <3>4. marked[k] = SectionSize(texts[k], shown[k], TRUE)
      BY <1>1 DEF Sections
    <3> HIDE DEF plain, marked
    <3>5. \A x, y \in Nat : x < y => x <= y
      OBVIOUS
    <3> QED BY <3>2, <3>3, <3>4, <3>5
  <2> QED BY <2>1
<1> HIDE DEF plain, marked
<1>10. SumOf(plain) <= SumOf(marked)
  BY <1>1, <1>8, <1>9, SumsCompare
<1> DEFINE E == EvidenceSize(texts, texts, shown)
           p == SumOf(plain)
           m == SumOf(marked)
           whole == WholeSize(texts)
           c == CutSize(texts, texts, shown)
<1>11. /\ E \in Nat /\ p \in Nat /\ m \in Nat /\ p <= m
       /\ whole = FrameSize + E + p /\ c = FrameSize + E + m
  BY <1>5, <1>6, <1>7, <1>8, <1>10
<1> HIDE DEF E, p, m, whole, c
<1>12. whole <= c
  BY <1>11, SizesAreNaturals
<1> QED BY <1>12 DEF whole, c

-----------------------------------------------------------------------------
(* The invariant. *)

\* Every call of the gate was made, and every check of it passes.
Trusted ==
  /\ Len(repeats) = Repeats /\ Len(flags) = Samples + 1
  /\ \A k \in 1 .. Samples + 1 : flags[k] = (k > Samples)
  /\ \A j, k \in 1 .. Repeats : repeats[j].idea = repeats[k].idea /\ repeats[j].skill = repeats[k].skill
  /\ ~\E k \in 1 .. Repeats : repeats[k].warns

\* A candidate is there, or may be read, only behind the gate; the questions
\* for flags begin when there is every grade.
GateIsShut ==
  /\ pc \in {"candidate", "digest", "structure", "share", "render", "ask"} \/ files # None => Trusted
  /\ Len(flags) > 0 => Len(repeats) = Repeats

\* The files in hand, and nothing of a digest yet.
Untouched == sample = None /\ included = None /\ budget = None /\ cut = FALSE

\* What is sent is the whole, or shares of some budget in the sample of a
\* repository whose whole is too large.
Whole == cut = FALSE /\ sample = files /\ included = Sizes(files)
Shares ==
  /\ cut = TRUE /\ sample = Sampled(files) /\ WholeSize(files) > DigestCap
  /\ \E b \in Nat : included = Included(sample, b)

Sendable == files \in Repositories /\ (Whole \/ Shares) /\ DigestSize <= DigestCap

\* What each step of _digest finds.
Stages ==
  /\ pc \in {"smoke", "candidate"} => files = None /\ Untouched /\ outcome = None
  /\ pc = "digest" => files \in Repositories /\ Untouched
  /\ pc \in {"structure", "share", "render"} =>
       files \in Repositories /\ sample = Sampled(files) /\ cut = TRUE /\ WholeSize(files) > DigestCap
  /\ pc = "structure" => included = None
  /\ pc \in {"share", "render"} =>
       /\ budget \in Nat /\ StructureSize(files, sample) <= DigestCap
       /\ budget + Growth >= DigestCap - StructureSize(files, sample)
  /\ pc = "render" => included = Included(sample, budget)
  /\ pc = "ask" \/ outcome = "graded" => Sendable
  /\ outcome # None => pc = "over"

GInv == TypeOK /\ GateIsShut /\ Stages

\* A repository is a list of files with texts, and not an empty one.
LEMMA RepositoryHasTexts ==
  ASSUME NEW repository \in Repositories
  PROVE  repository \in Seq(Texts) /\ Len(repository) > 0
<1> DEFINE n == Len(repository)
<1>1. repository \in Seq([path : Nat, cuts : SUBSET Nat])
  BY RepositoriesHaveFiles
<1>2. n > 0 /\ \A k \in DOMAIN repository : IsText(repository[k].cuts)
  BY RepositoriesHaveFiles
<1>3. n \in Nat /\ DOMAIN repository = 1 .. n /\ repository = [k \in 1 .. n |-> repository[k]]
  <2>1. ASSUME NEW S, NEW s \in Seq(S)
        PROVE  Len(s) \in Nat /\ DOMAIN s = 1 .. Len(s) /\ s = [k \in 1 .. Len(s) |-> s[k]]
    OBVIOUS
  <2> QED BY <1>1, <2>1
<1>4. \A k \in 1 .. n : repository[k] \in [path : Nat, cuts : SUBSET Nat]
  <2>1. ASSUME NEW S, NEW s \in Seq(S), NEW k \in 1 .. Len(s)
        PROVE  s[k] \in S
    OBVIOUS
  <2> QED BY <1>1, <2>1
<1> HIDE DEF n
<1>5. \A k \in 1 .. n : repository[k] \in Texts
  BY <1>2, <1>3, <1>4 DEF Texts
<1>6. repository \in [1 .. n -> Texts]
  BY <1>3, <1>5
<1> QED BY <1>2, <1>3, <1>6, IsSequence DEF n

\* The sample of a repository is a sample of texts, as large as SampleCap lets
\* it, and its structure has a size.
LEMMA SampleHasTexts ==
  ASSUME NEW repository \in Repositories
  PROVE  LET texts == Sampled(repository)
         IN /\ texts \in Seq(Texts) /\ Len(texts) > 0 /\ Selected(texts) <= Selected(repository)
            /\ StructureSize(repository, texts) \in Nat
            /\ NumbersOf(repository, texts) \in Nat
<1> DEFINE texts == Sampled(repository)
           nothing == [k \in 1 .. Len(texts) |-> 0]
<1>1. repository \in Seq(Texts) /\ Len(repository) > 0
  BY RepositoryHasTexts
<1>2. /\ texts \in Seq(Texts) /\ Len(texts) \in Nat \ {0}
      /\ Selected(texts) <= Selected(repository)
  BY <1>1, SampleIsOfFiles
<1> HIDE DEF texts
<1>3. nothing \in [1 .. Len(texts) -> Nat] /\ \A k \in 1 .. Len(texts) : nothing[k] = 0
  OBVIOUS
<1>4. \A k \in 1 .. Len(texts) : nothing[k] <= Size(texts[k])
  <2> HIDE DEF nothing
  <2>1. \A k \in 1 .. Len(texts) : texts[k] \in Texts
    BY <1>2
  <2>2. \A k \in 1 .. Len(texts) : Size(texts[k]) \in Nat
    BY <2>1, TextEnds
  <2> QED BY <1>3, <2>2
<1>5. StructureSize(repository, texts) \in Nat /\ NumbersOf(repository, texts) \in Nat
  <2> HIDE DEF nothing
  <2> QED BY <1>1, <1>2, <1>3, <1>4, StructureGrows
<1> QED BY <1>2, <1>5 DEF texts

\* What a cut digest needs: its sizes, and that the loop has not given away more
\* than its numbers may need.
LEMMA CutsAddUp ==
  ASSUME NEW repository \in Repositories, NEW b \in Nat
  PROVE  LET texts == Sampled(repository)
             shown == Included(texts, b)
         IN /\ shown \in [1 .. Len(texts) -> Nat] /\ SumOf(shown) \in Nat /\ SumOf(shown) <= b
            /\ CutSize(repository, texts, shown) \in Nat
            /\ CutSize(repository, texts, shown)
                 <= StructureSize(repository, texts) + SumOf(shown) + NumbersOf(repository, texts)
            /\ b = 0 => CutSize(repository, texts, shown) = StructureSize(repository, texts)
<1> DEFINE texts == Sampled(repository)
           shown == Included(texts, b)
           n == Len(texts)
<1>1. repository \in Seq(Texts)
  BY RepositoryHasTexts
<1>2. texts \in Seq(Texts) /\ n > 0 /\ Selected(texts) <= Selected(repository)
  BY SampleHasTexts
<1> HIDE DEF texts
<1>3. /\ shown \in [1 .. n -> Nat] /\ SumOf(shown) <= b
      /\ \A k \in 1 .. n : shown[k] <= Size(texts[k])
  BY <1>2, IncludedFits
<1>4. n \in Nat /\ DOMAIN texts = 1 .. n
  BY <1>2
<1> HIDE DEF shown
<1>5. /\ SumOf(shown) \in Nat /\ CutSize(repository, texts, shown) \in Nat
  BY <1>1, <1>2, <1>3, DigestHasASize DEF CutSize
<1>6. CutSize(repository, texts, shown)
        <= StructureSize(repository, texts) + SumOf(shown) + NumbersOf(repository, texts)
  BY <1>1, <1>2, <1>3, StructureGrows
<1>7. b = 0 => CutSize(repository, texts, shown) = StructureSize(repository, texts)
  <2> SUFFICES ASSUME b = 0 PROVE CutSize(repository, texts, shown) = StructureSize(repository, texts)
    OBVIOUS
  <2> HIDE DEF n
  <2>1. SumOf(shown) = 0
    BY <1>3, <1>5
  <2>2. \A k \in 1 .. n : shown[k] <= 0
    <3>1. shown \in Seq(Nat) /\ Len(shown) = n
      BY <1>3, <1>4, IsSequence
    <3> QED BY <2>1, <3>1, PartOfSum
  <2>3. \A k \in 1 .. n : shown[k] = 0
    BY <1>3, <2>2
  <2>4. shown = [k \in DOMAIN texts |-> 0]
    BY <1>3, <1>4, <2>3
  <2> QED BY <2>4 DEF StructureSize
<1> QED BY <1>3, <1>5, <1>6, <1>7 DEF texts, shown, n

-----------------------------------------------------------------------------
(* The gate. *)

\* A verdict without failures means that every check passes.
LEMMA NoFailureNoFault ==
  ASSUME TypeOK, Len(flags) = Samples + 1, Len(repeats) = Repeats,
         {check \in Failures : ~Checks[check]} = {}
  PROVE  Trusted
<1>1. \A check \in Failures : Checks[check]
  OBVIOUS
<1>2. /\ \A k \in 1 .. Samples : ~flags[k]
      /\ flags[Samples + 1]
      /\ \A k \in 1 .. Repeats : ~repeats[k].warns
      /\ \A k \in 1 .. Repeats : repeats[k].idea = repeats[1].idea /\ repeats[k].skill = repeats[1].skill
  <2>1. "clean" \in Failures /\ "malicious" \in Failures /\ "description" \in Failures /\ "determinism" \in Failures
    BY DEF Failures
  <2>2. Checks["clean"] /\ Checks["malicious"] /\ Checks["description"] /\ Checks["determinism"]
    BY <1>1, <2>1, Zenon
  <2> QED BY <2>2, Zenon DEF Checks
<1>3. ASSUME NEW k \in 1 .. Samples + 1 PROVE flags[k] = (k > Samples)
  <2>1. flags[k] \in BOOLEAN
    <3>1. ASSUME NEW S, NEW s \in Seq(S), NEW n \in 1 .. Len(s) PROVE s[n] \in S
      OBVIOUS
    <3>2. flags \in Seq(BOOLEAN)
      BY DEF TypeOK
    <3> QED BY <3>1, <3>2
  <2>2. CASE k \in 1 .. Samples
    <3>1. (k > Samples) = FALSE
      BY <2>2, CountsArePositive
    <3>2. ~flags[k]
      BY <1>2, <2>2
    <3> QED BY <2>1, <3>1, <3>2, Zenon
  <2>3. CASE k = Samples + 1
    <3>1. (k > Samples) = TRUE
      BY <2>3, CountsArePositive
    <3>2. flags[k]
      BY <1>2, <2>3, Zenon
    <3> QED BY <2>1, <3>1, <3>2, Zenon
  <2>4. k \in 1 .. Samples \/ k = Samples + 1
    BY CountsArePositive
  <2> QED BY <2>2, <2>3, <2>4
<1>4. \A j, k \in 1 .. Repeats : repeats[j].idea = repeats[k].idea /\ repeats[j].skill = repeats[k].skill
  BY <1>2, Zenon
<1>5. ~\E k \in 1 .. Repeats : repeats[k].warns
  BY <1>2, Zenon
<1>6. \A k \in 1 .. Samples + 1 : flags[k] = (k > Samples)
  BY <1>3
<1> QED BY <1>4, <1>5, <1>6, Zenon DEF Trusted

\* The gate opens with its verdict, and then nothing changes what was answered.
LEMMA GateHolds ==
  ASSUME GInv, [Next]_vars
  PROVE  GateIsShut'
<1> USE DEF GInv
<1>1. ASSUME UNCHANGED gate, UNCHANGED files, GateIsShut,
             pc' \in {"candidate", "digest", "structure", "share", "render", "ask"}
                => pc \in {"candidate", "digest", "structure", "share", "render", "ask"}
      PROVE  GateIsShut'
  <2>1. Trusted' <=> Trusted
    BY <1>1 DEF gate, Trusted
  <2> QED BY <1>1, <2>1 DEF GateIsShut, gate
<1>2. CASE Evaluate
  BY <1>2 DEF Evaluate, GateIsShut, Stages
<1>3. CASE Flag
  BY <1>3 DEF Flag, GateIsShut, Stages
<1>4. CASE CallFails
  BY <1>4 DEF CallFails, GateIsShut, Stages
<1>5. CASE Judge
  <2>1. CASE verdict' = {}
    <3>1. Len(flags) = Samples + 1 /\ {check \in Failures : ~Checks[check]} = {} /\ UNCHANGED <<repeats, flags>>
      BY <1>5, <2>1 DEF Judge
    <3>2. Len(repeats) = Repeats
      BY <1>5, <3>1, CountsArePositive DEF Judge, GateIsShut
    <3>3. Trusted
      BY <3>1, <3>2, NoFailureNoFault
    <3>4. Trusted'
      BY <3>1, <3>3 DEF Trusted
    <3> QED BY <3>1, <3>2, <3>4 DEF GateIsShut
  <2>2. CASE verdict' # {}
    BY <1>5, <2>2 DEF Judge, GateIsShut, Stages
  <2> QED BY <2>1, <2>2
<1>6. CASE Read
  <2>1. Trusted
    BY <1>6 DEF Read, GateIsShut
  <2>2. Trusted'
    BY <1>6, <2>1 DEF Read, Trusted, gate
  <2> QED BY <1>6, <2>2 DEF GateIsShut, Read, gate
<1>7. CASE SendWhole
  BY <1>1, <1>7 DEF SendWhole
<1>8. CASE Sample
  BY <1>1, <1>8 DEF Sample
<1>9. CASE TooLarge
  BY <1>1, <1>9 DEF TooLarge
<1>10. CASE StartCutting
  BY <1>1, <1>10 DEF StartCutting
<1>11. CASE Share
  BY <1>1, <1>11 DEF Share
<1>12. CASE SendCut
  BY <1>1, <1>12 DEF SendCut
<1>13. CASE CutMore
  BY <1>1, <1>13 DEF CutMore
<1>14. CASE Ask
  BY <1>1, <1>14 DEF Ask
<1>15. CASE UNCHANGED vars
  BY <1>1, <1>15 DEF vars
<1> QED
  BY <1>2, <1>3, <1>4, <1>5, <1>6, <1>7, <1>8, <1>9, <1>10, <1>11, <1>12, <1>13, <1>14, <1>15 DEF Next

-----------------------------------------------------------------------------
(* The steps of the digest. *)

\* A repository in hand with its sample is what the lemmas above speak of.
LEMMA GrowthIsNumbers == Growth = NumbersOf(files, sample)
BY DEF Growth, NumbersOf

\* Every step keeps the types.
LEMMA TypesHold ==
  ASSUME GInv, [Next]_vars
  PROVE  TypeOK'
<1> USE DEF GInv
<1>1. CASE Evaluate
  <2>1. PICK grade \in Grades : repeats' = Append(repeats, grade)
    BY <1>1 DEF Evaluate
  <2>2. repeats \in Seq(Grades) /\ Len(repeats) < Repeats
    BY <1>1 DEF Evaluate, TypeOK
  <2>3. repeats' \in Seq(Grades) /\ Len(repeats') = Len(repeats) + 1 /\ Len(repeats) \in Nat
    BY <2>1, <2>2, AppendProperties
  <2>4. Len(repeats') <= Repeats
    BY <2>2, <2>3, CountsArePositive
  <2> QED BY <1>1, <2>3, <2>4 DEF Evaluate, TypeOK, digest
<1>2. CASE Flag
  <2>1. PICK flagged \in BOOLEAN : flags' = Append(flags, flagged)
    BY <1>2 DEF Flag
  <2>2. flags \in Seq(BOOLEAN) /\ Len(flags) <= Samples
    BY <1>2 DEF Flag, TypeOK
  <2>3. flags' \in Seq(BOOLEAN) /\ Len(flags') = Len(flags) + 1 /\ Len(flags) \in Nat
    <3>1. ASSUME NEW S, NEW s \in Seq(S), NEW e \in S
          PROVE  Append(s, e) \in Seq(S) /\ Len(Append(s, e)) = Len(s) + 1 /\ Len(s) \in Nat
      BY AppendProperties
    <3> QED BY <2>1, <2>2, <3>1
  <2>4. Len(flags') <= Samples + 1
    BY <2>2, <2>3, CountsArePositive
  <2> QED BY <1>2, <2>3, <2>4 DEF Flag, TypeOK, digest
<1>3. CASE CallFails
  BY <1>3 DEF CallFails, TypeOK, digest
<1>4. CASE Judge
  <2>1. verdict' \subseteq Failures
    BY <1>4 DEF Judge
  <2>2. UNCHANGED <<repeats, flags, files, digest>>
    BY <1>4 DEF Judge
  <2>3. CASE verdict' = {}
    BY <1>4, <2>1, <2>2, <2>3 DEF Judge, TypeOK, digest
  <2>4. CASE verdict' # {}
    BY <1>4, <2>1, <2>2, <2>4 DEF Judge, TypeOK, digest
  <2> QED BY <2>3, <2>4
<1>5. CASE Read
  BY <1>5 DEF Read, TypeOK, digest, gate
<1>6. CASE SendWhole
  BY <1>6 DEF SendWhole, TypeOK, gate
<1>7. CASE Sample
  BY <1>7 DEF Sample, TypeOK, gate, Stages, Untouched
<1>8. CASE TooLarge
  BY <1>8 DEF TooLarge, TypeOK, digest, gate
<1>9. CASE StartCutting
  <2>1. files \in Repositories /\ sample = Sampled(files)
    BY <1>9 DEF StartCutting, Stages
  <2>2. StructureSize(files, sample) \in Nat
    BY <2>1, SampleHasTexts
  <2>3. budget' \in Nat
    BY <1>9, <2>2, DigestCapIsNatural DEF StartCutting
  <2> QED BY <1>9, <2>3 DEF StartCutting, TypeOK, gate
<1>10. CASE Share
  <2>1. DOMAIN Included(sample, budget) = DOMAIN sample
    BY DEF Included
  <2> QED BY <1>10, <2>1 DEF Share, TypeOK, gate
<1>11. CASE SendCut
  BY <1>11 DEF SendCut, TypeOK, digest, gate
<1>12. CASE CutMore
  <2>1. files \in Repositories /\ sample = Sampled(files) /\ budget \in Nat /\ included = Included(sample, budget)
    BY <1>12 DEF CutMore, Stages
  <2>2. Rendered \in Nat
    BY <2>1, CutsAddUp DEF Rendered
  <2>3. Less \in Nat
    BY <2>1, <2>2, DigestCapIsNatural DEF Less
  <2> QED BY <1>12, <2>3 DEF CutMore, TypeOK, gate
<1>13. CASE Ask
  BY <1>13 DEF Ask, TypeOK, digest, gate
<1>14. CASE UNCHANGED vars
  BY <1>14 DEF vars, TypeOK, digest, gate
<1> QED
  BY <1>1, <1>2, <1>3, <1>4, <1>5, <1>6, <1>7, <1>8, <1>9, <1>10, <1>11, <1>12, <1>13, <1>14 DEF Next

\* Every step leaves the next one what it counts on.
LEMMA StagesHold ==
  ASSUME GInv, [Next]_vars
  PROVE  Stages'
<1> USE DEF GInv
<1>1. ASSUME Evaluate \/ Flag \/ CallFails \/ Judge PROVE Stages'
  <2>1. /\ UNCHANGED <<files, digest>> /\ pc = "smoke"
        /\ \/ pc' \in {"smoke", "candidate"} /\ outcome' = outcome
           \/ pc' = "over" /\ outcome' = "model unavailable"
    BY <1>1 DEF Evaluate, Flag, CallFails, Judge
  <2>2. files = None /\ Untouched /\ outcome = None
    BY <2>1 DEF Stages
  <2> QED BY <2>1, <2>2, NoneIsNoOutcome DEF Stages, Untouched, digest
<1>2. CASE Read
  <2>1. outcome = None /\ Untouched
    BY <1>2 DEF Read, Stages
  <2> QED BY <1>2, <2>1, NoneIsNoOutcome DEF Read, Stages, Untouched, digest
<1>3. CASE SendWhole
  <2>1. files \in Repositories /\ cut = FALSE /\ outcome = None
    BY <1>3 DEF SendWhole, Stages, Untouched
  <2>2. included' = Sizes(files)
    BY <1>3 DEF SendWhole, Sizes
  <2>3. DigestSize' = WholeSize(files)
    BY <1>3, <2>1 DEF SendWhole, DigestSize, WholeSize
  <2>4. Sendable'
    BY <1>3, <2>1, <2>2, <2>3 DEF SendWhole, Sendable, Whole
  <2> QED BY <1>3, <2>1, <2>4, NoneIsNoOutcome DEF SendWhole, Stages
<1>4. CASE Sample
  <2>1. files \in Repositories /\ Untouched /\ outcome = None
    BY <1>4 DEF Sample, Stages
  <2>2. WholeSize(files) > DigestCap
    BY <1>4 DEF Sample
  <2> QED BY <1>4, <2>1, <2>2, NoneIsNoOutcome DEF Sample, Stages, Untouched
<1>5. CASE TooLarge
  BY <1>5, NoneIsNoOutcome DEF TooLarge, Stages, digest
<1>6. CASE StartCutting
  <2>1. /\ files \in Repositories /\ sample = Sampled(files) /\ cut = TRUE
        /\ WholeSize(files) > DigestCap /\ outcome = None
    BY <1>6 DEF StartCutting, Stages
  <2>2. StructureSize(files, sample) \in Nat /\ NumbersOf(files, sample) \in Nat
    BY <2>1, SampleHasTexts
  <2>3. budget' \in Nat /\ StructureSize(files, sample) <= DigestCap
        /\ budget' + NumbersOf(files, sample) >= DigestCap - StructureSize(files, sample)
    BY <1>6, <2>2, DigestCapIsNatural DEF StartCutting
  <2>4. Growth' = NumbersOf(files, sample)
    BY <1>6 DEF StartCutting, Growth, NumbersOf
  <2> QED BY <1>6, <2>1, <2>3, <2>4, NoneIsNoOutcome DEF StartCutting, Stages
<1>7. CASE Share
  <2>1. /\ files \in Repositories /\ sample = Sampled(files) /\ cut = TRUE
        /\ WholeSize(files) > DigestCap /\ outcome = None
        /\ budget \in Nat /\ StructureSize(files, sample) <= DigestCap
        /\ budget + Growth >= DigestCap - StructureSize(files, sample)
    BY <1>7 DEF Share, Stages
  <2>2. Growth' = Growth
    BY <1>7 DEF Share, Growth
  <2> QED BY <1>7, <2>1, <2>2, NoneIsNoOutcome DEF Share, Stages
<1>8. CASE SendCut
  <2>1. /\ files \in Repositories /\ sample = Sampled(files) /\ cut = TRUE
        /\ WholeSize(files) > DigestCap /\ outcome = None
        /\ budget \in Nat /\ included = Included(sample, budget)
    BY <1>8 DEF SendCut, Stages
  <2>2. DigestSize = Rendered
    BY <2>1 DEF DigestSize, Rendered, CutSize
  <2>3. Shares /\ DigestSize <= DigestCap
    BY <1>8, <2>1, <2>2 DEF SendCut, Shares
  <2>4. Sendable'
    BY <1>8, <2>1, <2>3 DEF SendCut, digest, Sendable, Shares, DigestSize
  <2> QED BY <1>8, <2>1, <2>4, NoneIsNoOutcome DEF SendCut, Stages, digest
<1>9. CASE CutMore
  <2>1. /\ files \in Repositories /\ sample = Sampled(files) /\ cut = TRUE
        /\ WholeSize(files) > DigestCap /\ outcome = None
        /\ budget \in Nat /\ included = Included(sample, budget)
        /\ StructureSize(files, sample) <= DigestCap
        /\ budget + Growth >= DigestCap - StructureSize(files, sample)
    BY <1>9 DEF CutMore, Stages
  <2> DEFINE S == StructureSize(files, sample)
             N == NumbersOf(files, sample)
             t == SumOf(included)
             r == Rendered
  <2>2. S \in Nat /\ N \in Nat /\ t \in Nat /\ t <= budget /\ r \in Nat /\ r <= S + t + N
    BY <2>1, SampleHasTexts, CutsAddUp DEF Rendered
  <2>3. budget + N >= DigestCap - S
    BY <2>1, GrowthIsNumbers
  <2>4. r > DigestCap /\ budget' = IF budget > r - DigestCap THEN budget - (r - DigestCap) ELSE 0
    BY <1>9 DEF CutMore, Less
  <2> HIDE DEF S, N, t, r
  <2>5. budget' \in Nat /\ budget' + N >= DigestCap - S
    BY <2>1, <2>2, <2>3, <2>4, DigestCapIsNatural
  <2>6. Growth' = N
    BY <1>9 DEF CutMore, Growth, NumbersOf, N
  <2>7. budget' \in Nat /\ budget' + Growth' >= DigestCap - StructureSize(files, sample)
    BY <2>5, <2>6 DEF S
  <2> QED BY <1>9, <2>1, <2>7, NoneIsNoOutcome DEF CutMore, Stages
<1>10. CASE Ask
  <2>1. Sendable
    BY <1>10 DEF Ask, Stages
  <2>2. Sendable'
    BY <1>10, <2>1 DEF Ask, digest, Sendable, Whole, Shares, DigestSize
  <2> QED BY <1>10, <2>2 DEF Ask, Stages
<1>11. CASE UNCHANGED vars
  <2>1. Growth' = Growth /\ (Sendable' <=> Sendable) /\ (Untouched' <=> Untouched)
    BY <1>11 DEF vars, digest, Growth, Sendable, Whole, Shares, DigestSize, Untouched
  <2> QED BY <1>11, <2>1 DEF vars, digest, Stages
<1> QED
  BY <1>1, <1>2, <1>3, <1>4, <1>5, <1>6, <1>7, <1>8, <1>9, <1>10, <1>11 DEF Next

-----------------------------------------------------------------------------
(* The theorems. *)

\* The invariant holds of every grading.
THEOREM GradingInvariant == Spec => []GInv
<1>1. Init => GInv
  <2> SUFFICES ASSUME Init PROVE GInv
    OBVIOUS
  <2>1. <<>> \in Seq(Grades) /\ <<>> \in Seq(BOOLEAN) /\ Len(<<>>) = 0
    OBVIOUS
  <2>2. TypeOK
    <3>1. repeats \in Seq(Grades) /\ Len(repeats) = 0
      BY <2>1 DEF Init
    <3>2. flags \in Seq(BOOLEAN) /\ Len(flags) = 0
      BY <2>1 DEF Init
    <3>3. Len(repeats) <= Repeats /\ Len(flags) <= Samples + 1
      BY <3>1, <3>2, CountsArePositive
    <3>4. /\ pc = "smoke" /\ verdict = None /\ files = None /\ sample = None
          /\ budget = None /\ cut = FALSE /\ outcome = None
      BY DEF Init
    <3> QED BY <3>1, <3>2, <3>3, <3>4 DEF TypeOK
  <2>3. GateIsShut
    BY <2>1 DEF Init, GateIsShut
  <2>4. Stages
    BY NoneIsNoOutcome DEF Init, Stages, Untouched
  <2> QED BY <2>2, <2>3, <2>4 DEF GInv
<1>2. GInv /\ [Next]_vars => GInv'
  BY TypesHold, GateHolds, StagesHold DEF GInv
<1> QED BY <1>1, <1>2, PTL DEF Spec

\* Every variable has the values the code gives it.
THEOREM TypeCorrect == Spec => []TypeOK
<1>1. GInv => TypeOK
  BY DEF GInv
<1> QED BY <1>1, GradingInvariant, PTL

\* run_smoke guards grader.evaluate: no file of a candidate is read for a model
\* that did not pass every check in every call.
THEOREM OnlyTrustedModelsGrade == Spec => []OnlyATrustedModelGrades
<1>1. GInv => OnlyATrustedModelGrades
  BY DEF GInv, GateIsShut, Trusted, OnlyATrustedModelGrades
<1> QED BY <1>1, GradingInvariant, PTL

\* _digest keeps to its cap, ends every text where a character ends, and says
\* that it left something out only if it did, whatever the files are.
THEOREM DigestsAreTrue == Spec => []DigestIsTrue
<1>1. ASSUME GInv PROVE DigestIsTrue
  <2> SUFFICES ASSUME Sent PROVE DigestIsTrue
    BY DEF DigestIsTrue, DigestFits, SaidIsIncluded, CutMeansCut
  <2>1. Sendable
    BY <1>1 DEF GInv, Stages, Sent
  <2>2. files \in Repositories /\ files \in Seq(Texts) /\ Len(files) > 0 /\ DigestSize <= DigestCap
    BY <2>1, RepositoryHasTexts DEF Sendable
  <2> DEFINE n == Len(files)
  <2>3. CASE Whole
    <3>1. /\ n \in Nat /\ DOMAIN files = 1 .. n /\ Sizes(files) \in [1 .. n -> Nat]
          /\ \A k \in 1 .. n : files[k] \in Texts /\ Sizes(files)[k] = Size(files[k])
      BY <2>2, TextsAddUp
    <3>2. \A k \in 1 .. n : Sizes(files)[k] \in files[k].cuts /\ Sizes(files)[k] <= Size(files[k])
      <4>1. ASSUME NEW k \in 1 .. n PROVE Sizes(files)[k] \in files[k].cuts /\ Sizes(files)[k] <= Size(files[k])
        <5>1. files[k] \in Texts /\ Sizes(files)[k] = Size(files[k])
          BY <3>1
        <5>2. Size(files[k]) \in files[k].cuts /\ Size(files[k]) \in Nat
          BY <5>1, TextEnds
        <5> QED BY <5>1, <5>2
      <4> QED BY <4>1
    <3>3. Selected(files) <= Selected(files)
      BY <2>2, TextsAddUp
    <3>4. RenderedSize(files, files, Sizes(files), FALSE) \in Nat
      BY <2>2, <3>1, <3>2, <3>3, DigestHasASize
    <3>5. DigestSize \in Nat
      BY <2>3, <3>4 DEF Whole, DigestSize
    <3>6. DigestFits
      BY <2>2, <3>5, QuestionFits, DigestCapIsNatural DEF DigestFits
    <3>7. SaidIsIncluded
      BY <2>3, <3>1, <3>2 DEF SaidIsIncluded, Whole
    <3>8. CutMeansCut
      BY <2>3 DEF CutMeansCut, Whole
    <3> QED BY <3>6, <3>7, <3>8 DEF DigestIsTrue
  <2>4. CASE Shares
    <3>1. PICK b \in Nat : included = Included(sample, b)
      BY <2>4 DEF Shares
    <3>2. sample = Sampled(files) /\ cut = TRUE /\ WholeSize(files) > DigestCap
      BY <2>4 DEF Shares
    <3> DEFINE m == Len(sample)
    <3>3. /\ sample \in Seq(Texts) /\ m \in Nat \ {0} /\ m <= n /\ n \in Nat
          /\ m = n => sample = files
      <4>1. n \in Nat
        BY <2>2
      <4> QED BY <2>2, <3>2, <4>1, SampleIsOfFiles
    <3>4. DOMAIN sample = 1 .. m /\ m > 0
      BY <3>3
    <3>5. /\ included \in [1 .. m -> Nat]
          /\ \A k \in 1 .. m : included[k] \in sample[k].cuts /\ included[k] <= Size(sample[k])
      BY <3>1, <3>3, <3>4, IncludedFits
    <3>6. DigestSize = CutSize(files, sample, included)
      BY <3>2 DEF DigestSize, CutSize
    <3>7. DigestSize \in Nat
      BY <2>2, <3>1, <3>2, <3>6, CutsAddUp
    <3>8. DigestFits
      BY <2>2, <3>7, QuestionFits, DigestCapIsNatural DEF DigestFits
    <3>9. SaidIsIncluded
      BY <3>4, <3>5 DEF SaidIsIncluded
    <3>10. CutMeansCut
      <4> SUFFICES ASSUME ~(m < n), ~(SumOf(included) < Selected(files)) PROVE FALSE
        BY DEF CutMeansCut
      <4>1. sample = files
        BY <3>3
      <4>2. included \in [1 .. Len(files) -> Nat] /\ \A k \in 1 .. Len(files) : included[k] <= Size(files[k])
        BY <3>5, <4>1
      <4>3. WholeSize(files) <= CutSize(files, files, included)
        BY <2>2, <4>2, MarkersCost
      <4>4. WholeSize(files) \in Nat
        <5>1. /\ n \in Nat /\ DOMAIN files = 1 .. n /\ Sizes(files) \in [1 .. n -> Nat]
              /\ \A k \in 1 .. n : files[k] \in Texts /\ Sizes(files)[k] = Size(files[k])
              /\ Selected(files) \in Nat
          BY <2>2, TextsAddUp
        <5>2. \A k \in 1 .. n : Sizes(files)[k] <= Size(files[k])
          <6>1. \A k \in 1 .. n : Sizes(files)[k] \in Nat
            BY <5>1
          <6> QED BY <5>1, <6>1
        <5>3. RenderedSize(files, files, Sizes(files), FALSE) \in Nat
          <6>1. Selected(files) <= Selected(files)
            BY <5>1
          <6> QED BY <2>2, <5>1, <5>2, <6>1, DigestHasASize
        <5> QED BY <5>3 DEF WholeSize, Sizes
      <4> QED BY <2>2, <3>2, <3>6, <3>7, <4>1, <4>3, <4>4, DigestCapIsNatural
    <3> QED BY <3>8, <3>9, <3>10 DEF DigestIsTrue
  <2> QED BY <2>1, <2>3, <2>4 DEF Sendable
<1> QED BY <1>1, GradingInvariant, PTL

\* _divide_content_budget and _evenly_spaced_indices are even-handed, whatever
\* the files and their number are.
THEOREM DigestsAreFair == Spec => []DigestIsFair
<1>1. ASSUME GInv PROVE NoFileCrowdsOut
  <2> SUFFICES ASSUME Sent PROVE NoFileCrowdsOut
    BY DEF NoFileCrowdsOut
  <2>1. Sendable
    BY <1>1 DEF GInv, Stages, Sent
  <2>2. files \in Repositories /\ files \in Seq(Texts)
    BY <2>1, RepositoryHasTexts DEF Sendable
  <2>3. CASE Whole
    <3>1. \A k \in DOMAIN files : included[k] = Size(files[k]) /\ Size(files[k]) \in Nat
      <4>1. \A k \in DOMAIN files : files[k] \in Texts
        BY <2>2
      <4> QED BY <2>3, <4>1, TextEnds DEF Whole, Sizes
    <3> QED BY <2>3, <3>1 DEF Whole, NoFileCrowdsOut
  <2>4. CASE Shares
    <3>1. PICK b \in Nat : included = Included(sample, b)
      BY <2>4 DEF Shares
    <3>2. sample \in Seq(Texts) /\ Len(sample) > 0 /\ DOMAIN sample = 1 .. Len(sample)
      <4>1. sample \in Seq(Texts) /\ Len(sample) > 0
        BY <2>2, <2>4, SampleHasTexts DEF Shares
      <4> QED BY <4>1, TextsAddUp
    <3>3. \A j, k \in 1 .. Len(sample) : included[j] < Size(sample[j]) => included[k] <= included[j] + 4
      BY <3>1, <3>2, IncludedFits
    <3> QED BY <3>2, <3>3 DEF NoFileCrowdsOut
  <2> QED BY <2>1, <2>3, <2>4 DEF Sendable
<1>2. ASSUME GInv PROVE SampleIsSpread
  <2> SUFFICES ASSUME pc = "structure" PROVE SampleIsSpread
    BY DEF SampleIsSpread
  <2> DEFINE n == Len(files)
             m == LeastOf(n, SampleCap)
             at == EvenlySpaced(n)
             gaps == {at[k + 1] - at[k] : k \in 1 .. Len(at) - 1}
  <2>1. n \in Nat \ {0}
    <3>1. files \in Seq(Texts) /\ Len(files) > 0
      BY <1>2, RepositoryHasTexts DEF GInv, Stages
    <3> QED BY <3>1
  <2> HIDE DEF n
  <2>2. /\ m \in Nat \ {0} /\ at \in [1 .. m -> 1 .. n] /\ at[1] = 1 /\ at[m] = n
        /\ \E step \in Nat \ {0} : \A k \in 1 .. m - 1 :
             at[k + 1] - at[k] = step \/ at[k + 1] - at[k] = step + 1
    BY <2>1, PlacesAreSpread
  <2> HIDE DEF m, at
  <2>3. Len(at) = m
    <3>1. m \in Nat
      BY <2>2
    <3> QED BY <2>2, <3>1, IsSequence
  <2>4. PICK step \in Nat \ {0} : \A k \in 1 .. m - 1 :
             at[k + 1] - at[k] = step \/ at[k + 1] - at[k] = step + 1
    BY <2>2
  <2>5. \A g \in gaps : g = step \/ g = step + 1
    BY <2>3, <2>4
  <2> HIDE DEF gaps
  <2>6. \A g, h \in gaps : g > 0 /\ g <= h + 1
    BY <2>5
  <2> QED BY <2>2, <2>3, <2>6 DEF SampleIsSpread, at, gaps, n
<1>3. GInv => DigestIsFair
  BY <1>1, <1>2 DEF DigestIsFair
<1> QED BY <1>3, GradingInvariant, PTL

\* The loop of _digest gives away no more of the cap than its numbers may need.
THEOREM OnlyNumbersCost == Spec => []OnlyNumbersCostContent
<1>1. GInv => OnlyNumbersCostContent
  BY DEF GInv, Stages, OnlyNumbersCostContent
<1> QED BY <1>1, GradingInvariant, PTL

\* The loop of _digest comes to an end: a round that does not fit leaves less to
\* give to the next one, and with nothing to give a digest is its structure,
\* which fits.
LessEveryRound == [][CutMore => budget' \in Nat /\ budget' < budget]_vars

\* Every round of the loop of _digest that does not fit leaves less to share out:
\* for any files and any caps the loop cannot go round for ever.
THEOREM RoundsGiveLess == Spec => LessEveryRound
<1>1. ASSUME GInv, CutMore PROVE budget' \in Nat /\ budget' < budget
  <2>1. /\ files \in Repositories /\ sample = Sampled(files)
        /\ budget \in Nat /\ included = Included(sample, budget)
        /\ StructureSize(files, sample) <= DigestCap
    BY <1>1 DEF GInv, CutMore, Stages
  <2> DEFINE r == Rendered
  <2>2. r \in Nat /\ r > DigestCap /\ budget' = IF budget > r - DigestCap THEN budget - (r - DigestCap) ELSE 0
    BY <1>1, <2>1, CutsAddUp DEF CutMore, Less, Rendered
  <2>3. budget # 0
    <3>1. budget = 0 => r = StructureSize(files, sample)
      BY <2>1, CutsAddUp DEF Rendered
    <3>2. StructureSize(files, sample) \in Nat
      BY <2>1, SampleHasTexts
    <3> QED BY <2>1, <2>2, <3>1, <3>2, DigestCapIsNatural
  <2> HIDE DEF r
  <2> QED BY <2>1, <2>2, <2>3, DigestCapIsNatural
<1>2. GInv /\ [Next]_vars => [CutMore => budget' \in Nat /\ budget' < budget]_vars
  BY <1>1
<1> QED BY <1>2, GradingInvariant, PTL DEF Spec, LessEveryRound
=============================================================================
