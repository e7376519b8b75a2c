--------------------------- MODULE Scoring_proofs ---------------------------
(***************************************************************************)
(* Scoring, for any repositories, any pages and any weights.  Three parts: *)
(* what a score says of the observations it is drawn from, the ranking as  *)
(* a sorting by a strict total order, and the inductive invariant of the   *)
(* requests of a candidate, with what follows from it.                     *)
(***************************************************************************)
EXTENDS Scoring, FiniteSetTheorems, SequenceTheorems, WellFoundedInduction, NaturalsInduction, TLAPS

-----------------------------------------------------------------------------
(* Numbers. *)

\* What holds of a number when it holds of all smaller ones holds of all.
LEMMA Descent ==
  ASSUME NEW S, \A n \in Nat : (\A m \in 0 .. n - 1 : m \in S) => n \in S
  PROVE  Nat \subseteq S
  <1> DEFINE Rest == Nat \ S
  <1> SUFFICES ASSUME Rest # {} PROVE FALSE
    OBVIOUS
  <1>1. Rest \in SUBSET Nat
    OBVIOUS
  <1>2. PICK n \in Rest : \A m \in Rest : <<m, n>> \notin OpToRel(<, Nat)
    <2> HIDE DEF Rest
    <2> QED BY <1>1, WFMin, NatLessThanWellFounded
  <1>3. n \in Nat /\ n \notin S
    OBVIOUS
  <1>4. \A m \in Rest : ~(m < n)
    BY <1>1, <1>2, <1>3 DEF OpToRel
  <1>5. \A m \in 0 .. n - 1 : m \in S
    BY <1>3, <1>4
  <1> QED BY <1>3, <1>5

\* The same, one number at a time.
LEMMA Ascent ==
  ASSUME NEW S, 0 \in S, \A n \in Nat : n \in S => n + 1 \in S
  PROVE  Nat \subseteq S
  <1> SUFFICES ASSUME NEW n \in Nat, \A m \in 0 .. n - 1 : m \in S PROVE n \in S
    BY Descent
  <1>1. CASE n = 0
    BY <1>1
  <1>2. CASE n # 0
    BY <1>2, n - 1 \in Nat, n - 1 \in 0 .. n - 1, (n - 1) + 1 = n
  <1> QED BY <1>1, <1>2

-----------------------------------------------------------------------------
(* The score. *)

\* What a feature was seen to be depends on its own observation alone.
LEMMA ValueOfObserved ==
  ASSUME NEW in, NEW f \in in.observed, NEW other, f \in other.observed, f \in Features,
         f = "commit_cadence_30d" => in.commits = other.commits,
         f = "contributor_count" => in.contributors = other.contributors,
         f = "has_license" => in.license = other.license
  PROVE  Value(in, f) = Value(other, f) /\ Value(in, f) \in BOOLEAN
<1>1. f = "commit_cadence_30d" \/ f = "contributor_count" \/ f = "has_license"
  BY DEF Features
<1>2. CASE f = "commit_cadence_30d"
  <2>1. \A i : f \in i.observed => Value(i, f) = (i.commits # None /\ i.commits >= 4)
    BY <1>2, Zenon DEF Value
  <2> QED BY <1>2, <2>1, Zenon
<1>3. CASE f = "contributor_count"
  <2>1. \A i : f \in i.observed => Value(i, f) = (i.contributors # None /\ i.contributors >= 2)
    BY <1>3, Zenon DEF Value
  <2> QED BY <1>3, <2>1, Zenon
<1>4. CASE f = "has_license"
  <2>1. \A i : f \in i.observed => Value(i, f) = (i.license # None)
    BY <1>4, Zenon DEF Value
  <2> QED BY <1>4, <2>1, Zenon
<1> QED BY <1>1, <1>2, <1>3, <1>4

\* What was not observed is what the older form says of it.
LEMMA ValueOfLegacy ==
  ASSUME NEW in, NEW f, f \notin in.observed
  PROVE  Value(in, f) = in.legacy[f]
BY Zenon DEF Value

\* A total of numbers is a number.
LEMMA TotalIsANumber ==
  ASSUME NEW points, NEW features, \A f \in features \cap Features : points[f] \in Nat
  PROVE  Total(points, features) \in Nat
<1> DEFINE of(f) == IF f \in features THEN points[f] ELSE 0
<1>1. of("commit_cadence_30d") \in Nat /\ of("contributor_count") \in Nat /\ of("has_license") \in Nat
  BY DEF Features
<1>2. Total(points, features) = of("commit_cadence_30d") + of("contributor_count") + of("has_license")
  BY DEF Total
<1> HIDE DEF of
<1> QED BY <1>1, <1>2

\* Features that add the same add up to the same.
LEMMA TotalsAgree ==
  ASSUME NEW p, NEW q, NEW S, NEW T,
         \A f \in Features : (IF f \in S THEN p[f] ELSE 0) = (IF f \in T THEN q[f] ELSE 0)
  PROVE  Total(p, S) = Total(q, T)
BY DEF Total, Features

\* A score is a number and some of the features.
LEMMA ScoreIsAScore ==
  ASSUME NEW in
  PROVE  Score(in) \in [value : Nat, coverage : SUBSET Features]
<1> DEFINE seen == {f \in Features : Value(in, f) = TRUE}
           covered == {f \in Features : Value(in, f) # None}
<1>1. Score(in) = [value |-> Total(Weights, seen), coverage |-> covered]
  BY Zenon DEF Score
<1>2. seen \subseteq Features /\ covered \subseteq Features
  BY Zenon
<1> HIDE DEF seen, covered
<1>3. Total(Weights, seen) \in Nat
  BY <1>2, WeightsArePositive, TotalIsANumber
<1> QED BY <1>1, <1>2, <1>3

\* Without metadata nothing is covered.
LEMMA NothingIsCovered == Score(Unobserved).coverage = {}
<1>1. Score(Unobserved).coverage = {f \in Features : Value(Unobserved, f) # None}
  BY Zenon DEF Score
<1>2. ASSUME NEW f \in Features PROVE Value(Unobserved, f) = None
  <2>1. Unobserved.observed = {} /\ Unobserved.legacy[f] = None
    BY DEF Unobserved, NoLegacy
  <2> QED BY <2>1, ValueOfLegacy
<1> QED BY <1>1, <1>2, Zenon

\* Without an older form, what is covered is what was observed.
LEMMA ObservedIsCovered ==
  ASSUME NEW in \in Inputs, in.legacy = NoLegacy
  PROVE  Score(in).coverage = in.observed
<1>1. Score(in).coverage = {f \in Features : Value(in, f) # None}
  BY Zenon DEF Score
<1>2. in.observed \subseteq Features
  BY DEF Inputs
<1>3. ASSUME NEW f \in in.observed PROVE Value(in, f) # None
  <2>1. Value(in, f) \in BOOLEAN
    BY <1>2, ValueOfObserved, Zenon
  <2>2. None \notin BOOLEAN
    BY NoneIsNothing, Zenon
  <2> QED BY <2>1, <2>2, Zenon
<1>4. ASSUME NEW f \in Features, f \notin in.observed PROVE Value(in, f) = None
  <2>1. in.legacy[f] = None
    BY DEF NoLegacy
  <2> QED BY <1>4, <2>1, ValueOfLegacy, Zenon
<1>5. \A f \in Features : f \in in.observed <=> Value(in, f) # None
  BY <1>3, <1>4, Zenon
<1> QED BY <1>1, <1>2, <1>5, Zenon

\* Of a feature the inputs say that it is there, that it is not, or nothing.
LEMMA ValueIsTyped ==
  ASSUME NEW in \in Inputs, NEW f \in Features
  PROVE  Value(in, f) \in BOOLEAN \union {None}
<1>1. CASE f \in in.observed
  BY <1>1, ValueOfObserved, Zenon
<1>2. CASE f \notin in.observed
  <2>1. in.legacy \in [Features -> BOOLEAN \union {None}]
    BY DEF Inputs
  <2>2. in.legacy[f] \in BOOLEAN \union {None}
    BY <2>1, Zenon
  <2> QED BY <1>2, <2>2, ValueOfLegacy, Zenon
<1> QED BY <1>1, <1>2

\* What an artifact keeps of the inputs brings all of them back.
LEMMA InputsAreKept ==
  ASSUME NEW in \in Inputs,
         in.legacy # NoLegacy => in = [Unobserved EXCEPT !.legacy = in.legacy]
  PROVE  Loaded(Stored(in)) = in
<1>1. CASE in.legacy # NoLegacy
  BY <1>1 DEF Loaded, Stored
<1>2. CASE in.legacy = NoLegacy
  <2>1. Stored(in) = [form |-> "observed", commits |-> in.commits, contributors |-> in.contributors,
                      license |-> in.license, observed |-> in.observed]
    BY <1>2 DEF Stored
  <2>2. Loaded(Stored(in)) =
          [commits |-> in.commits, contributors |-> in.contributors, license |-> in.license,
           observed |-> in.observed, legacy |-> NoLegacy]
    BY <2>1 DEF Loaded
  <2> QED BY <1>2, <2>2 DEF Inputs
<1> QED BY <1>1, <1>2

\* The lines of an explanation add up to the score.
LEMMA LinesAddUp ==
  ASSUME NEW in \in Inputs
  PROVE  LET told == {f \in Features : Contribution(in, f) # None}
         IN /\ told = Score(in).coverage
            /\ Total([f \in Features |-> Contribution(in, f)], told) = Score(in).value
<1> DEFINE told == {f \in Features : Contribution(in, f) # None}
           lines == [f \in Features |-> Contribution(in, f)]
           seen == {f \in Features : Value(in, f) = TRUE}
<1>1. Score(in).value = Total(Weights, seen)
  BY Zenon DEF Score
<1>2. Score(in).coverage = {f \in Features : Value(in, f) # None}
  BY Zenon DEF Score
<1>3. None \notin Nat /\ None \notin BOOLEAN
  BY NoneIsNothing
<1>4. ASSUME NEW f \in Features, Value(in, f) = None
      PROVE  f \notin told /\ f \notin seen
  <2>1. Contribution(in, f) = None
    BY <1>4, Zenon DEF Contribution
  <2>2. Value(in, f) # TRUE
    BY <1>3, <1>4, Zenon
  <2> QED BY <2>1, <2>2, Zenon
<1>5. ASSUME NEW f \in Features, Value(in, f) # None
      PROVE  f \in told /\ lines[f] = IF f \in seen THEN Weights[f] ELSE 0
  <2>1. Value(in, f) \in BOOLEAN
    BY <1>5, ValueIsTyped, Zenon
  <2>2. Weights[f] \in Nat
    BY WeightsArePositive
  <2>3. CASE Value(in, f) = TRUE
    <3>1. Contribution(in, f) = Weights[f] /\ f \in seen
      BY <1>5, <2>3, Zenon DEF Contribution
    <3>2. Contribution(in, f) # None
      BY <1>3, <2>2, <3>1, Zenon
    <3> QED BY <3>1, <3>2, Zenon
  <2>4. CASE Value(in, f) = FALSE
    <3>1. Contribution(in, f) = 0 /\ f \notin seen
      BY <1>5, <2>4, Zenon DEF Contribution
    <3>2. 0 # None
      BY <1>3
    <3> QED BY <3>1, <3>2, Zenon
  <2> QED BY <2>1, <2>3, <2>4, Zenon
<1>6. told = {f \in Features : Value(in, f) # None}
  BY <1>4, <1>5, Zenon
<1>7. ASSUME NEW f \in Features
      PROVE  (IF f \in told THEN lines[f] ELSE 0) = (IF f \in seen THEN Weights[f] ELSE 0)
  <2>1. CASE Value(in, f) = None
    BY <1>4, <2>1, Zenon
  <2>2. CASE Value(in, f) # None
    BY <1>5, <2>2, Zenon
  <2> QED BY <2>1, <2>2, Zenon
<1> HIDE DEF told, lines, seen
<1>8. Total(lines, told) = Total(Weights, seen)
  BY <1>7, TotalsAgree
<1> QED BY <1>1, <1>2, <1>6, <1>8, Zenon DEF told, lines

-----------------------------------------------------------------------------
(* The ranking. *)

\* An item, as TypeOK has it.
Item == [repo : Repos, score : [value : Nat, coverage : SUBSET Features], risk : Risks]

\* One is before the next throughout.
Sorted(sequence) == \A j, k \in DOMAIN sequence : j < k => Before(sequence[j], sequence[k])

\* No repository is there twice.
Distinct(sequence) == \A j, k \in DOMAIN sequence : sequence[j].repo = sequence[k].repo => j = k

\* Every recommendation has its place.
LEMMA PlacesAreNumbers ==
  ASSUME NEW x \in Item
  PROVE  /\ Place(StatusOf(x)) \in 0 .. 3
         /\ StatusOf(x) = "review" <=> Place(StatusOf(x)) = 0
         /\ StatusOf(x) = "blocked" <=> Place(StatusOf(x)) = 3
<1>1. StatusOf(x) \in {"review", "insufficient-evidence", "not-priority", "blocked"}
  BY DEF StatusOf, Status
<1> QED BY <1>1 DEF Place

\* The key of the queue orders the items, and tells any two repositories apart.
LEMMA BeforeIsAnOrder ==
  ASSUME NEW x \in Item, NEW y \in Item, NEW z \in Item
  PROVE  /\ ~Before(x, x)
         /\ Before(x, y) => ~Before(y, x)
         /\ Before(x, y) /\ Before(y, z) => Before(x, z)
         /\ x.repo # y.repo => Before(x, y) \/ Before(y, x)
<1> DEFINE p(i) == Place(StatusOf(i))
<1>1. p(x) \in Nat /\ p(y) \in Nat /\ p(z) \in Nat
  BY PlacesAreNumbers
<1>2. /\ x.score.value \in Nat /\ y.score.value \in Nat /\ z.score.value \in Nat
      /\ x.repo \in Nat /\ y.repo \in Nat /\ z.repo \in Nat
  BY ReposAreNumbered DEF Item
<1>3. \A i, j \in {x, y, z} :
        Before(i, j) <=> \/ p(i) < p(j)
                         \/ /\ p(i) = p(j)
                            /\ \/ i.score.value > j.score.value
                               \/ i.score.value = j.score.value /\ i.repo < j.repo
  BY DEF Before
<1> HIDE DEF p
<1> QED BY <1>1, <1>2, <1>3

\* The items of a sequence, after the insertion of one.
LEMMA InsertionIsHere ==
  ASSUME NEW S, NEW s \in Seq(S), NEW e \in S, NEW at \in 1 .. Len(s) + 1
  PROVE  /\ InsertAt(s, at, e) \in Seq(S)
         /\ Len(InsertAt(s, at, e)) = Len(s) + 1
         /\ \A k \in 1 .. Len(s) + 1 :
              InsertAt(s, at, e)[k] = IF k < at THEN s[k] ELSE IF k = at THEN e ELSE s[k - 1]
<1> DEFINE low == SubSeq(s, 1, at - 1)  high == SubSeq(s, at, Len(s))
<1>1. /\ low \in Seq(S) /\ Len(low) = at - 1
      /\ \A k \in 1 .. at - 1 : low[k] = s[k]
  OBVIOUS
<1>2. /\ high \in Seq(S) /\ Len(high) = Len(s) + 1 - at
      /\ \A k \in 1 .. Len(s) + 1 - at : high[k] = s[at + k - 1]
  OBVIOUS
<1> HIDE DEF low, high
<1>3. /\ low \o <<e>> \in Seq(S) /\ Len(low \o <<e>>) = at
      /\ \A k \in 1 .. at : (low \o <<e>>)[k] = IF k < at THEN s[k] ELSE e
  BY <1>1
<1> DEFINE half == low \o <<e>>
<1>4. half \in Seq(S) /\ Len(half) = at
  BY <1>3
<1>5. InsertAt(s, at, e) = half \o high
  BY DEF InsertAt, low, high
<1>6. \A k \in 1 .. at : half[k] = IF k < at THEN s[k] ELSE e
  BY <1>3
<1> HIDE DEF half
<1>7. /\ half \o high \in Seq(S) /\ Len(half \o high) = Len(s) + 1
      /\ \A k \in 1 .. Len(s) + 1 :
           (half \o high)[k] = IF k <= at THEN half[k] ELSE high[k - at]
  BY <1>2, <1>4
<1>8. ASSUME NEW k \in at + 1 .. Len(s) + 1 PROVE high[k - at] = s[k - 1]
  BY <1>2, k - at \in 1 .. Len(s) + 1 - at, at + (k - at) - 1 = k - 1
<1> QED BY <1>5, <1>6, <1>7, <1>8

\* The first of some places is one of them, and no other comes before it.
LEMMA FirstIsThere ==
  ASSUME NEW places, places \subseteq Nat, places # {}
  PROVE  Min(places) \in places /\ \A k \in places : Min(places) <= k
<1>1. PICK n \in places : \A m \in places : <<m, n>> \notin OpToRel(<, Nat)
  BY WFMin, NatLessThanWellFounded
<1>2. \A m \in places : ~(m < n)
  BY <1>1 DEF OpToRel
<1>3. \A m \in places : n <= m
  BY <1>2
<1>4. \E x \in places : \A y \in places : x =< y
  BY <1>3
<1> QED BY <1>4 DEF Min

\* An item put into a sorted sequence leaves it sorted.
LEMMA InsertionSorts ==
  ASSUME NEW s \in Seq(Item), Sorted(s), NEW item \in Item,
         \A k \in DOMAIN s : s[k].repo # item.repo
  PROVE  /\ InsertInto(s, item) \in Seq(Item)
         /\ Len(InsertInto(s, item)) = Len(s) + 1
         /\ ToSet(InsertInto(s, item)) = ToSet(s) \union {item}
         /\ Sorted(InsertInto(s, item))
<1> DEFINE after == {k \in DOMAIN s : Before(item, s[k])}
           at == IF after = {} THEN Len(s) + 1 ELSE Min(after)
           r == InsertAt(s, at, item)
<1>1. Len(s) \in Nat /\ DOMAIN s = 1 .. Len(s) /\ \A k \in 1 .. Len(s) : s[k] \in Item
  OBVIOUS
<1>2. after # {} => Min(after) \in after /\ \A k \in after : Min(after) <= k
  <2>1. after \subseteq Nat
    BY <1>1
  <2> HIDE DEF after
  <2> QED BY <2>1, FirstIsThere
<1>3. /\ at \in 1 .. Len(s) + 1
      /\ at <= Len(s) => Before(item, s[at])
      /\ \A k \in 1 .. at - 1 : k \in 1 .. Len(s) /\ ~Before(item, s[k])
  <2>1. CASE after = {}
    <3>1. at = Len(s) + 1
      BY <2>1
    <3>2. \A k \in 1 .. Len(s) : ~Before(item, s[k])
      BY <1>1, <2>1
    <3> HIDE DEF at, after
    <3> QED BY <1>1, <3>1, <3>2
  <2>2. CASE after # {}
    <3>1. at \in 1 .. Len(s) /\ Before(item, s[at]) /\ \A k \in after : at <= k
      BY <1>1, <1>2, <2>2
    <3>2. ASSUME NEW k \in 1 .. at - 1 PROVE k \in 1 .. Len(s) /\ ~Before(item, s[k])
      <4> HIDE DEF at
      <4>1. k \in 1 .. Len(s) /\ ~(at <= k)
        BY <1>1, <3>1
      <4>2. k \notin after
        BY <3>1, <4>1
      <4> QED BY <1>1, <4>1, <4>2
    <3> HIDE DEF at
    <3> QED BY <3>1, <3>2, <1>1
  <2> QED BY <2>1, <2>2
<1>4. InsertInto(s, item) = r
  BY DEF InsertInto
<1> HIDE DEF after, at
<1>5. /\ r \in Seq(Item) /\ Len(r) = Len(s) + 1
      /\ \A k \in 1 .. Len(s) + 1 :
           r[k] = IF k < at THEN s[k] ELSE IF k = at THEN item ELSE s[k - 1]
  BY <1>3, InsertionIsHere
<1> HIDE DEF r
<1>6. DOMAIN r = 1 .. Len(s) + 1
  BY <1>5
<1>7. \A k \in 1 .. at - 1 : Before(s[k], item)
  BY <1>1, <1>3, BeforeIsAnOrder
<1>8. \A k \in at .. Len(s) : Before(item, s[k])
  <2> SUFFICES ASSUME NEW k \in at .. Len(s), k # at PROVE Before(item, s[k])
    BY <1>3
  <2>1. at \in 1 .. Len(s) /\ k \in 1 .. Len(s) /\ at < k
    BY <1>1, <1>3
  <2>2. Before(item, s[at]) /\ Before(s[at], s[k])
    BY <1>1, <1>3, <2>1 DEF Sorted
  <2> QED BY <1>1, <2>1, <2>2, BeforeIsAnOrder
<1>9. Sorted(r)
  <2> SUFFICES ASSUME NEW j \in 1 .. Len(s) + 1, NEW k \in 1 .. Len(s) + 1, j < k
               PROVE  Before(r[j], r[k])
    BY <1>6 DEF Sorted
  <2>1. CASE k < at
    BY <1>1, <1>3, <1>5, <2>1 DEF Sorted
  <2>2. CASE k = at
    BY <1>1, <1>3, <1>5, <1>7, <2>2
  <2>3. CASE k > at /\ j < at
    <3>1. r[j] = s[j] /\ r[k] = s[k - 1] /\ j < k - 1
      BY <1>1, <1>3, <1>5, <2>3
    <3>2. j \in 1 .. Len(s) /\ k - 1 \in 1 .. Len(s)
      BY <1>1, <1>3, <2>3
    <3> QED BY <1>1, <3>1, <3>2 DEF Sorted
  <2>4. CASE k > at /\ j = at
    <3>1. k - 1 \in at .. Len(s) /\ r[k] = s[k - 1] /\ r[j] = item
      BY <1>1, <1>3, <1>5, <2>4
    <3> QED BY <3>1, <1>8
  <2>5. CASE k > at /\ j > at
    <3>1. /\ j - 1 \in 1 .. Len(s) /\ k - 1 \in 1 .. Len(s) /\ j - 1 < k - 1
          /\ r[k] = s[k - 1] /\ r[j] = s[j - 1]
      BY <1>1, <1>3, <1>5, <2>5
    <3> QED BY <1>1, <3>1 DEF Sorted
  <2> QED BY <1>1, <1>3, <2>1, <2>2, <2>3, <2>4, <2>5
<1>10. ToSet(r) = ToSet(s) \union {item}
  <2>1. ASSUME NEW x \in ToSet(r) PROVE x \in ToSet(s) \union {item}
    <3>1. PICK k \in 1 .. Len(s) + 1 : x = r[k]
      BY <1>6, <2>1 DEF ToSet
    <3>2. k < at \/ k = at \/ k > at
      BY <1>3
    <3>3. k < at => k \in 1 .. Len(s)
      BY <1>3
    <3>4. k > at => k - 1 \in 1 .. Len(s)
      BY <1>1, <1>3
    <3>5. k > at => r[k] = s[k - 1]
      BY <1>3, <1>5
    <3> QED BY <1>1, <1>5, <3>1, <3>2, <3>3, <3>4, <3>5 DEF ToSet
  <2>2. item \in ToSet(r)
    <3>1. at \in DOMAIN r
      BY <1>3, <1>6
    <3>2. r[at] = item
      BY <1>3, <1>5
    <3> QED BY <3>1, <3>2 DEF ToSet
  <2>3. ASSUME NEW k \in 1 .. Len(s) PROVE s[k] \in ToSet(r)
    <3>1. CASE k < at
      BY <1>1, <1>5, <1>6, <3>1 DEF ToSet
    <3>2. CASE k >= at
      <4>1. k + 1 \in 1 .. Len(s) + 1 /\ r[k + 1] = s[k]
        BY <1>1, <1>3, <1>5, <3>2
      <4> QED BY <1>6, <4>1 DEF ToSet
    <3> QED BY <1>3, <3>1, <3>2
  <2> QED BY <1>1, <2>1, <2>2, <2>3 DEF ToSet
<1> QED BY <1>4, <1>5, <1>9, <1>10

\* Two sorted sequences of the same items are the same.
LEMMA OneSortedForm ==
  ASSUME NEW s \in Seq(Item), NEW t \in Seq(Item), Sorted(s), Sorted(t),
         Len(s) = Len(t), ToSet(s) = ToSet(t)
  PROVE  s = t
<1> DEFINE Same == {k \in Nat : k \in 1 .. Len(s) => s[k] = t[k]}
<1>1. /\ Len(s) \in Nat /\ DOMAIN s = 1 .. Len(s) /\ DOMAIN t = 1 .. Len(s)
      /\ \A k \in 1 .. Len(s) : s[k] \in Item /\ t[k] \in Item
  OBVIOUS
<1>2. ASSUME NEW k \in Nat, \A m \in 0 .. k - 1 : m \in Same PROVE k \in Same
  <2> SUFFICES ASSUME k \in 1 .. Len(s), s[k] # t[k] PROVE FALSE
    OBVIOUS
  <2>1. \A m \in 1 .. k - 1 : s[m] = t[m]
    <3> SUFFICES ASSUME NEW m \in 1 .. k - 1 PROVE s[m] = t[m]
      OBVIOUS
    <3>1. m \in 0 .. k - 1 /\ m \in 1 .. Len(s)
      BY <1>1
    <3> QED BY <1>2, <3>1
  <2>2. PICK i \in 1 .. Len(s) : t[i] = s[k]
    <3>1. s[k] \in ToSet(t)
      BY <1>1 DEF ToSet
    <3> QED BY <1>1, <3>1 DEF ToSet
  <2>3. PICK j \in 1 .. Len(s) : s[j] = t[k]
    <3>1. t[k] \in ToSet(s)
      BY <1>1 DEF ToSet
    <3> QED BY <1>1, <3>1 DEF ToSet
  <2>4. ~(i < k)
    <3> SUFFICES ASSUME i < k PROVE FALSE
      OBVIOUS
    <3>1. s[i] = s[k] /\ Before(s[i], s[k])
      BY <1>1, <2>1, <2>2 DEF Sorted
    <3> QED BY <1>1, <3>1, BeforeIsAnOrder
  <2>5. ~(j < k)
    <3> SUFFICES ASSUME j < k PROVE FALSE
      OBVIOUS
    <3>1. t[j] = t[k] /\ Before(t[j], t[k])
      BY <1>1, <2>1, <2>3 DEF Sorted
    <3> QED BY <1>1, <3>1, BeforeIsAnOrder
  <2>6. k < i /\ k < j
    BY <2>2, <2>3, <2>4, <2>5
  <2>7. Before(t[k], s[k]) /\ Before(s[k], t[k])
    BY <1>1, <2>2, <2>3, <2>6 DEF Sorted
  <2> QED BY <1>1, <2>7, BeforeIsAnOrder
<1>3. Nat \subseteq Same
  <2> HIDE DEF Same
  <2> QED BY <1>2, Descent
<1>4. \A k \in 1 .. Len(s) : s[k] = t[k]
  BY <1>1, <1>3
<1> QED BY <1>1, <1>4

\* Rank sorts: it returns the items it was given, each before the next.
LEMMA RankSorts ==
  ASSUME NEW s \in Seq(Item), Distinct(s)
  PROVE  /\ Rank(s) \in Seq(Item) /\ Len(Rank(s)) = Len(s)
         /\ ToSet(Rank(s)) = ToSet(s) /\ Sorted(Rank(s))
<1> DEFINE count == Len(s)
           Up(n, f) == f = [k \in 0 .. n |-> IF k = 0 THEN <<>> ELSE InsertInto(f[k - 1], s[k])]
           Far == {n \in Nat : \E f : Up(n, f)}
<1>1. count \in Nat /\ DOMAIN s = 1 .. count /\ \A k \in 1 .. count : s[k] \in Item
  OBVIOUS
<1> HIDE DEF count
<1>2. Nat \subseteq Far
  <2>1. 0 \in Far
    <3> DEFINE zero == [k \in 0 .. 0 |-> <<>>]
    <3>1. zero = [k \in 0 .. 0 |-> IF k = 0 THEN <<>> ELSE InsertInto(zero[k - 1], s[k])]
      OBVIOUS
    <3>2. Up(0, zero)
      BY <3>1
    <3> HIDE DEF zero, Up
    <3> QED BY <3>2
  <2>2. ASSUME NEW n \in Nat, n \in Far PROVE n + 1 \in Far
    <3>1. PICK f : Up(n, f)
      BY <2>2
    <3> DEFINE g == [k \in 0 .. n + 1 |-> IF k = n + 1 THEN InsertInto(f[n], s[n + 1]) ELSE f[k]]
    <3>2. f[0] = <<>> /\ \A k \in 1 .. n : f[k] = InsertInto(f[k - 1], s[k])
      BY <3>1
    <3>3. g[0] = <<>>
      BY <3>2
    <3>4. ASSUME NEW k \in 1 .. n + 1 PROVE g[k] = InsertInto(g[k - 1], s[k])
      <4>1. CASE k = n + 1
        BY <4>1, k - 1 = n
      <4>2. CASE k # n + 1
        <5>1. k \in 1 .. n /\ k - 1 \in 0 .. n /\ k - 1 # n + 1
          BY <4>2
        <5> QED BY <5>1, <3>2
      <4> QED BY <4>1, <4>2
    <3>5. g = [k \in 0 .. n + 1 |-> g[k]]
      OBVIOUS
    <3> HIDE DEF g
    <3>6. g = [k \in 0 .. n + 1 |-> IF k = 0 THEN <<>> ELSE InsertInto(g[k - 1], s[k])]
      <4>1. ASSUME NEW k \in 0 .. n + 1
            PROVE  g[k] = IF k = 0 THEN <<>> ELSE InsertInto(g[k - 1], s[k])
        <5>1. CASE k = 0
          BY <3>3, <5>1
        <5>2. CASE k # 0
          <6>1. k \in 1 .. n + 1
            BY <5>2
          <6> QED BY <3>4, <5>2, <6>1
        <5> QED BY <5>1, <5>2
      <4> QED BY <3>5, <4>1
    <3>7. Up(n + 1, g)
      BY <3>6
    <3> HIDE DEF Up
    <3> QED BY <3>7
  <2> HIDE DEF Far
  <2> QED BY <2>1, <2>2, Ascent
<1>3. \E f : Up(count, f)
  <2>1. count \in Far
    <3> HIDE DEF Far
    <3> QED BY <1>1, <1>2
  <2> HIDE DEF Up
  <2> QED BY <2>1
<1> DEFINE ranked == CHOOSE f : Up(count, f)
<1>4. Rank(s) = ranked[count]
  BY DEF Rank, count
<1>5. Up(count, ranked)
  <2> HIDE DEF Up
  <2> QED BY <1>3, Zenon
<1> HIDE DEF ranked
<1>6. ranked[0] = <<>> /\ \A k \in 1 .. count : ranked[k] = InsertInto(ranked[k - 1], s[k])
  BY <1>1, <1>5
<1> DEFINE Good(n) == /\ ranked[n] \in Seq(Item) /\ Len(ranked[n]) = n
                      /\ ToSet(ranked[n]) = {s[k] : k \in 1 .. n} /\ Sorted(ranked[n])
           Goods == {n \in Nat : n <= count => Good(n)}
<1>7. Nat \subseteq Goods
  <2>1. 0 \in Goods
    <3>1. <<>> \in Seq(Item) /\ Len(<<>>) = 0 /\ DOMAIN <<>> = {}
      OBVIOUS
    <3>2. ToSet(<<>>) = {} /\ {s[k] : k \in 1 .. 0} = {} /\ Sorted(<<>>)
      BY <3>1 DEF ToSet, Sorted
    <3> QED BY <1>6, <3>1, <3>2
  <2>2. ASSUME NEW n \in Nat, n \in Goods PROVE n + 1 \in Goods
    <3> SUFFICES ASSUME n + 1 <= count PROVE Good(n + 1)
      OBVIOUS
    <3>1. /\ Good(n) /\ n + 1 \in 1 .. count /\ s[n + 1] \in Item
          /\ ranked[n + 1] = InsertInto(ranked[n], s[n + 1])
      <4>1. n <= count /\ n + 1 \in 1 .. count /\ (n + 1) - 1 = n
        BY <1>1
      <4> QED BY <1>1, <1>6, <2>2, <4>1
    <3> DEFINE low == ranked[n]  item == s[n + 1]
    <3>2. low \in Seq(Item) /\ Sorted(low) /\ Len(low) = n /\ ToSet(low) = {s[k] : k \in 1 .. n}
      BY <3>1
    <3>3. \A k \in DOMAIN low : low[k].repo # item.repo
      <4> SUFFICES ASSUME NEW k \in DOMAIN low PROVE low[k].repo # item.repo
        OBVIOUS
      <4>1. low[k] \in {s[j] : j \in 1 .. n}
        BY <3>2 DEF ToSet
      <4>2. PICK j \in 1 .. n : low[k] = s[j]
        BY <4>1
      <4>3. j \in 1 .. count /\ j # n + 1
        BY <1>1
      <4> QED BY <1>1, <3>1, <4>2, <4>3 DEF Distinct
    <3>4. item \in Item
      BY <3>1
    <3> HIDE DEF low, item
    <3>5. /\ InsertInto(low, item) \in Seq(Item) /\ Len(InsertInto(low, item)) = n + 1
          /\ ToSet(InsertInto(low, item)) = ToSet(low) \union {item}
          /\ Sorted(InsertInto(low, item))
      BY <3>2, <3>3, <3>4, InsertionSorts
    <3>6. {s[k] : k \in 1 .. n + 1} = {s[k] : k \in 1 .. n} \union {s[n + 1]}
      OBVIOUS
    <3>7. ranked[n + 1] = InsertInto(low, item)
      BY <3>1 DEF low, item
    <3> QED BY <3>2, <3>5, <3>6, <3>7 DEF item
  <2> HIDE DEF Goods
  <2> QED BY <2>1, <2>2, Ascent
<1>8. Good(count)
  <2> HIDE DEF Good
  <2> QED BY <1>1, <1>7
<1>9. ToSet(s) = {s[k] : k \in 1 .. count}
  BY <1>1 DEF ToSet
<1> QED BY <1>4, <1>8, <1>9 DEF count

\* The order in which the items came does not show in the queue.
LEMMA ArrivalIsForgotten ==
  ASSUME NEW s \in Seq(Item), Distinct(s)
  PROVE  Rank(s) = Rank(Reverse(s))
<1> DEFINE r == Reverse(s)
<1>1. /\ Len(s) \in Nat /\ DOMAIN s = 1 .. Len(s) /\ \A k \in 1 .. Len(s) : s[k] \in Item
  OBVIOUS
<1>2. \A k \in 1 .. Len(s) : (Len(s) - k) + 1 \in 1 .. Len(s)
  BY <1>1
<1>3. r = [k \in 1 .. Len(s) |-> s[(Len(s) - k) + 1]]
  BY DEF Reverse
<1> HIDE DEF r
<1>4. r \in Seq(Item) /\ Len(r) = Len(s) /\ DOMAIN r = 1 .. Len(s)
  BY <1>1, <1>2, <1>3
<1>5. \A k \in 1 .. Len(s) : r[k] = s[(Len(s) - k) + 1]
  BY <1>3
<1>6. ToSet(r) = ToSet(s)
  <2>1. ASSUME NEW x \in ToSet(r) PROVE x \in ToSet(s)
    <3>1. PICK k \in 1 .. Len(s) : x = r[k]
      BY <1>4, <2>1 DEF ToSet
    <3> QED BY <1>1, <1>2, <1>5, <3>1 DEF ToSet
  <2>2. ASSUME NEW x \in ToSet(s) PROVE x \in ToSet(r)
    <3>1. PICK k \in 1 .. Len(s) : x = s[k]
      BY <1>1, <2>2 DEF ToSet
    <3>2. (Len(s) - ((Len(s) - k) + 1)) + 1 = k
      BY <1>1
    <3>3. r[(Len(s) - k) + 1] = x
      BY <1>2, <1>5, <3>1, <3>2
    <3> QED BY <1>2, <1>4, <3>3 DEF ToSet
  <2> QED BY <2>1, <2>2
<1>7. Distinct(r)
  <2> SUFFICES ASSUME NEW j \in 1 .. Len(s), NEW k \in 1 .. Len(s), r[j].repo = r[k].repo
               PROVE  j = k
    BY <1>4 DEF Distinct
  <2>1. (Len(s) - j) + 1 = (Len(s) - k) + 1
    BY <1>1, <1>2, <1>5 DEF Distinct
  <2> QED BY <1>1, <2>1
<1>8. /\ Rank(s) \in Seq(Item) /\ Len(Rank(s)) = Len(s)
      /\ ToSet(Rank(s)) = ToSet(s) /\ Sorted(Rank(s))
  BY RankSorts
<1>9. /\ Rank(r) \in Seq(Item) /\ Len(Rank(r)) = Len(r)
      /\ ToSet(Rank(r)) = ToSet(r) /\ Sorted(Rank(r))
  BY <1>4, <1>7, RankSorts
<1>10. Rank(s) = Rank(r)
  BY <1>4, <1>6, <1>8, <1>9, OneSortedForm
<1> QED BY <1>10 DEF r

-----------------------------------------------------------------------------
(* The inductive invariant. *)

\* The requests that have been answered or refused.
Handled == {q \in {"commits", "contributors", "license"} :
              \/ q = "commits" /\ pc # "commits"
              \/ q = "contributors" /\ pc \notin {"commits", "contributors"}
              \/ q = "license" /\ pc \notin {"commits", "contributors", "license"}}

\* What is observed of a candidate is what was answered, and it is true.
Observations ==
  /\ inputs.legacy = NoLegacy /\ refused \subseteq Handled
  /\ "commit_cadence_30d" \in inputs.observed <=> "commits" \in Handled \ refused
  /\ "contributor_count" \in inputs.observed <=> "contributors" \in Handled \ refused
  /\ "has_license" \in inputs.observed <=> "license" \in Handled \ refused
  /\ "commit_cadence_30d" \in inputs.observed => inputs.commits = truth.commits
  /\ "contributor_count" \in inputs.observed => inputs.contributors = truth.contributors
  /\ "has_license" \in inputs.observed =>
       inputs.license = IF truth.licensed THEN "a license" ELSE None

\* There is a candidate in hand between the screening and the score.
InHand ==
  pc \notin {"next", "done"} => repo \in Repos \ Scored /\ risk \in Risks

\* Without metadata a request raised, or none was made.
NoMetadata ==
  \/ refused = {"metadata"} /\ clock /\ risk # "high"
  \/ refused = {} /\ (~clock \/ risk = "high")

\* GitHub was asked only what was to be asked, and answered truly.
Asked == pc \notin {"next", "done"} /\ ~fixture =>
  /\ truth \in Truths
  /\ inputs # None => clock /\ risk # "high" /\ Observations
  /\ inputs = None => pc = "score" /\ NoMetadata

\* No page is counted that is not there.
Counted ==
  /\ pc = "commits" /\ ~fixture => total <= truth.commits
  /\ pc = "contributors" /\ ~fixture => total <= truth.contributors

\* A fixture has the older form of metadata, and nothing else.
Fixtures ==
  /\ fixture => pc \notin {"contributors", "license"}
  /\ pc \in {"commits", "contributors", "license"} => inputs # None
  /\ inputs # None /\ inputs.legacy # NoLegacy =>
       inputs = [Unobserved EXCEPT !.legacy = inputs.legacy]

\* The candidates whose score misses something that was asked for.
Missed == {items[k].repo : k \in {k \in DOMAIN items :
             items[k].risk # "high" /\ items[k].score.coverage # Features}}

Reasoned == ~fixture /\ clock => reasons = Missed

Ranked == queue = IF pc = "done" THEN Rank(items) ELSE None

SInv == TypeOK /\ InHand /\ Asked /\ Counted /\ Fixtures /\ Reasoned /\ Ranked

\* The requests, one after the other.
LEMMA RequestsInOrder ==
  /\ ToSet(Requests) = {"commits", "contributors", "license"}
  /\ pc = "commits" => NextRequest = "contributors" /\ FeatureOf = "commit_cadence_30d"
  /\ pc = "contributors" => NextRequest = "license" /\ FeatureOf = "contributor_count"
  /\ pc = "license" => NextRequest = "score" /\ FeatureOf = "has_license"
<1>1. ToSet(Requests) = {"commits", "contributors", "license"}
  <2>1. DOMAIN Requests = 1 .. 3 /\ Requests[1] = "commits"
        /\ Requests[2] = "contributors" /\ Requests[3] = "license"
    BY DEF Requests
  <2>2. ToSet(Requests) = {Requests[1], Requests[2], Requests[3]}
    <3> HIDE DEF Requests
    <3> QED BY <2>1 DEF ToSet
  <2> QED BY <2>1, <2>2
<1>2. pc = "commits" => NextRequest = "contributors" /\ FeatureOf = "commit_cadence_30d"
  BY Zenon DEF NextRequest, FeatureOf
<1>3. pc = "contributors" => NextRequest = "license" /\ FeatureOf = "contributor_count"
  BY Zenon DEF NextRequest, FeatureOf
<1>4. pc = "license" => NextRequest = "score" /\ FeatureOf = "has_license"
  BY Zenon DEF NextRequest, FeatureOf
<1> QED BY <1>1, <1>2, <1>3, <1>4

\* Inputs to which what was said of the licence is added.
LEMMA LicenseSeen ==
  ASSUME NEW in \in Inputs, NEW l \in {"a license", None}, NEW out,
         out = [in EXCEPT !.license = l, !.observed = @ \union {"has_license"}]
  PROVE  /\ out \in Inputs /\ out.legacy = in.legacy
         /\ out.commits = in.commits /\ out.contributors = in.contributors /\ out.license = l
         /\ out.observed = in.observed \union {"has_license"}
BY DEF Inputs, Features

\* Nothing observed, or only the older form, is still inputs.
LEMMA FormsAreInputs ==
  /\ Unobserved \in Inputs /\ Unobserved.legacy = NoLegacy /\ Unobserved.observed = {}
  /\ \A legacy \in [Features -> BOOLEAN \union {None}] :
       LET in == [Unobserved EXCEPT !.legacy = legacy]
       IN in \in Inputs /\ in.legacy = legacy
<1>1. NoLegacy \in [Features -> BOOLEAN \union {None}]
  BY DEF NoLegacy
<1>2. Unobserved = [commits |-> None, contributors |-> None, license |-> None,
                    observed |-> {}, legacy |-> NoLegacy]
  BY DEF Unobserved
<1>3. Unobserved \in Inputs /\ Unobserved.legacy = NoLegacy /\ Unobserved.observed = {}
  BY <1>1, <1>2 DEF Inputs
<1>4. ASSUME NEW legacy \in [Features -> BOOLEAN \union {None}]
      PROVE  LET in == [Unobserved EXCEPT !.legacy = legacy]
             IN in \in Inputs /\ in.legacy = legacy
  BY <1>3 DEF Inputs
<1> QED BY <1>3, <1>4

\* A step of the requests leaves the rest of the run as it was.
LEMMA RequestsStayInside ==
  ASSUME SInv, pc \notin {"next", "done"},
         pc' \in {"commits", "contributors", "license", "score"},
         UNCHANGED <<fixture, clock, repo, truth, risk, reasons, items, queue>>,
         inputs' \in Inputs \union {None}, total' \in Nat,
         refused' \subseteq {"commits", "contributors", "license", "metadata"}
  PROVE  TypeOK' /\ InHand' /\ Reasoned' /\ Ranked'
<1>1. TypeOK /\ InHand /\ Reasoned /\ Ranked
  BY DEF SInv
<1>2. TypeOK'
  BY <1>1, RequestsInOrder DEF TypeOK
<1>3. InHand'
  BY <1>1 DEF InHand, Scored
<1>4. Reasoned'
  BY <1>1 DEF Reasoned, Missed
<1>5. Ranked'
  BY <1>1 DEF Ranked
<1> QED BY <1>2, <1>3, <1>4, <1>5

\* A run begins with nothing in hand.
LEMMA ScoringInit == ASSUME Init PROVE SInv
<1>1. TypeOK
  BY EmptySeq DEF Init, TypeOK
<1>2. InHand /\ Asked /\ Counted
  BY DEF Init, InHand, Asked, Counted
<1>3. Fixtures /\ Ranked
  BY DEF Init, Fixtures, Ranked
<1>4. Reasoned
  BY DEF Init, Reasoned, Missed
<1> QED BY <1>1, <1>2, <1>3, <1>4 DEF SInv

\* Screen: nothing has been observed of the next candidate.
LEMMA ScreenStep == ASSUME SInv, Screen PROVE SInv'
<1>1. PICK c \in Repos \ Scored, t \in (IF fixture THEN {None} ELSE Truths), r \in Risks :
        /\ pc = "next"
        /\ repo' = c /\ truth' = t /\ risk' = r
        /\ total' = 0 /\ refused' = {}
        /\ IF r = "high" \/ ~clock THEN pc' = "score" /\ inputs' = None
           ELSE pc' = "commits" /\ inputs' = Unobserved
        /\ UNCHANGED <<fixture, clock, reasons, items, queue>>
  BY DEF Screen
<1>2. TypeOK /\ Reasoned /\ Ranked
  BY DEF SInv
<1>3. \/ pc' = "score" /\ inputs' = None /\ (r = "high" \/ ~clock)
      \/ pc' = "commits" /\ inputs' = Unobserved /\ r # "high" /\ clock
  BY <1>1
<1>4. None \notin Inputs
  BY NoneIsNothing
<1>5. TypeOK'
  <2>1. truth' \in Truths \union {None}
    BY <1>1
  <2> QED BY <1>1, <1>2, <1>3, <2>1, RequestsInOrder, FormsAreInputs DEF TypeOK
<1>6. InHand'
  BY <1>1 DEF InHand, Scored
<1>7. Asked'
  <2> SUFFICES ASSUME ~fixture
               PROVE  /\ truth' \in Truths
                      /\ inputs' # None => clock' /\ risk' # "high" /\ Observations'
                      /\ inputs' = None => pc' = "score" /\ NoMetadata'
    BY <1>1 DEF Asked
  <2>1. truth' \in Truths
    BY <1>1
  <2>2. ASSUME inputs' # None PROVE clock' /\ risk' # "high" /\ Observations'
    <3>1. pc' = "commits" /\ inputs' = Unobserved /\ r # "high" /\ clock
      BY <1>3, <2>2
    <3> QED BY <1>1, <3>1, FormsAreInputs DEF Observations, Handled
  <2>3. ASSUME inputs' = None PROVE pc' = "score" /\ NoMetadata'
    BY <1>1, <1>3, <1>4, <2>3, FormsAreInputs DEF NoMetadata
  <2> QED BY <2>1, <2>2, <2>3
<1>8. Counted'
  <2>1. fixture' = fixture /\ total' = 0 /\ pc' # "contributors"
    BY <1>1, <1>3
  <2>2. ~fixture => truth'.commits \in Nat
    BY <1>1, TruthsAreTruths
  <2> QED BY <2>1, <2>2 DEF Counted
<1>9. Fixtures'
  BY <1>1, <1>3, <1>4, FormsAreInputs DEF Fixtures
<1>10. Reasoned'
  BY <1>1, <1>2 DEF Reasoned, Missed
<1>11. Ranked'
  BY <1>1, <1>2, <1>3 DEF Ranked
<1> QED BY <1>5, <1>6, <1>7, <1>8, <1>9, <1>10, <1>11 DEF SInv

\* A page holds some of what is left to count.
LEMMA APageCounts ==
  ASSUME SInv, Counting
  PROVE  /\ truth \in Truths /\ inputs \in Inputs /\ Observations /\ clock /\ risk # "high"
         /\ truth[pc] \in Nat /\ total <= truth[pc] /\ OnPage \in Nat
         /\ total + OnPage \in Nat /\ total + OnPage <= truth[pc]
         /\ pc = "commits" => truth[pc] = truth.commits
         /\ pc = "contributors" => truth[pc] = truth.contributors
<1>1. pc \in {"commits", "contributors"} /\ ~fixture
  BY DEF Counting
<1>2. /\ truth \in Truths /\ inputs # None
      /\ clock /\ risk # "high" /\ Observations
  BY <1>1 DEF SInv, Asked, Fixtures
<1>3. inputs \in Inputs /\ total \in Nat
  BY <1>2 DEF SInv, TypeOK
<1>4. truth.commits \in Nat /\ truth.contributors \in Nat
  BY <1>2, TruthsAreTruths
<1>5. truth[pc] \in Nat /\ total <= truth[pc]
  BY <1>1, <1>4 DEF SInv, Counted
<1>6. OnPage \in Nat /\ total + OnPage \in Nat /\ total + OnPage <= truth[pc]
  <2> DEFINE left == truth[pc]
  <2>1. left \in Nat /\ total \in Nat /\ total <= left /\ PageSize \in Nat
    BY <1>3, <1>5, PagesHoldSomething
  <2>2. OnPage = IF left - total < PageSize THEN left - total ELSE PageSize
    BY DEF OnPage
  <2> HIDE DEF left
  <2>3. OnPage \in Nat /\ total + OnPage \in Nat /\ total + OnPage <= left
    BY <2>1, <2>2
  <2> QED BY <2>3 DEF left
<1> QED BY <1>1, <1>2, <1>3, <1>4, <1>5, <1>6

\* CountPage: what is counted is there.
LEMMA CountPageStep == ASSUME SInv, CountPage PROVE SInv'
<1>1. /\ Counting /\ total' = total + OnPage
      /\ UNCHANGED <<fixture, clock, pc, repo, truth, risk, inputs, refused, reasons, items, queue>>
  BY DEF CountPage
<1>2. total + OnPage \in Nat /\ total + OnPage <= truth[pc]
  BY <1>1, APageCounts
<1>3. TypeOK' /\ InHand' /\ Reasoned' /\ Ranked'
  <2>1. pc \in {"commits", "contributors"}
    BY <1>1 DEF Counting
  <2>2. inputs \in Inputs \union {None} /\ refused \subseteq {"commits", "contributors", "license", "metadata"}
    BY RequestsInOrder DEF SInv, TypeOK
  <2> QED BY <1>1, <1>2, <2>1, <2>2, RequestsStayInside
<1>4. Asked'
  BY <1>1 DEF SInv, Asked, Observations, Handled, NoMetadata
<1>5. Counted'
  BY <1>1, <1>2, APageCounts DEF Counted
<1>6. Fixtures'
  BY <1>1 DEF SInv, Fixtures
<1> QED BY <1>3, <1>4, <1>5, <1>6 DEF SInv

\* CountLastPage: the count is GitHub's.
LEMMA CountLastPageStep == ASSUME SInv, CountLastPage PROVE SInv'
<1>1. /\ Counting /\ total' = 0 /\ pc' = NextRequest
      /\ inputs' = [inputs EXCEPT ![pc] = truth[pc], !.observed = @ \union {FeatureOf}]
      /\ UNCHANGED <<fixture, clock, repo, truth, risk, refused, reasons, items, queue>>
  BY DEF CountLastPage
<1>2. pc \in {"commits", "contributors"} /\ ~fixture
  BY <1>1 DEF Counting
<1>3. /\ truth \in Truths /\ inputs \in Inputs /\ Observations /\ clock /\ risk # "high"
      /\ truth.commits \in Nat /\ truth.contributors \in Nat
  BY <1>1, APageCounts, TruthsAreTruths
<1>4. refused \subseteq {"commits", "contributors", "license", "metadata"} /\ None \notin Inputs
  BY RequestsInOrder, NoneIsNothing DEF SInv, TypeOK
<1>5. CASE pc = "commits"
  <2>1. pc' = "contributors" /\ FeatureOf = "commit_cadence_30d"
    BY <1>1, <1>5, RequestsInOrder
  <2>2. inputs' = [inputs EXCEPT !.commits = truth.commits, !.observed = @ \union {"commit_cadence_30d"}]
    BY <1>1, <1>5, <2>1
  <2>3. /\ inputs' \in Inputs /\ inputs'.commits = truth.commits
        /\ inputs'.contributors = inputs.contributors /\ inputs'.license = inputs.license
        /\ inputs'.legacy = inputs.legacy /\ inputs'.observed = inputs.observed \union {"commit_cadence_30d"}
    <3>1. inputs \in Inputs /\ truth.commits \in Nat
      BY <1>3
    <3> QED BY <2>2, <3>1 DEF Inputs, Features
  <2>4. TypeOK' /\ InHand' /\ Reasoned' /\ Ranked'
    BY <1>1, <1>4, <1>5, <2>1, <2>3, RequestsStayInside
  <2>5. Observations'
    BY <1>1, <1>3, <1>5, <2>1, <2>3 DEF Observations, Handled
  <2>6. Asked'
    BY <1>1, <1>3, <1>4, <2>3, <2>5 DEF Asked
  <2>7. Counted'
    <3>1. total' = 0 /\ truth' = truth
      BY <1>1
    <3>2. 0 <= truth.contributors
      BY <1>3
    <3> QED BY <2>1, <3>1, <3>2 DEF Counted
  <2>8. Fixtures'
    BY <1>1, <1>2, <1>3, <1>4, <2>3 DEF Fixtures, Observations
  <2> QED BY <2>4, <2>6, <2>7, <2>8 DEF SInv
<1>6. CASE pc = "contributors"
  <2>1. pc' = "license" /\ FeatureOf = "contributor_count"
    BY <1>1, <1>6, RequestsInOrder
  <2>2. inputs' = [inputs EXCEPT !.contributors = truth.contributors, !.observed = @ \union {"contributor_count"}]
    BY <1>1, <1>6, <2>1
  <2>3. /\ inputs' \in Inputs /\ inputs'.commits = inputs.commits
        /\ inputs'.contributors = truth.contributors /\ inputs'.license = inputs.license
        /\ inputs'.legacy = inputs.legacy /\ inputs'.observed = inputs.observed \union {"contributor_count"}
    <3>1. inputs \in Inputs /\ truth.contributors \in Nat
      BY <1>3
    <3> QED BY <2>2, <3>1 DEF Inputs, Features
  <2>4. TypeOK' /\ InHand' /\ Reasoned' /\ Ranked'
    BY <1>1, <1>4, <1>6, <2>1, <2>3, RequestsStayInside
  <2>5. Observations'
    BY <1>1, <1>3, <1>6, <2>1, <2>3 DEF Observations, Handled
  <2>6. Asked'
    BY <1>1, <1>3, <1>4, <2>3, <2>5 DEF Asked
  <2>7. Counted'
    BY <1>1, <1>3, <2>1 DEF Counted
  <2>8. Fixtures'
    BY <1>1, <1>2, <1>3, <1>4, <2>3 DEF Fixtures, Observations
  <2> QED BY <2>4, <2>6, <2>7, <2>8 DEF SInv
<1> QED BY <1>2, <1>5, <1>6

\* AnswerLicense: what is said of the licence is GitHub's.
LEMMA AnswerLicenseStep == ASSUME SInv, AnswerLicense PROVE SInv'
<1> DEFINE l == IF truth.licensed THEN "a license" ELSE None
<1>1. /\ ~fixture /\ pc = "license" /\ pc' = "score"
      /\ inputs' = [inputs EXCEPT !.license = l, !.observed = @ \union {"has_license"}]
      /\ UNCHANGED <<fixture, clock, repo, truth, risk, total, refused, reasons, items, queue>>
  BY RequestsInOrder DEF AnswerLicense
<1>2. /\ truth \in Truths /\ inputs \in Inputs /\ Observations /\ clock /\ risk # "high" /\ total \in Nat
  BY <1>1 DEF SInv, Asked, Fixtures, TypeOK
<1>3. refused \subseteq {"commits", "contributors", "license", "metadata"} /\ None \notin Inputs
  BY RequestsInOrder, NoneIsNothing DEF SInv, TypeOK
<1>4. l \in {"a license", None} /\ l' = l
  BY <1>1
<1> HIDE DEF l
<1>5. /\ inputs' \in Inputs /\ inputs'.commits = inputs.commits
      /\ inputs'.contributors = inputs.contributors /\ inputs'.license = l
      /\ inputs'.legacy = inputs.legacy /\ inputs'.observed = inputs.observed \union {"has_license"}
  BY <1>1, <1>2, <1>4, LicenseSeen
<1>6. TypeOK' /\ InHand' /\ Reasoned' /\ Ranked'
  BY <1>1, <1>2, <1>3, <1>5, RequestsStayInside
<1>7. Observations'
  <2>1. inputs'.legacy = NoLegacy /\ refused' \subseteq Handled'
    BY <1>1, <1>2, <1>5 DEF Observations, Handled
  <2>2. /\ "commit_cadence_30d" \in inputs'.observed <=> "commits" \in Handled' \ refused'
        /\ "contributor_count" \in inputs'.observed <=> "contributors" \in Handled' \ refused'
        /\ "has_license" \in inputs'.observed <=> "license" \in Handled' \ refused'
    BY <1>1, <1>2, <1>5 DEF Observations, Handled
  <2>3. /\ "commit_cadence_30d" \in inputs'.observed => inputs'.commits = truth'.commits
        /\ "contributor_count" \in inputs'.observed => inputs'.contributors = truth'.contributors
    BY <1>1, <1>2, <1>5 DEF Observations
  <2>4. inputs'.license = IF truth'.licensed THEN "a license" ELSE None
    BY <1>4, <1>5 DEF l
  <2> QED BY <2>1, <2>2, <2>3, <2>4 DEF Observations
<1>8. Asked'
  BY <1>1, <1>2, <1>3, <1>5, <1>7 DEF Asked
<1>9. Counted'
  BY <1>1 DEF Counted
<1>10. Fixtures'
  BY <1>1, <1>2, <1>3, <1>5 DEF Fixtures, Observations
<1> QED BY <1>6, <1>8, <1>9, <1>10 DEF SInv

\* CountRefused and LicenseRefused: the feature is not observed.
LEMMA RefusedStep == ASSUME SInv, CountRefused \/ LicenseRefused PROVE SInv'
<1>1. /\ ~fixture /\ pc \in {"commits", "contributors", "license"}
      /\ refused' = refused \union {pc} /\ pc' = NextRequest
      /\ total' = 0 \/ (pc = "license" /\ total' = total)
      /\ UNCHANGED <<fixture, clock, repo, truth, risk, inputs, reasons, items, queue>>
  <2>1. CASE CountRefused
    BY <2>1 DEF CountRefused, Counting
  <2>2. CASE LicenseRefused
    BY <2>2 DEF LicenseRefused
  <2> QED BY <2>1, <2>2
<1>2. /\ truth \in Truths /\ inputs \in Inputs /\ Observations /\ clock /\ risk # "high" /\ total \in Nat
  BY <1>1 DEF SInv, Asked, Fixtures, TypeOK
<1>3. refused \subseteq {"commits", "contributors", "license", "metadata"} /\ None \notin Inputs
  BY RequestsInOrder, NoneIsNothing DEF SInv, TypeOK
<1>4. \/ pc = "commits" /\ pc' = "contributors"
      \/ pc = "contributors" /\ pc' = "license"
      \/ pc = "license" /\ pc' = "score"
  BY <1>1, RequestsInOrder
<1>5. TypeOK' /\ InHand' /\ Reasoned' /\ Ranked'
  BY <1>1, <1>2, <1>3, <1>4, RequestsStayInside
<1>6. Observations'
  <2>1. Handled' = Handled \union {pc} /\ pc \notin Handled
    BY <1>4 DEF Handled
  <2>2. Handled' \ refused' = Handled \ refused
    BY <1>1, <2>1
  <2>3. refused' \subseteq Handled'
    BY <1>1, <1>2, <2>1 DEF Observations
  <2> QED BY <1>1, <1>2, <2>2, <2>3 DEF Observations
<1>7. Asked'
  BY <1>1, <1>2, <1>3, <1>6 DEF Asked
<1>8. Counted'
  <2>1. truth.commits \in Nat /\ truth.contributors \in Nat
    BY <1>2, TruthsAreTruths
  <2> QED BY <1>1, <1>4, <2>1 DEF Counted
<1>9. Fixtures'
  BY <1>1, <1>2, <1>3 DEF Fixtures, Observations
<1> QED BY <1>5, <1>7, <1>8, <1>9 DEF SInv

\* MetadataRaises: nothing is left of what was observed.
LEMMA MetadataRaisesStep == ASSUME SInv, MetadataRaises PROVE SInv'
<1>1. /\ pc \in {"commits", "contributors", "license"} /\ pc' = "score"
      /\ inputs' = None /\ refused' = {"metadata"} /\ total' = 0
      /\ UNCHANGED <<fixture, clock, repo, truth, risk, reasons, items, queue>>
  BY RequestsInOrder DEF MetadataRaises
<1>2. TypeOK' /\ InHand' /\ Reasoned' /\ Ranked'
  BY <1>1, RequestsStayInside
<1>3. Asked'
  <2>1. ~fixture => truth \in Truths /\ clock /\ risk # "high"
    BY <1>1 DEF SInv, Asked, Fixtures
  <2> QED BY <1>1, <2>1 DEF Asked, NoMetadata
<1>4. Counted' /\ Fixtures'
  BY <1>1 DEF Counted, Fixtures
<1> QED BY <1>2, <1>3, <1>4 DEF SInv

\* ReadFixture: the older form, and nothing observed.
LEMMA ReadFixtureStep == ASSUME SInv, ReadFixture PROVE SInv'
<1>1. PICK legacy \in [Features -> BOOLEAN \union {None}] :
        /\ fixture /\ pc = "commits"
        /\ inputs' = [Unobserved EXCEPT !.legacy = legacy]
        /\ pc' = "score"
        /\ UNCHANGED <<fixture, clock, repo, truth, risk, total, refused, reasons, items, queue>>
  BY DEF ReadFixture
<1>2. inputs' \in Inputs /\ inputs'.legacy = legacy
  BY <1>1, FormsAreInputs
<1>3. TypeOK' /\ InHand' /\ Reasoned' /\ Ranked'
  <2>1. total \in Nat /\ refused \subseteq {"commits", "contributors", "license", "metadata"}
    BY RequestsInOrder DEF SInv, TypeOK
  <2> QED BY <1>1, <1>2, <2>1, RequestsStayInside
<1>4. Asked' /\ Counted'
  BY <1>1 DEF Asked, Counted
<1>5. Fixtures'
  BY <1>1, <1>2 DEF Fixtures
<1> QED BY <1>3, <1>4, <1>5 DEF SInv

\* ScoreCandidate: the record of the candidate joins those of the others, and
\* its misses join the reasons.
LEMMA ScoreCandidateStep == ASSUME SInv, ScoreCandidate PROVE SInv'
<1> DEFINE item == [repo |-> repo, score |-> Score(ScoreInputs), risk |-> risk]
<1>1. /\ pc = "score" /\ pc' = "next" /\ items' = Append(items, item)
      /\ reasons' = IF refused # {} THEN reasons \union {repo} ELSE reasons
      /\ repo' = None /\ truth' = None /\ risk' = None /\ inputs' = None /\ refused' = {}
      /\ UNCHANGED <<fixture, clock, total, queue>>
  BY DEF ScoreCandidate, SayRefused
<1>2. TypeOK /\ InHand /\ Asked /\ Reasoned /\ Ranked
  BY DEF SInv
<1>3. repo \in Repos /\ risk \in Risks /\ repo \notin Scored
  BY <1>1, <1>2 DEF InHand
<1>4. item \in Item /\ item.repo = repo /\ item.risk = risk /\ item.score = Score(ScoreInputs)
  BY <1>3, ScoreIsAScore DEF Item
<1>5. items \in Seq(Item) /\ Len(items) \in Nat /\ DOMAIN items = 1 .. Len(items)
  BY <1>2 DEF TypeOK, Item
<1> HIDE DEF item
<1>6. /\ items' \in Seq(Item) /\ DOMAIN items' = 1 .. Len(items) + 1
      /\ items'[Len(items) + 1] = item
      /\ \A k \in 1 .. Len(items) : items'[k] = items[k]
  BY <1>1, <1>4, <1>5
<1>7. \A k \in 1 .. Len(items) : items[k].repo # repo
  BY <1>3, <1>5 DEF Scored
<1>8. TypeOK'
  <2>1. items' \in Seq([repo : Repos, score : [value : Nat, coverage : SUBSET Features], risk : Risks])
    BY <1>6 DEF Item
  <2>2. ASSUME NEW j \in DOMAIN items', NEW k \in DOMAIN items', items'[j].repo = items'[k].repo
        PROVE  j = k
    <3>1. j \in 1 .. Len(items) \/ j = Len(items) + 1
      BY <1>5, <1>6
    <3>2. k \in 1 .. Len(items) \/ k = Len(items) + 1
      BY <1>5, <1>6
    <3>3. CASE j \in 1 .. Len(items) /\ k \in 1 .. Len(items)
      BY <1>2, <1>5, <1>6, <2>2, <3>3 DEF TypeOK
    <3>4. CASE j = Len(items) + 1 /\ k \in 1 .. Len(items)
      BY <1>4, <1>6, <1>7, <2>2, <3>4
    <3>5. CASE j \in 1 .. Len(items) /\ k = Len(items) + 1
      BY <1>4, <1>6, <1>7, <2>2, <3>5
    <3> QED BY <3>1, <3>2, <3>3, <3>4, <3>5
  <2>3. queue' = None
    BY <1>1, <1>2 DEF Ranked
  <2>4. reasons' \subseteq Repos
    BY <1>1, <1>2, <1>3 DEF TypeOK
  <2>5. \A j, k \in DOMAIN items' : items'[j].repo = items'[k].repo => j = k
    BY <2>2
  <2> QED BY <1>1, <1>2, <2>1, <2>3, <2>4, <2>5 DEF TypeOK
<1>9. InHand' /\ Asked' /\ Counted'
  BY <1>1 DEF InHand, Asked, Counted
<1>10. Fixtures' /\ Ranked'
  BY <1>1, <1>2 DEF Fixtures, Ranked
<1>11. Reasoned'
  <2> SUFFICES ASSUME ~fixture, clock PROVE reasons' = Missed'
    BY <1>1 DEF Reasoned
  <2> DEFINE Misses(i) == i.risk # "high" /\ i.score.coverage # Features
  <2>1. reasons = Missed
    BY <1>2 DEF Reasoned
  <2>2. Missed' = Missed \union (IF Misses(item) THEN {repo} ELSE {})
    <3>1. ASSUME NEW c \in Missed' PROVE c \in Missed \union (IF Misses(item) THEN {repo} ELSE {})
      <4>1. PICK k \in DOMAIN items' : c = items'[k].repo /\ Misses(items'[k])
        BY <3>1 DEF Missed
      <4>2. CASE k \in 1 .. Len(items)
        BY <1>5, <1>6, <4>1, <4>2 DEF Missed
      <4>3. CASE k = Len(items) + 1
        BY <1>4, <1>6, <4>1, <4>3
      <4> QED BY <1>5, <1>6, <4>2, <4>3
    <3>2. ASSUME NEW c \in Missed PROVE c \in Missed'
      <4>1. PICK k \in 1 .. Len(items) : c = items[k].repo /\ Misses(items[k])
        BY <1>5, <3>2 DEF Missed
      <4>2. k \in DOMAIN items' /\ items'[k] = items[k]
        BY <1>5, <1>6
      <4> QED BY <4>1, <4>2 DEF Missed
    <3>3. ASSUME Misses(item) PROVE repo \in Missed'
      <4>1. Len(items) + 1 \in DOMAIN items' /\ items'[Len(items) + 1] = item
        BY <1>5, <1>6
      <4> QED BY <1>4, <3>3, <4>1 DEF Missed
    <3> HIDE DEF Misses
    <3> QED BY <3>1, <3>2, <3>3
  <2>3. Misses(item) <=> refused # {}
    <3>1. CASE inputs = None
      <4>1. Score(ScoreInputs).coverage # Features
        <5>1. ScoreInputs = Unobserved
          BY <3>1 DEF ScoreInputs
        <5> QED BY <5>1, NothingIsCovered DEF Features
      <4>2. NoMetadata
        BY <1>1, <1>2, <3>1 DEF Asked
      <4> QED BY <1>4, <4>1, <4>2 DEF NoMetadata
    <3>2. CASE inputs # None
      <4>1. Observations /\ risk # "high"
        BY <1>1, <1>2, <3>2 DEF Asked
      <4>2. inputs \in Inputs /\ ScoreInputs = inputs
        BY <1>2, <3>2 DEF TypeOK, ScoreInputs
      <4>3. Score(ScoreInputs).coverage = inputs.observed
        BY <4>1, <4>2, ObservedIsCovered DEF Observations
      <4>4. Handled = {"commits", "contributors", "license"}
        BY <1>1 DEF Handled
      <4>5. inputs.observed = Features <=> refused = {}
        <5>1. inputs.observed \subseteq Features
          BY <4>2 DEF Inputs
        <5> QED BY <4>1, <4>4, <5>1 DEF Observations, Features
      <4> QED BY <1>4, <4>1, <4>3, <4>5
    <3> QED BY <3>1, <3>2
  <2> HIDE DEF Misses
  <2> QED BY <1>1, <2>1, <2>2, <2>3
<1> QED BY <1>8, <1>9, <1>10, <1>11 DEF SInv

\* What is in items is what the lemmas about ranking speak of.
LEMMA ItemsAreRankable ==
  ASSUME TypeOK
  PROVE  items \in Seq(Item) /\ Distinct(items)
BY DEF TypeOK, Item, Distinct

\* RankItems: the queue has every item, once.
LEMMA RankItemsStep == ASSUME SInv, RankItems PROVE SInv'
<1>1. /\ pc = "next" /\ pc' = "done" /\ queue' = Rank(items)
      /\ UNCHANGED <<fixture, clock, repo, truth, risk, total, inputs, refused, reasons, items>>
  BY DEF RankItems, candidate
<1>2. TypeOK /\ Reasoned /\ Fixtures
  BY DEF SInv
<1>3. ToSet(queue') = ToSet(items) /\ Len(queue') = Len(items)
  BY <1>1, <1>2, ItemsAreRankable, RankSorts
<1>4. TypeOK'
  <2>1. queue' # None => ToSet(queue') = ToSet(items') /\ Len(queue') = Len(items')
    BY <1>1, <1>3
  <2>2. \A j, k \in DOMAIN items' : items'[j].repo = items'[k].repo => j = k
    BY <1>1, <1>2 DEF TypeOK
  <2> QED BY <1>1, <1>2, <2>1, <2>2 DEF TypeOK
<1>5. InHand' /\ Asked' /\ Counted'
  BY <1>1 DEF InHand, Asked, Counted
<1>6. Fixtures' /\ Reasoned' /\ Ranked'
  BY <1>1, <1>2 DEF Fixtures, Reasoned, Missed, Ranked
<1> QED BY <1>4, <1>5, <1>6 DEF SInv

\* A step in which nothing changes.
LEMMA StutterStep == ASSUME SInv, UNCHANGED vars PROVE SInv'
<1>1. UNCHANGED <<fixture, clock, pc, repo, truth, risk, total, inputs, refused, reasons, items, queue>>
  BY DEF vars, candidate
<1>2. TypeOK' /\ Ranked'
  BY <1>1 DEF SInv, TypeOK, Ranked
<1>3. InHand' /\ Counted' /\ Fixtures'
  BY <1>1 DEF SInv, InHand, Scored, Counted, Fixtures
<1>4. Asked'
  BY <1>1 DEF SInv, Asked, Observations, Handled, NoMetadata
<1>5. Reasoned'
  BY <1>1 DEF SInv, Reasoned, Missed
<1> QED BY <1>2, <1>3, <1>4, <1>5 DEF SInv

-----------------------------------------------------------------------------
(* What follows from it. *)

\* The invariant holds throughout a run, whatever is refused or raises, and in
\* whatever order the candidates come.
THEOREM ScoringInvariant == Spec => []SInv
<1>1. Init => SInv
  BY ScoringInit
<1>2. SInv /\ [Next]_vars => SInv'
  <2> SUFFICES ASSUME SInv, [Next]_vars PROVE SInv'
    OBVIOUS
  <2>1. CASE Screen
    BY <2>1, ScreenStep
  <2>2. CASE CountPage
    BY <2>2, CountPageStep
  <2>3. CASE CountLastPage
    BY <2>3, CountLastPageStep
  <2>4. CASE CountRefused \/ LicenseRefused
    BY <2>4, RefusedStep
  <2>5. CASE AnswerLicense
    BY <2>5, AnswerLicenseStep
  <2>6. CASE MetadataRaises
    BY <2>6, MetadataRaisesStep
  <2>7. CASE ReadFixture
    BY <2>7, ReadFixtureStep
  <2>8. CASE ScoreCandidate
    BY <2>8, ScoreCandidateStep
  <2>9. CASE RankItems
    BY <2>9, RankItemsStep
  <2>10. CASE UNCHANGED vars
    BY <2>10, StutterStep
  <2> QED BY <2>1, <2>2, <2>3, <2>4, <2>5, <2>6, <2>7, <2>8, <2>9, <2>10 DEF Next
<1> QED BY <1>1, <1>2, PTL DEF Spec

\* Every variable has the values the code gives it: no candidate is scored
\* twice, and the queue of rank_review_items has every item, once.
THEOREM TypeCorrect == Spec => []TypeOK
<1>1. SInv => TypeOK
  BY DEF SInv
<1> QED BY <1>1, ScoringInvariant, PTL

\* The score of a candidate covers only what GitHub said of it.
LEMMA CoverageIsTrue == SInv => CoveredIsTrue
<1> SUFFICES ASSUME SInv, pc = "score", ~fixture,
                    NEW f \in Score(ScoreInputs).coverage
             PROVE  Value(ScoreInputs, f) = Value(Full, f)
  BY Zenon DEF CoveredIsTrue, Judged
<1>1. TypeOK /\ Asked
  BY DEF SInv
<1>2. inputs # None
  <2>1. ScoreInputs # Unobserved
    BY NothingIsCovered
  <2> QED BY <2>1 DEF ScoreInputs
<1>3. inputs \in Inputs /\ ScoreInputs = inputs /\ Observations
  BY <1>1, <1>2 DEF TypeOK, ScoreInputs, Asked
<1>4. f \in inputs.observed /\ f \in Features
  <2>1. Score(inputs).coverage = inputs.observed
    BY <1>3, ObservedIsCovered DEF Observations
  <2> QED BY <1>3, <2>1 DEF Inputs
<1>5. /\ Full.observed = Features /\ Full.commits = truth.commits
      /\ Full.contributors = truth.contributors
      /\ Full.license = IF truth.licensed THEN "a license" ELSE None
  BY DEF Full
<1>6. /\ f = "commit_cadence_30d" => inputs.commits = Full.commits
      /\ f = "contributor_count" => inputs.contributors = Full.contributors
      /\ f = "has_license" => inputs.license = Full.license
  BY <1>3, <1>4, <1>5 DEF Observations
<1>7. f \in Full.observed
  BY <1>4, <1>5, Zenon
<1>8. Value(inputs, f) = Value(Full, f)
  BY <1>4, <1>6, <1>7, ValueOfObserved, Zenon
<1> QED BY <1>3, <1>8, Zenon

\* A score that covers every feature is the score of all that GitHub knows.
LEMMA RecommendationsAreFinal == SInv => StatusIsFinal
<1> SUFFICES ASSUME SInv, pc = "score", ~fixture,
                    Status(Score(ScoreInputs), risk) \in {"review", "not-priority"}
             PROVE  Status(Score(ScoreInputs), risk) = Status(Score(Full), risk)
  BY Zenon DEF StatusIsFinal, Judged
<1>1. Score(ScoreInputs).coverage = Features
  BY DEF Status
<1>2. \A f \in Features : Value(ScoreInputs, f) = Value(Full, f)
  BY <1>1, CoverageIsTrue, Zenon DEF CoveredIsTrue, Judged
<1>3. {f \in Features : Value(ScoreInputs, f) = TRUE} = {f \in Features : Value(Full, f) = TRUE}
  BY <1>2, Zenon
<1>4. {f \in Features : Value(ScoreInputs, f) # None} = {f \in Features : Value(Full, f) # None}
  BY <1>2, Zenon
<1>5. Score(ScoreInputs) = Score(Full)
  BY <1>3, <1>4, Zenon DEF Score
<1> QED BY <1>5, Zenon

\* A refused request misleads nobody: not the score, not the recommendation,
\* not the exit code of the run.
THEOREM NobodyIsMisled == Spec => []RefusalsDoNotMislead
<1>1. SInv => IncompleteIsSaid
  BY DEF SInv, Reasoned, Missed, IncompleteIsSaid
<1>2. SInv => RefusalsDoNotMislead
  BY <1>1, CoverageIsTrue, RecommendationsAreFinal DEF RefusalsDoNotMislead
<1> QED BY <1>2, ScoringInvariant, PTL

\* The explanation drawn from an artifact accounts for the recorded score.
THEOREM ExplanationsAddUp == Spec => []ExplanationAddsUp
<1>1. SInv => ExplanationAddsUp
  <2> SUFFICES ASSUME SInv, inputs # None
               PROVE  LET loaded == Loaded(Stored(inputs))
                          told   == {f \in Features : Contribution(loaded, f) # None}
                      IN /\ told = Score(inputs).coverage
                         /\ Total([f \in Features |-> Contribution(loaded, f)], told) = Score(inputs).value
    BY Zenon DEF ExplanationAddsUp
  <2>1. inputs \in Inputs
    BY DEF SInv, TypeOK
  <2>2. inputs.legacy # NoLegacy => inputs = [Unobserved EXCEPT !.legacy = inputs.legacy]
    BY DEF SInv, Fixtures
  <2>3. Loaded(Stored(inputs)) = inputs
    BY <2>1, <2>2, InputsAreKept
  <2>4. LET told == {f \in Features : Contribution(inputs, f) # None}
        IN /\ told = Score(inputs).coverage
           /\ Total([f \in Features |-> Contribution(inputs, f)], told) = Score(inputs).value
    BY <2>1, LinesAddUp, Zenon
  <2> QED BY <2>3, <2>4, Zenon
<1> QED BY <1>1, ScoringInvariant, PTL

\* The queue of rank_review_items is a matter of the candidates alone: the order
\* in which they were found does not show in it.
THEOREM TheQueueForgets == Spec => []QueueForgetsArrival
<1>1. SInv => QueueForgetsArrival
  <2> SUFFICES ASSUME SInv, pc = "done" PROVE queue = Rank(Reverse(items))
    BY DEF QueueForgetsArrival
  <2> QED BY ItemsAreRankable, ArrivalIsForgotten DEF SInv, Ranked
<1> QED BY <1>1, ScoringInvariant, PTL
=============================================================================
