-------------------------- MODULE Category_proofs --------------------------
(***************************************************************************)
(* Theorems about SourceSelection and Category, for any repositories and   *)
(* any caps: what fetch_files does not read is left out for a cap or a     *)
(* refusal and mentioned once, "none" is said only of what was read, and   *)
(* a category is said or denied for a reason in the repository.            *)
(***************************************************************************)
EXTENDS Category, FiniteSetTheorems, SequenceTheorems, WellFoundedInduction, NaturalsInduction, TLAPS

-----------------------------------------------------------------------------
(* The inductive invariant of fetch_files. *)

Choosing == pc \in {"tree", "priority", "regular"}

\* What no loop has looked at yet.
Remaining == ahead \union (IF pc = "priority" THEN Candidates("source") ELSE {})

\* The loop over one list looks at that list, and ends with all of it.
LoopsLookAhead ==
  /\ pc \in {"tree", "read", "done"} => ahead = {}
  /\ pc = "priority" => ahead \subseteq Candidates("priority")
  /\ pc = "regular"  => ahead \subseteq Candidates("source")

\* Once the listing is sorted out, a file is in exactly one place.
FilesAreInOnePlace ==
  /\ pc \in {"priority", "regular", "read", "done"} =>
       Blobs = ToSet(selected) \union skipped \union Remaining
  /\ ToSet(selected) \cap skipped = {}
  /\ (ToSet(selected) \union skipped) \cap Remaining = {}
  /\ pc = "tree" => selected = <<>> /\ skipped = {}

\* The running totals are the totals.
TotalsAreKept ==
  /\ bytes = Bytes(tree, selected, Kinds)
  /\ pc \in {"tree", "priority"} => bytes = Bytes(tree, selected, {"priority"})
  /\ regular = Cardinality(Sources)

\* What a cap leaves out would still break it.
SkipsAreDue == \A i \in skipped \cap Eligible :
  \/ tree[i].size > FileCap
  \/ /\ Bytes(tree, selected, Kinds) + tree[i].size > TotalCap
     /\ tree[i].kind = "priority" => Bytes(tree, selected, {"priority"}) + tree[i].size > TotalCap
  \/ tree[i].kind = "source" /\ regular = CountCap

\* The requests go through what was chosen in order, each file to one place.
ReadInOrder ==
  LET n == Len(files) + Cardinality(errors)
  IN /\ n <= Len(selected)
     /\ ToSet(files) \union errors = {selected[k] : k \in 1 .. n}
     /\ ToSet(files) \cap errors = {} /\ IsInjective(files)
     /\ Choosing => files = <<>> /\ errors = {}
     /\ pc = "done" => n = Len(selected)

SInv == /\ TypeOK /\ LoopsLookAhead /\ FilesAreInOnePlace
        /\ TotalsAreKept /\ SkipsAreDue /\ ReadInOrder

-----------------------------------------------------------------------------
(* Sums. *)

\* What holds of 0, and of the next number with each, holds of every number.
LEMMA Ascent ==
  ASSUME NEW S, 0 \in S, \A n \in Nat : n \in S => n + 1 \in S
  PROVE  Nat \subseteq S
<1> DEFINE Rest == Nat \ S
<1> SUFFICES ASSUME Rest # {} PROVE FALSE
  OBVIOUS
<1>1. Rest \in SUBSET Nat
  OBVIOUS
<1>2. PICK n \in Rest : \A m \in Rest : <<m, n>> \notin OpToRel(<, Nat)
  <2> HIDE DEF Rest
  <2> QED BY <1>1, WFMin, NatLessThanWellFounded
<1>3. n \in Nat /\ n \notin S
  OBVIOUS
<1>4. \A m \in Rest : ~(m < n)
  BY <1>1, <1>2, <1>3 DEF OpToRel
<1>5. n # 0 /\ n - 1 \in Nat /\ n - 1 < n
  BY <1>3
<1>6. n - 1 \in S
  BY <1>4, <1>5
<1>7. (n - 1) + 1 = n
  BY <1>3
<1> QED BY <1>3, <1>5, <1>6, <1>7

\* The totals of the weights of s, one file after the other.
Totals(t, s, kinds) ==
  {upTo \in [0 .. Len(s) -> Nat] :
     upTo[0] = 0 /\ \A k \in 1 .. Len(s) : upTo[k] = upTo[k - 1] + Weight(t, s[k], kinds)}

\* The recursion of Bytes has a solution, and Bytes is the last of its values.
LEMMA BytesAreATotal ==
  ASSUME NEW s, Len(s) \in Nat, NEW t, NEW kinds, \A k \in 1 .. Len(s) : Weight(t, s[k], kinds) \in Nat
  PROVE  \E upTo \in Totals(t, s, kinds) : Bytes(t, s, kinds) = upTo[Len(s)]
<1> DEFINE count == Len(s)
           w(k) == Weight(t, s[k], kinds)
           Solves(f) == f = [k \in 0 .. count |-> IF k = 0 THEN 0 ELSE f[k - 1] + w(k)]
           Up(n, f) == f[0] = 0 /\ \A k \in 1 .. n : f[k] = f[k - 1] + w(k)
           Far == {n \in Nat : n <= count => \E f \in [0 .. n -> Nat] : Up(n, f)}
<1>1. count \in Nat /\ \A k \in 1 .. count : w(k) \in Nat
  OBVIOUS
<1> HIDE DEF count, w
<1>2. Nat \subseteq Far
  <2>1. 0 \in Far
    <3> DEFINE zero == [k \in 0 .. 0 |-> 0]
    <3>1. zero \in [0 .. 0 -> Nat]
      OBVIOUS
    <3>2. Up(0, zero)
      <4>1. zero[0] = 0
        OBVIOUS
      <4>2. ASSUME NEW k \in 1 .. 0 PROVE FALSE
        OBVIOUS
      <4> HIDE DEF zero
      <4> QED BY <4>1, <4>2
    <3> HIDE DEF zero, Up
    <3> QED BY <3>1, <3>2
  <2>2. ASSUME NEW n \in Nat, n \in Far PROVE n + 1 \in Far
    <3> SUFFICES ASSUME n + 1 <= count
                 PROVE  \E g \in [0 .. n + 1 -> Nat] : Up(n + 1, g)
      <4> HIDE DEF Up
      <4> QED OBVIOUS
    <3>1. PICK f \in [0 .. n -> Nat] : Up(n, f)
      <4>1. n <= count
        BY <1>1
      <4> HIDE DEF Up
      <4> QED BY <2>2, <4>1
    <3> DEFINE g == [k \in 0 .. n + 1 |-> IF k = n + 1 THEN f[n] + w(n + 1) ELSE f[k]]
    <3>2. g \in [0 .. n + 1 -> Nat]
      BY <1>1, <3>1
    <3>3. g[0] = 0
      BY <3>1
    <3>4. ASSUME NEW k \in 1 .. n + 1 PROVE g[k] = g[k - 1] + w(k)
      <4>1. CASE k = n + 1
        BY <4>1, k - 1 = n
      <4>2. CASE k # n + 1
        <5>1. k \in 1 .. n /\ k - 1 \in 0 .. n
          BY <4>2
        <5> QED BY <5>1, <3>1
      <4> QED BY <4>1, <4>2
    <3> HIDE DEF g
    <3> QED BY <3>2, <3>3, <3>4
  <2> HIDE DEF Far
  <2> QED BY <2>1, <2>2, Ascent
<1>3. \E f : Solves(f)
  <2> HIDE DEF Far
  <2>0. count \in Far
    BY <1>1, <1>2
  <2> USE DEF Far
  <2>1. PICK f \in [0 .. count -> Nat] : Up(count, f)
    <3> HIDE DEF Up
    <3> QED BY <1>1, <2>0
  <2>2. f = [k \in 0 .. count |-> IF k = 0 THEN 0 ELSE f[k - 1] + w(k)]
    BY <2>1
  <2> QED BY <2>2
<1> DEFINE upTo == CHOOSE f : Solves(f)
<1>4. Bytes(t, s, kinds) = upTo[count]
  BY DEF Bytes, count, w
<1>5. Solves(upTo)
  <2> HIDE DEF Solves
  <2> QED BY <1>3, Zenon
<1> HIDE DEF upTo
<1>6. Up(count, upTo)
  BY <1>1, <1>5
<1> DEFINE Typed == {k \in Nat : k <= count => upTo[k] \in Nat}
<1>7. Nat \subseteq Typed
  <2>1. 0 \in Typed
    BY <1>6
  <2>2. ASSUME NEW k \in Nat, k \in Typed PROVE k + 1 \in Typed
    <3> SUFFICES ASSUME k + 1 <= count PROVE upTo[k + 1] \in Nat
      OBVIOUS
    <3>1. k + 1 \in 1 .. count /\ (k + 1) - 1 = k /\ upTo[k] \in Nat
      BY <1>1, <2>2
    <3>2. upTo[k + 1] = upTo[k] + w(k + 1)
      BY <1>6, <3>1
    <3> QED BY <1>1, <3>1, <3>2
  <2> HIDE DEF Typed
  <2> QED BY <2>1, <2>2, Ascent
<1>8. upTo \in [0 .. count -> Nat]
  <2>1. \A k \in 0 .. count : upTo[k] \in Nat
    BY <1>1, <1>7
  <2>2. upTo = [k \in 0 .. count |-> upTo[k]]
    BY <1>5
  <2> QED BY <2>1, <2>2
<1> QED BY <1>4, <1>6, <1>8 DEF Totals, count, w

\* One more file adds its weight.
LEMMA BytesOfAppend ==
  ASSUME NEW T, NEW s \in Seq(T), NEW i \in T, NEW t, NEW kinds,
         \A j \in T : Weight(t, j, kinds) \in Nat
  PROVE  /\ Bytes(t, s, kinds) \in Nat
         /\ Bytes(t, Append(s, i), kinds) = Bytes(t, s, kinds) + Weight(t, i, kinds)
<1> DEFINE r == Append(s, i)
           n == Len(s)
<1>1. r \in Seq(T) /\ n \in Nat /\ Len(r) = n + 1 /\ r[n + 1] = i /\ \A k \in 1 .. n : r[k] = s[k]
  BY AppendProperties
<1> HIDE DEF r
<1>w. /\ \A k \in 1 .. n : Weight(t, s[k], kinds) \in Nat
      /\ \A k \in 1 .. Len(r) : Weight(t, r[k], kinds) \in Nat
  <2>1. \A k \in 1 .. n : s[k] \in T
    OBVIOUS
  <2>2. \A k \in 1 .. Len(r) : r[k] \in T
    BY <1>1
  <2> HIDE DEF n
  <2> QED BY <2>1, <2>2
<1>2. PICK f \in Totals(t, s, kinds) : Bytes(t, s, kinds) = f[n]
  BY <1>1, <1>w, BytesAreATotal
<1>3. PICK g \in Totals(t, r, kinds) : Bytes(t, r, kinds) = g[n + 1]
  <2>0. Len(r) \in Nat
    BY <1>1
  <2>1. \E g \in Totals(t, r, kinds) : Bytes(t, r, kinds) = g[Len(r)]
    BY <2>0, <1>w, BytesAreATotal
  <2> QED BY <1>1, <2>1
<1> HIDE DEF n
<1>4. /\ f \in [0 .. n -> Nat] /\ f[0] = 0 /\ g[0] = 0
      /\ \A k \in 1 .. n : f[k] = f[k - 1] + Weight(t, s[k], kinds)
      /\ \A k \in 1 .. n + 1 : g[k] = g[k - 1] + Weight(t, r[k], kinds)
  BY <1>1, <1>2, <1>3 DEF Totals, n
<1> DEFINE Same == {k \in Nat : k <= n => f[k] = g[k]}
<1>5. Nat \subseteq Same
  <2>1. 0 \in Same
    BY <1>4
  <2>2. ASSUME NEW k \in Nat, k \in Same PROVE k + 1 \in Same
    <3> SUFFICES ASSUME k + 1 <= n PROVE f[k + 1] = g[k + 1]
      OBVIOUS
    <3>1. /\ k + 1 \in 1 .. n /\ k + 1 \in 1 .. n + 1 /\ (k + 1) - 1 = k /\ f[k] = g[k]
          /\ r[k + 1] = s[k + 1]
      BY <1>1, <2>2
    <3> QED BY <1>4, <3>1
  <2> HIDE DEF Same
  <2> QED BY <2>1, <2>2, Ascent
<1>6. f[n] = g[n] /\ f[n] \in Nat
  BY <1>1, <1>4, <1>5
<1>7. g[n + 1] = g[n] + Weight(t, i, kinds)
  <2>1. n + 1 \in 1 .. n + 1 /\ (n + 1) - 1 = n
    BY <1>1
  <2> QED BY <1>1, <1>4, <2>1
<1> QED BY <1>2, <1>3, <1>6, <1>7 DEF r

\* No files weigh nothing.
LEMMA BytesOfNothing ==
  ASSUME NEW t, NEW kinds
  PROVE  Bytes(t, <<>>, kinds) = 0
<1>2. PICK upTo \in Totals(t, <<>>, kinds) : Bytes(t, <<>>, kinds) = upTo[0]
  <2> DEFINE s == <<>>
  <2>1. Len(s) = 0
    OBVIOUS
  <2>2. ASSUME NEW k \in 1 .. Len(s) PROVE Weight(t, s[k], kinds) \in Nat
    BY <2>1
  <2> HIDE DEF s
  <2>3. \E upTo \in Totals(t, s, kinds) : Bytes(t, s, kinds) = upTo[Len(s)]
    BY <2>1, <2>2, BytesAreATotal
  <2> QED BY <2>1, <2>3 DEF s
<1> QED BY <1>2 DEF Totals

-----------------------------------------------------------------------------
(* The listing and the lists of files. *)

\* The entries of the listing are entries of the tree, with its types; there
\* are finitely many.
LEMMA ListingIsTyped ==
  ASSUME tree \in Trees, listed \in 0 .. Len(tree)
  PROVE  /\ IsFiniteSet(Listing) /\ Listing \subseteq DOMAIN tree
         /\ listed = Len(tree) => Listing = DOMAIN tree
         /\ \A i \in Listing : tree[i].kind \in Kinds /\ tree[i].size \in Nat
         /\ Eligible \subseteq Blobs /\ Blobs \subseteq Listing
         /\ \A i \in Eligible : \A kinds : Weight(tree, i, kinds) \in Nat
<1>1. /\ Len(tree) \in Nat /\ DOMAIN tree = 1 .. Len(tree)
      /\ \A i \in DOMAIN tree : tree[i].kind \in Kinds /\ tree[i].size \in Nat
  BY TreesAreTrees
<1>2. IsFiniteSet(Listing)
  BY <1>1, FS_Interval DEF Listing
<1>3. Listing \subseteq DOMAIN tree /\ (listed = Len(tree) => Listing = DOMAIN tree)
  BY <1>1 DEF Listing
<1>4. Eligible \subseteq Blobs /\ Blobs \subseteq Listing
  BY DEF Eligible, Blobs
<1>5. \A i \in Eligible : tree[i].size \in Nat
  BY <1>1, <1>3, <1>4
<1>6. ASSUME NEW i \in Eligible, NEW kinds PROVE Weight(tree, i, kinds) \in Nat
  BY <1>5 DEF Weight
<1> QED BY <1>1, <1>2, <1>3, <1>4, <1>6

\* A list that has each element once has as many elements as its set.
LEMMA InjectiveListsCount ==
  ASSUME NEW T, NEW s \in Seq(T), IsInjective(s)
  PROVE  IsFiniteSet(ToSet(s)) /\ Cardinality(ToSet(s)) = Len(s) /\ Len(s) \in Nat
<1>1. Len(s) \in Nat /\ DOMAIN s = 1 .. Len(s)
  OBVIOUS
<1>2. s \in [1 .. Len(s) -> ToSet(s)]
  BY <1>1 DEF ToSet
<1>3. s \in Injection(1 .. Len(s), ToSet(s)) /\ s \in Surjection(1 .. Len(s), ToSet(s))
  BY <1>1, <1>2 DEF Injection, Surjection, ToSet, IsInjective
<1>4. ExistsBijection(1 .. Len(s), ToSet(s))
  BY <1>3 DEF ExistsBijection, Bijection
<1>5. Cardinality(ToSet(s)) = Len(s)
  BY <1>1, <1>4, FS_CountingElements
<1>6. IsFiniteSet(ToSet(s))
  BY <1>1, <1>4, FS_NatBijection
<1> QED BY <1>1, <1>5, <1>6

\* A list that gets a new element still has each once.
LEMMA AppendNew ==
  ASSUME NEW T, NEW s \in Seq(T), IsInjective(s), NEW i \in T, i \notin ToSet(s)
  PROVE  /\ Append(s, i) \in Seq(T) /\ IsInjective(Append(s, i))
         /\ ToSet(Append(s, i)) = ToSet(s) \union {i}
         /\ Len(Append(s, i)) = Len(s) + 1
         /\ \A k \in 1 .. Len(s) : Append(s, i)[k] = s[k]
<1> DEFINE r == Append(s, i)
           n == Len(s)
<1>1. n \in Nat /\ DOMAIN s = 1 .. n
  OBVIOUS
<1>2. r \in Seq(T) /\ Len(r) = n + 1 /\ r[n + 1] = i /\ \A k \in 1 .. n : r[k] = s[k]
  BY AppendProperties
<1>3. DOMAIN r = 1 .. Len(r)
  BY <1>2
<1> HIDE DEF r, n
<1>4. DOMAIN r = DOMAIN s \union {n + 1} /\ n + 1 \notin DOMAIN s
  BY <1>1, <1>2, <1>3
<1>5. \A k \in DOMAIN s : r[k] = s[k] /\ s[k] # i
  BY <1>1, <1>2 DEF ToSet
<1>6. IsInjective(r)
  BY <1>2, <1>4, <1>5 DEF IsInjective
<1>7. ToSet(r) = ToSet(s) \union {i}
  <2>1. ToSet(r) \subseteq ToSet(s) \union {i}
    BY <1>2, <1>4, <1>5 DEF ToSet
  <2>2. ToSet(s) \union {i} \subseteq ToSet(r)
    BY <1>2, <1>4, <1>5 DEF ToSet
  <2> QED BY <2>1, <2>2
<1> QED BY <1>2, <1>6, <1>7 DEF r, n

\* What the chosen files weigh, and how many of them are sources.
LEMMA ChoiceIsTyped ==
  ASSUME TypeOK
  PROVE  /\ IsFiniteSet(ToSet(selected)) /\ Cardinality(ToSet(selected)) = Len(selected)
         /\ Len(selected) \in Nat /\ ToSet(selected) \subseteq Eligible
         /\ \A kinds : Bytes(tree, selected, kinds) \in Nat
<1>1. /\ tree \in Trees /\ listed \in 0 .. Len(tree)
      /\ selected \in Seq(Eligible) /\ IsInjective(selected)
  BY DEF TypeOK
<1>2. ToSet(selected) \subseteq Eligible
  BY <1>1 DEF ToSet
<1>3. \A k \in 1 .. Len(selected) : selected[k] \in Eligible
  BY <1>1
<1>4. ASSUME NEW kinds PROVE Bytes(tree, selected, kinds) \in Nat
  <2>1. \A k \in 1 .. Len(selected) : Weight(tree, selected[k], kinds) \in Nat
    BY <1>1, <1>3, ListingIsTyped
  <2>2. Len(selected) \in Nat
    BY <1>1
  <2>3. PICK upTo \in Totals(tree, selected, kinds) : Bytes(tree, selected, kinds) = upTo[Len(selected)]
    BY <2>1, <2>2, BytesAreATotal
  <2> QED BY <2>2, <2>3 DEF Totals
<1> QED BY <1>1, <1>2, <1>4, InjectiveListsCount
-----------------------------------------------------------------------------
(* The invariant is kept. *)

\* A step that leaves the repository and the choice alone leaves alone what is
\* said of them.
LEMMA SameChoice ==
  ASSUME UNCHANGED <<tree, listed, selected>>
  PROVE  /\ UNCHANGED <<Blobs, Eligible, Sources>>
         /\ \A kind : Candidates(kind)' = Candidates(kind)
         /\ \A kinds : Bytes(tree', selected', kinds) = Bytes(tree, selected, kinds)
BY DEF Blobs, Eligible, Sources, Listing, Candidates

\* The file in hand: eligible, of the kind of its loop, and nowhere yet.
LEMMA FileInHand ==
  ASSUME SInv, pc \in {"priority", "regular"}, NEW i \in ahead
  PROVE  /\ i \in Eligible /\ i \in Candidates(tree[i].kind)
         /\ tree[i].kind = IF pc = "priority" THEN "priority" ELSE "source"
         /\ i \notin ToSet(selected) /\ i \notin skipped
         /\ tree[i].size \in Nat /\ tree[i].kind \in Kinds
<1>1. /\ tree \in Trees /\ listed \in 0 .. Len(tree) /\ ahead \subseteq Eligible
      /\ LoopsLookAhead /\ FilesAreInOnePlace
  BY DEF SInv, TypeOK
<1>2. i \in Candidates(IF pc = "priority" THEN "priority" ELSE "source")
  BY <1>1 DEF LoopsLookAhead
<1>3. tree[i].kind = IF pc = "priority" THEN "priority" ELSE "source"
  BY <1>2 DEF Candidates
<1>4. i \in Remaining
  BY DEF Remaining
<1>5. i \notin ToSet(selected) /\ i \notin skipped
  BY <1>1, <1>4 DEF FilesAreInOnePlace
<1>6. i \in Eligible /\ i \in Listing
  BY <1>1, ListingIsTyped
<1>7. tree[i].size \in Nat /\ tree[i].kind \in Kinds
  BY <1>1, <1>6, ListingIsTyped
<1> QED BY <1>2, <1>3, <1>5, <1>6, <1>7

\* The loop goes on without the file in hand, which is left to no other loop.
LEMMA LoopGoesOn ==
  ASSUME SInv, pc \in {"priority", "regular"}, NEW i \in ahead,
         ahead' = ahead \ {i}, UNCHANGED <<tree, listed, pc>>
  PROVE  LoopsLookAhead' /\ Remaining' = Remaining \ {i} /\ i \in Remaining
<1>1. \A kind : Candidates(kind)' = Candidates(kind)
  BY DEF Candidates, Listing
<1>2. LoopsLookAhead'
  BY <1>1 DEF SInv, LoopsLookAhead
<1>3. pc = "priority" => i \notin Candidates("source")
  BY FileInHand DEF Candidates
<1>4. Remaining' = Remaining \ {i} /\ i \in Remaining
  BY <1>1, <1>3 DEF Remaining
<1> QED BY <1>2, <1>4

\* A file that is chosen.
LEMMA SelectKeepsSInv ==
  ASSUME SInv, pc \in {"priority", "regular"}, NEW i \in ahead, Fits(i), Select(i),
         ahead' = ahead \ {i}, UNCHANGED <<tree, listed, pc, files, errors, limited>>,
         regular' = IF pc = "regular" THEN regular + 1 ELSE regular,
         pc = "regular" => regular < CountCap
  PROVE  SInv'
<1>1. /\ tree \in Trees /\ listed \in 0 .. Len(tree)
      /\ selected \in Seq(Eligible) /\ IsInjective(selected)
      /\ bytes \in 0 .. TotalCap /\ regular \in 0 .. CountCap
      /\ ahead \subseteq Eligible /\ skipped \subseteq Blobs
      /\ files \in Seq(ToSet(selected)) /\ errors \subseteq ToSet(selected) /\ limited \in BOOLEAN
      /\ TypeOK /\ FilesAreInOnePlace /\ TotalsAreKept /\ SkipsAreDue /\ ReadInOrder
  BY DEF SInv, TypeOK
<1>2. /\ i \in Eligible /\ i \notin ToSet(selected) /\ i \notin skipped
      /\ tree[i].kind = (IF pc = "priority" THEN "priority" ELSE "source")
      /\ tree[i].size \in Nat /\ tree[i].kind \in Kinds
  BY FileInHand
<1>3. LoopsLookAhead' /\ Remaining' = Remaining \ {i} /\ i \in Remaining
  BY LoopGoesOn
<1>4. UNCHANGED <<Blobs, Eligible>> /\ Eligible \subseteq Blobs
  BY DEF Blobs, Eligible, Listing
<1>5. selected' = Append(selected, i) /\ bytes' = bytes + tree[i].size /\ skipped' = skipped
  BY DEF Select
<1>6. /\ selected' \in Seq(Eligible) /\ IsInjective(selected')
      /\ ToSet(selected') = ToSet(selected) \union {i}
      /\ Len(selected') = Len(selected) + 1
      /\ \A k \in 1 .. Len(selected) : selected'[k] = selected[k]
  BY <1>1, <1>2, <1>5, AppendNew
<1>8. bytes' \in 0 .. TotalCap /\ regular' \in 0 .. CountCap
  <2>1. bytes + tree[i].size <= TotalCap /\ TotalCap \in Nat /\ CountCap \in Nat
    BY CapsAreNaturals DEF Fits
  <2>2. bytes' \in 0 .. TotalCap
    BY <1>1, <1>2, <1>5, <2>1
  <2>3. regular' \in 0 .. CountCap
    BY <1>1, <2>1
  <2> QED BY <2>2, <2>3
<1>9. files \in Seq(ToSet(selected'))
  BY <1>1, <1>6
<1>10. TypeOK'
  BY <1>1, <1>4, <1>5, <1>6, <1>8, <1>9 DEF TypeOK
<1>11. FilesAreInOnePlace'
  <2>1. /\ Blobs = ToSet(selected) \union skipped \union Remaining
        /\ ToSet(selected) \cap skipped = {}
        /\ (ToSet(selected) \union skipped) \cap Remaining = {}
    BY <1>1 DEF FilesAreInOnePlace
  <2>2. Blobs' = ToSet(selected') \union skipped' \union Remaining'
    BY <1>3, <1>4, <1>5, <1>6, <2>1
  <2>3. ToSet(selected') \cap skipped' = {}
    BY <1>2, <1>5, <1>6, <2>1
  <2>4. (ToSet(selected') \union skipped') \cap Remaining' = {}
    BY <1>3, <1>5, <1>6, <2>1
  <2> QED BY <2>2, <2>3, <2>4 DEF FilesAreInOnePlace
<1>12. ASSUME NEW kinds
       PROVE  /\ Bytes(tree, selected, kinds) \in Nat
              /\ Bytes(tree', selected', kinds) =
                   Bytes(tree, selected, kinds) + (IF tree[i].kind \in kinds THEN tree[i].size ELSE 0)
  <2>1. \A j \in Eligible : Weight(tree, j, kinds) \in Nat
    BY <1>1, ListingIsTyped
  <2>2. /\ Bytes(tree, selected, kinds) \in Nat
        /\ Bytes(tree, Append(selected, i), kinds) = Bytes(tree, selected, kinds) + Weight(tree, i, kinds)
    BY <1>1, <1>2, <2>1, BytesOfAppend
  <2> QED BY <1>5, <2>2 DEF Weight
<1>13. /\ Bytes(tree', selected', Kinds) = Bytes(tree, selected, Kinds) + tree[i].size
       /\ Bytes(tree', selected', {"priority"}) =
            Bytes(tree, selected, {"priority"}) + (IF pc = "priority" THEN tree[i].size ELSE 0)
  BY <1>2, <1>12
<1>14. Cardinality(Sources') = regular'
  <2>1. Sources \subseteq ToSet(selected) /\ IsFiniteSet(ToSet(selected))
    BY <1>1, ChoiceIsTyped DEF Sources
  <2>2. IsFiniteSet(Sources) /\ i \notin Sources
    BY <1>2, <2>1, FS_Subset
  <2>3. Sources' = IF pc = "regular" THEN Sources \union {i} ELSE Sources
    BY <1>2, <1>6 DEF Sources
  <2>4. Cardinality(Sources \union {i}) = Cardinality(Sources) + 1
    BY <2>2, FS_AddElement
  <2> QED BY <1>1, <2>3, <2>4 DEF TotalsAreKept
<1>15. TotalsAreKept'
  BY <1>1, <1>5, <1>13, <1>14 DEF TotalsAreKept
<1>16. SkipsAreDue'
  <2> SUFFICES ASSUME NEW j \in skipped \cap Eligible
               PROVE  \/ tree[j].size > FileCap
                      \/ /\ Bytes(tree', selected', Kinds) + tree[j].size > TotalCap
                         /\ tree[j].kind = "priority" =>
                              Bytes(tree', selected', {"priority"}) + tree[j].size > TotalCap
                      \/ tree[j].kind = "source" /\ regular' = CountCap
    BY <1>4, <1>5 DEF SkipsAreDue
  <2>1. \/ tree[j].size > FileCap
        \/ /\ Bytes(tree, selected, Kinds) + tree[j].size > TotalCap
           /\ tree[j].kind = "priority" => Bytes(tree, selected, {"priority"}) + tree[j].size > TotalCap
        \/ tree[j].kind = "source" /\ regular = CountCap
    BY <1>1 DEF SkipsAreDue
  <2>2. /\ Bytes(tree, selected, Kinds) \in Nat /\ Bytes(tree, selected, {"priority"}) \in Nat
        /\ tree[j].size \in Nat /\ TotalCap \in Nat /\ CountCap \in Nat
    BY <1>1, <1>12, ListingIsTyped, CapsAreNaturals
  <2>3. CASE Bytes(tree, selected, Kinds) + tree[j].size > TotalCap
             /\ (tree[j].kind = "priority" => Bytes(tree, selected, {"priority"}) + tree[j].size > TotalCap)
    <3> DEFINE all == Bytes(tree, selected, Kinds)
               first == Bytes(tree, selected, {"priority"})
    <3>1. Bytes(tree', selected', Kinds) >= all /\ Bytes(tree', selected', {"priority"}) >= first
          /\ Bytes(tree', selected', Kinds) \in Nat /\ Bytes(tree', selected', {"priority"}) \in Nat
      BY <1>2, <1>13, <2>2
    <3> HIDE DEF all, first
    <3> QED BY <2>2, <2>3, <3>1 DEF all, first
  <2>4. CASE tree[j].kind = "source" /\ regular = CountCap
    <3>1. regular' = CountCap
      BY <1>1, <1>8, <2>2, <2>4
    <3> QED BY <2>4, <3>1
  <2> QED BY <2>1, <2>3, <2>4
<1>17. ReadInOrder'
  <2>1. files = <<>> /\ errors = {}
    BY <1>1 DEF ReadInOrder, Choosing
  <2>2. Len(files') + Cardinality(errors') = 0 /\ ToSet(files') = {} /\ IsInjective(files')
    <3>1. Cardinality({}) = 0 /\ Len(<<>>) = 0 /\ DOMAIN <<>> = {}
      BY FS_EmptySet
    <3> QED BY <2>1, <3>1 DEF ToSet, IsInjective
  <2>3. Len(selected') \in Nat
    BY <1>6
  <2> QED BY <2>1, <2>2, <2>3 DEF ReadInOrder
<1> QED BY <1>3, <1>10, <1>11, <1>15, <1>16, <1>17 DEF SInv

\* A file that is left out for one of the caps.
LEMMA SkipKeepsSInv ==
  ASSUME SInv, pc \in {"priority", "regular"}, NEW i \in ahead, Skip(i),
         ahead' = ahead \ {i}, UNCHANGED <<tree, listed, pc, files, errors, limited>>,
         ~Fits(i) \/ (pc = "regular" /\ ~(regular < CountCap))
  PROVE  SInv'
<1>1. /\ TypeOK /\ FilesAreInOnePlace /\ TotalsAreKept /\ SkipsAreDue /\ ReadInOrder
      /\ tree \in Trees /\ listed \in 0 .. Len(tree)
      /\ bytes \in 0 .. TotalCap /\ regular \in 0 .. CountCap
  BY DEF SInv, TypeOK
<1>2. /\ i \in Eligible /\ i \notin ToSet(selected) /\ i \notin skipped
      /\ tree[i].kind = (IF pc = "priority" THEN "priority" ELSE "source")
      /\ tree[i].size \in Nat /\ tree[i].kind \in Kinds
  BY FileInHand
<1>3. LoopsLookAhead' /\ Remaining' = Remaining \ {i} /\ i \in Remaining
  BY LoopGoesOn
<1>4. skipped' = skipped \union {i} /\ UNCHANGED <<selected, bytes, regular>>
  BY DEF Skip
<1>5. /\ UNCHANGED <<Blobs, Eligible, Sources>> /\ Eligible \subseteq Blobs
      /\ \A kinds : Bytes(tree', selected', kinds) = Bytes(tree, selected, kinds)
  BY <1>1, <1>4, SameChoice, ListingIsTyped
<1>6. TypeOK'
  BY <1>1, <1>2, <1>4, <1>5 DEF TypeOK
<1>7. FilesAreInOnePlace'
  <2>1. /\ Blobs = ToSet(selected) \union skipped \union Remaining
        /\ ToSet(selected) \cap skipped = {}
        /\ (ToSet(selected) \union skipped) \cap Remaining = {}
    BY <1>1 DEF FilesAreInOnePlace
  <2>2. Blobs' = ToSet(selected') \union skipped' \union Remaining'
    BY <1>3, <1>4, <1>5, <2>1
  <2>3. ToSet(selected') \cap skipped' = {} /\ (ToSet(selected') \union skipped') \cap Remaining' = {}
    BY <1>2, <1>3, <1>4, <2>1
  <2> QED BY <2>2, <2>3 DEF FilesAreInOnePlace
<1>8. TotalsAreKept'
  BY <1>1, <1>4, <1>5 DEF TotalsAreKept
<1>9. SkipsAreDue'
  <2> SUFFICES ASSUME NEW j \in (skipped \union {i}) \cap Eligible
               PROVE  \/ tree[j].size > FileCap
                      \/ /\ Bytes(tree, selected, Kinds) + tree[j].size > TotalCap
                         /\ tree[j].kind = "priority" =>
                              Bytes(tree, selected, {"priority"}) + tree[j].size > TotalCap
                      \/ tree[j].kind = "source" /\ regular = CountCap
    BY <1>4, <1>5 DEF SkipsAreDue
  <2>1. CASE j # i
    BY <1>1, <2>1 DEF SkipsAreDue
  <2>2. CASE j = i
    <3>1. bytes = Bytes(tree, selected, Kinds) /\ (pc = "priority" => bytes = Bytes(tree, selected, {"priority"}))
      BY <1>1 DEF TotalsAreKept
    <3>2. TotalCap \in Nat /\ CountCap \in Nat /\ bytes \in Nat /\ tree[i].size \in Nat
      BY <1>1, <1>2, CapsAreNaturals
    <3>3. CASE ~Fits(i)
      <4>1. bytes + tree[i].size > TotalCap
        BY <3>2, <3>3 DEF Fits
      <4> QED BY <1>2, <2>2, <3>1, <4>1
    <3>4. CASE pc = "regular" /\ ~(regular < CountCap)
      <4>1. regular = CountCap
        BY <1>1, <3>2, <3>4
      <4> QED BY <1>2, <2>2, <3>4, <4>1
    <3> QED BY <3>3, <3>4
  <2> QED BY <2>1, <2>2
<1>10. ReadInOrder'
  BY <1>1, <1>4 DEF ReadInOrder, Choosing
<1> QED BY <1>3, <1>6, <1>7, <1>8, <1>9, <1>10 DEF SInv
\* A step that leaves the repository and the choice alone keeps what is said of
\* them, when it neither opens a loop nor leaves one early.
LEMMA ChoiceStays ==
  ASSUME SInv, UNCHANGED <<tree, listed, selected, bytes, regular, skipped, ahead>>,
         \/ pc' = pc
         \/ pc = "regular" /\ ahead = {} /\ pc' = "read"
         \/ pc = "read" /\ pc' = "done"
         \/ pc \in {"tree", "read"} /\ pc' = "raised"
  PROVE  LoopsLookAhead' /\ FilesAreInOnePlace' /\ TotalsAreKept' /\ SkipsAreDue'
<1>1. LoopsLookAhead /\ FilesAreInOnePlace /\ TotalsAreKept /\ SkipsAreDue
  BY DEF SInv
<1>2. /\ UNCHANGED <<Blobs, Eligible, Sources>>
      /\ \A kind : Candidates(kind)' = Candidates(kind)
      /\ \A kinds : Bytes(tree', selected', kinds) = Bytes(tree, selected, kinds)
  BY SameChoice
<1>3. Remaining' = Remaining
  BY <1>2 DEF Remaining
<1>4. LoopsLookAhead'
  BY <1>1, <1>2 DEF LoopsLookAhead
<1>5. FilesAreInOnePlace'
  BY <1>1, <1>2, <1>3 DEF FilesAreInOnePlace
<1>6. TotalsAreKept'
  BY <1>1, <1>2 DEF TotalsAreKept
<1>7. SkipsAreDue'
  BY <1>1, <1>2 DEF SkipsAreDue
<1> QED BY <1>4, <1>5, <1>6, <1>7

\* The file that is asked for next is a chosen one and was not asked for.
LEMMA NextFileIsNew ==
  ASSUME SInv, Reading
  PROVE  /\ NextFile \in ToSet(selected) /\ NextFile \notin ToSet(files) /\ NextFile \notin errors
         /\ LET n == Len(files) + Cardinality(errors)
            IN /\ n \in Nat /\ n + 1 <= Len(selected)
               /\ {selected[k] : k \in 1 .. n + 1} = ToSet(files) \union errors \union {NextFile}
         /\ IsFiniteSet(errors) /\ Cardinality(errors) \in Nat /\ Len(files) \in Nat
<1> DEFINE n == Len(files) + Cardinality(errors)
<1>1. /\ selected \in Seq(Eligible) /\ IsInjective(selected)
      /\ files \in Seq(ToSet(selected)) /\ errors \subseteq ToSet(selected)
      /\ n <= Len(selected) /\ ToSet(files) \union errors = {selected[k] : k \in 1 .. n}
  BY DEF SInv, TypeOK, ReadInOrder
<1>2. IsFiniteSet(ToSet(selected)) /\ Len(selected) \in Nat
  BY ChoiceIsTyped DEF SInv
<1>3. IsFiniteSet(errors) /\ Cardinality(errors) \in Nat
  BY <1>1, <1>2, FS_Subset, FS_CardinalityType
<1>4. Len(files) \in Nat /\ n \in Nat
  BY <1>1, <1>3
<1>5. n < Len(selected) /\ NextFile = selected[n + 1]
  BY DEF Reading, NextFile
<1> HIDE DEF n
<1>6. n + 1 \in 1 .. Len(selected) /\ DOMAIN selected = 1 .. Len(selected)
  BY <1>1, <1>2, <1>4, <1>5
<1>7. NextFile \in ToSet(selected)
  BY <1>5, <1>6 DEF ToSet
<1>8. NextFile \notin {selected[k] : k \in 1 .. n}
  <2> SUFFICES ASSUME NEW k \in 1 .. n, selected[k] = selected[n + 1] PROVE FALSE
    BY <1>5
  <2>1. k \in DOMAIN selected /\ n + 1 \in DOMAIN selected /\ k # n + 1
    BY <1>4, <1>6
  <2> QED BY <1>1, <2>1 DEF IsInjective
<1>9. 1 .. n + 1 = (1 .. n) \union {n + 1}
  BY <1>4
<1>10. {selected[k] : k \in 1 .. n + 1} = {selected[k] : k \in 1 .. n} \union {NextFile}
  BY <1>5, <1>9
<1>11. n + 1 <= Len(selected)
  BY <1>6
<1> QED BY <1>1, <1>3, <1>4, <1>7, <1>8, <1>10, <1>11 DEF n

\* A file that is read.
LEMMA ReadKeepsSInv ==
  ASSUME SInv, ReadBlob
  PROVE  SInv'
<1> DEFINE n == Len(files) + Cardinality(errors)
<1>1. /\ Reading /\ files' = Append(files, NextFile)
      /\ UNCHANGED <<tree, listed, pc, ahead, selected, bytes, regular, skipped, errors, limited>>
  BY DEF ReadBlob, repository, choice
<1>2. /\ TypeOK /\ ReadInOrder /\ files \in Seq(ToSet(selected)) /\ IsInjective(files)
      /\ ToSet(files) \cap errors = {}
  BY DEF SInv, TypeOK, ReadInOrder
<1>3. /\ NextFile \in ToSet(selected) /\ NextFile \notin ToSet(files) /\ NextFile \notin errors
      /\ n \in Nat /\ n + 1 <= Len(selected)
      /\ {selected[k] : k \in 1 .. n + 1} = ToSet(files) \union errors \union {NextFile}
      /\ Cardinality(errors) \in Nat /\ Len(files) \in Nat
  BY <1>1, NextFileIsNew
<1>4. /\ files' \in Seq(ToSet(selected)) /\ IsInjective(files')
      /\ ToSet(files') = ToSet(files) \union {NextFile} /\ Len(files') = Len(files) + 1
  BY <1>1, <1>2, <1>3, AppendNew
<1>5. UNCHANGED <<Blobs, Eligible>>
  BY <1>1 DEF Blobs, Eligible, Listing
<1>6. TypeOK'
  BY <1>1, <1>2, <1>4, <1>5 DEF TypeOK
<1>7. LoopsLookAhead' /\ FilesAreInOnePlace' /\ TotalsAreKept' /\ SkipsAreDue'
  BY <1>1, ChoiceStays
<1>8. Len(files') + Cardinality(errors') = n + 1
  BY <1>1, <1>3, <1>4
<1>9. ReadInOrder'
  <2>1. pc = "read"
    BY <1>1 DEF Reading
  <2>2. ToSet(files') \union errors' = {selected'[k] : k \in 1 .. n + 1}
    BY <1>1, <1>3, <1>4
  <2>3. ToSet(files') \cap errors' = {}
    BY <1>1, <1>2, <1>3, <1>4
  <2> HIDE DEF n
  <2> QED BY <1>1, <1>3, <1>4, <1>8, <2>1, <2>2, <2>3 DEF ReadInOrder, Choosing
<1> QED BY <1>6, <1>7, <1>9 DEF SInv

\* A file that is refused.
LEMMA RefusalKeepsSInv ==
  ASSUME SInv, BlobRefused
  PROVE  SInv'
<1> DEFINE n == Len(files) + Cardinality(errors)
<1>0. PICK quota \in BOOLEAN :
        /\ Reading /\ errors' = errors \union {NextFile} /\ limited' = (limited \/ quota)
        /\ UNCHANGED <<repository, pc, ahead, choice, files>>
  BY DEF BlobRefused
<1>1. /\ Reading /\ errors' = errors \union {NextFile} /\ limited' \in BOOLEAN
      /\ UNCHANGED <<tree, listed, pc, ahead, selected, bytes, regular, skipped, files>>
  BY <1>0 DEF repository, choice
<1>2. TypeOK /\ ReadInOrder /\ ToSet(files) \cap errors = {} /\ IsInjective(files)
  BY DEF SInv, ReadInOrder
<1>3. /\ NextFile \in ToSet(selected) /\ NextFile \notin ToSet(files) /\ NextFile \notin errors
      /\ n \in Nat /\ n + 1 <= Len(selected)
      /\ {selected[k] : k \in 1 .. n + 1} = ToSet(files) \union errors \union {NextFile}
      /\ IsFiniteSet(errors) /\ Cardinality(errors) \in Nat /\ Len(files) \in Nat
  BY <1>1, NextFileIsNew
<1>4. Cardinality(errors') = Cardinality(errors) + 1
  BY <1>1, <1>3, FS_AddElement
<1>5. UNCHANGED <<Blobs, Eligible>>
  BY <1>1 DEF Blobs, Eligible, Listing
<1>6. TypeOK'
  BY <1>1, <1>2, <1>3, <1>5 DEF TypeOK
<1>7. LoopsLookAhead' /\ FilesAreInOnePlace' /\ TotalsAreKept' /\ SkipsAreDue'
  BY <1>1, ChoiceStays
<1>8. Len(files') + Cardinality(errors') = n + 1
  BY <1>1, <1>3, <1>4
<1>9. ReadInOrder'
  <2>1. pc = "read"
    BY <1>1 DEF Reading
  <2>2. ToSet(files') \union errors' = {selected'[k] : k \in 1 .. n + 1}
    BY <1>1, <1>3
  <2>3. ToSet(files') \cap errors' = {}
    BY <1>1, <1>2, <1>3
  <2> HIDE DEF n
  <2> QED BY <1>1, <1>2, <1>3, <1>8, <2>1, <2>2, <2>3 DEF ReadInOrder, Choosing
<1> QED BY <1>6, <1>7, <1>9 DEF SInv

\* The listing is sorted out: too large, not eligible, or a candidate.
LEMMA ListTreeKeepsSInv ==
  ASSUME SInv, ListTree
  PROVE  SInv'
<1>1. /\ pc = "tree" /\ pc' = "priority" /\ ahead' = Candidates("priority")
      /\ skipped' = (Blobs \ Eligible) \union {i \in Eligible : tree[i].size > FileCap}
      /\ UNCHANGED <<tree, listed, selected, bytes, regular, files, errors, limited>>
  BY DEF ListTree, repository, reading
<1>2. /\ TypeOK /\ TotalsAreKept /\ ReadInOrder /\ tree \in Trees /\ listed \in 0 .. Len(tree)
      /\ selected = <<>>
  BY <1>1 DEF SInv, TypeOK, FilesAreInOnePlace
<1>3. /\ UNCHANGED <<Blobs, Eligible, Sources>>
      /\ \A kind : Candidates(kind)' = Candidates(kind)
      /\ \A kinds : Bytes(tree', selected', kinds) = Bytes(tree, selected, kinds)
  BY <1>1, SameChoice
<1>4. /\ Candidates("priority") \subseteq Eligible /\ Candidates("source") \subseteq Eligible
      /\ Eligible \subseteq Blobs /\ skipped' \subseteq Blobs
  BY <1>1 DEF Candidates, Eligible, Blobs
<1>5. TypeOK'
  BY <1>1, <1>2, <1>3, <1>4 DEF TypeOK
<1>6. LoopsLookAhead'
  BY <1>1, <1>3 DEF LoopsLookAhead
<1>7. FilesAreInOnePlace'
  <2>1. Remaining' = Candidates("priority") \union Candidates("source")
    BY <1>1, <1>3 DEF Remaining
  <2>2. ToSet(selected') = {}
    <3>1. DOMAIN <<>> = {}
      OBVIOUS
    <3> QED BY <1>1, <1>2, <3>1 DEF ToSet
  <2>3. \A i \in Listing : tree[i].size \in Nat /\ FileCap \in Nat
    BY <1>2, ListingIsTyped, CapsAreNaturals
  <2>4. /\ Eligible = {i \in Eligible : tree[i].size > FileCap} \union Remaining'
        /\ {i \in Eligible : tree[i].size > FileCap} \cap Remaining' = {}
    BY <2>1, <2>3 DEF Candidates, Eligible
  <2>5. Blobs = skipped' \union Remaining' /\ skipped' \cap Remaining' = {}
    BY <1>1, <1>4, <2>4
  <2> QED BY <1>1, <1>3, <2>2, <2>5 DEF FilesAreInOnePlace
<1>8. TotalsAreKept'
  BY <1>1, <1>2, <1>3 DEF TotalsAreKept
<1>9. SkipsAreDue'
  BY <1>1, <1>3 DEF SkipsAreDue
<1>10. ReadInOrder'
  BY <1>1, <1>2 DEF ReadInOrder, Choosing
<1> QED BY <1>5, <1>6, <1>7, <1>8, <1>9, <1>10 DEF SInv

\* The loop over the manifests is over, and the loop over the sources begins.
LEMMA ToRegularKeepsSInv ==
  ASSUME SInv, ToRegular
  PROVE  SInv'
<1>1. /\ pc = "priority" /\ ahead = {} /\ pc' = "regular" /\ ahead' = Candidates("source")
      /\ UNCHANGED <<tree, listed, selected, bytes, regular, skipped, files, errors, limited>>
  BY DEF ToRegular, repository, choice, reading
<1>2. TypeOK /\ FilesAreInOnePlace /\ TotalsAreKept /\ SkipsAreDue /\ ReadInOrder
  BY DEF SInv
<1>3. /\ UNCHANGED <<Blobs, Eligible, Sources>>
      /\ \A kind : Candidates(kind)' = Candidates(kind)
      /\ \A kinds : Bytes(tree', selected', kinds) = Bytes(tree, selected, kinds)
  BY <1>1, SameChoice
<1>4. Candidates("source") \subseteq Eligible
  BY DEF Candidates, Eligible
<1>5. Remaining' = Remaining
  BY <1>1 DEF Remaining
<1>6. TypeOK'
  BY <1>1, <1>2, <1>3, <1>4 DEF TypeOK
<1>7. LoopsLookAhead'
  BY <1>1, <1>3 DEF LoopsLookAhead
<1>8. FilesAreInOnePlace'
  BY <1>1, <1>2, <1>3, <1>5 DEF FilesAreInOnePlace
<1>9. TotalsAreKept' /\ SkipsAreDue'
  BY <1>1, <1>2, <1>3 DEF TotalsAreKept, SkipsAreDue
<1>10. ReadInOrder'
  BY <1>1, <1>2 DEF ReadInOrder, Choosing
<1> QED BY <1>6, <1>7, <1>8, <1>9, <1>10 DEF SInv

\* The end of a loop, of the reading, or an exception.
LEMMA EndsKeepSInv ==
  ASSUME SInv, ListingRefused \/ ToRead \/ Raise \/ Return
  PROVE  SInv'
<1>1. /\ UNCHANGED <<tree, listed, ahead, selected, bytes, regular, skipped, files, errors>>
      /\ limited' \in BOOLEAN
  BY DEF SInv, TypeOK, ListingRefused, ToRead, Raise, Return, repository, choice, reading
<1>2. \/ pc = "regular" /\ ahead = {} /\ pc' = "read"
      \/ pc = "read" /\ ~Reading /\ pc' = "done"
      \/ pc \in {"tree", "read"} /\ pc' = "raised"
  BY DEF ListingRefused, ToRead, Raise, Return, Reading
<1>3. TypeOK /\ ReadInOrder
  BY DEF SInv
<1>4. UNCHANGED <<Blobs, Eligible>>
  BY <1>1 DEF Blobs, Eligible, Listing
<1>5. TypeOK'
  BY <1>1, <1>2, <1>3, <1>4 DEF TypeOK
<1>6. LoopsLookAhead' /\ FilesAreInOnePlace' /\ TotalsAreKept' /\ SkipsAreDue'
  BY <1>1, <1>2, ChoiceStays
<1>7. ReadInOrder'
  <2> DEFINE n == Len(files) + Cardinality(errors)
  <2>1. pc' = "done" => n = Len(selected)
    <3>1. Len(selected) \in Nat /\ n \in Nat /\ n <= Len(selected)
      <4>1. files \in Seq(ToSet(selected)) /\ errors \subseteq ToSet(selected) /\ n <= Len(selected)
        BY <1>3 DEF TypeOK, ReadInOrder
      <4>2. IsFiniteSet(errors) /\ Len(selected) \in Nat
        BY <1>3, <4>1, ChoiceIsTyped, FS_Subset
      <4> QED BY <4>1, <4>2, FS_CardinalityType
    <3>2. pc' = "done" => ~(n < Len(selected))
      BY <1>2 DEF Reading
    <3> HIDE DEF n
    <3> QED BY <3>1, <3>2
  <2>2. ~Choosing'
    BY <1>2 DEF Choosing
  <2> QED BY <1>1, <1>3, <2>1, <2>2 DEF ReadInOrder
<1> QED BY <1>5, <1>6, <1>7 DEF SInv
\* Every step of fetch_files keeps the invariant.
LEMMA NextKeepsSInv ==
  ASSUME SInv, [Next]_vars
  PROVE  SInv'
<1>1. CASE ListTree
  BY <1>1, ListTreeKeepsSInv
<1>2. CASE PickPriority
  <2>1. PICK i \in ahead :
          /\ pc = "priority" /\ ahead' = ahead \ {i}
          /\ IF Fits(i) THEN Select(i) /\ UNCHANGED regular ELSE Skip(i)
          /\ UNCHANGED <<repository, pc, reading>>
    BY <1>2 DEF PickPriority
  <2>2. UNCHANGED <<tree, listed, pc, files, errors, limited>>
    BY <2>1 DEF repository, reading
  <2>3. CASE Fits(i)
    BY <2>1, <2>2, <2>3, SelectKeepsSInv
  <2>4. CASE ~Fits(i)
    BY <2>1, <2>2, <2>4, SkipKeepsSInv
  <2> QED BY <2>3, <2>4
<1>3. CASE ToRegular
  BY <1>3, ToRegularKeepsSInv
<1>4. CASE PickRegular
  <2>1. PICK i \in ahead :
          /\ pc = "regular" /\ ahead' = ahead \ {i}
          /\ IF regular < CountCap /\ Fits(i) THEN Select(i) /\ regular' = regular + 1 ELSE Skip(i)
          /\ UNCHANGED <<repository, pc, reading>>
    BY <1>4 DEF PickRegular
  <2>2. UNCHANGED <<tree, listed, pc, files, errors, limited>>
    BY <2>1 DEF repository, reading
  <2>3. CASE regular < CountCap /\ Fits(i)
    BY <2>1, <2>2, <2>3, SelectKeepsSInv
  <2>4. CASE ~(regular < CountCap /\ Fits(i))
    BY <2>1, <2>2, <2>4, SkipKeepsSInv
  <2> QED BY <2>3, <2>4
<1>5. CASE ListingRefused \/ ToRead \/ Raise \/ Return
  BY <1>5, EndsKeepSInv
<1>6. CASE ReadBlob
  BY <1>6, ReadKeepsSInv
<1>7. CASE BlobRefused
  BY <1>7, RefusalKeepsSInv
<1>8. CASE UNCHANGED vars
  <2>1. /\ UNCHANGED <<tree, listed, pc, ahead, selected, bytes, regular, skipped, files, errors, limited>>
        /\ UNCHANGED <<Blobs, Eligible>> /\ TypeOK /\ ReadInOrder
    BY <1>8 DEF vars, repository, choice, reading, SInv, Blobs, Eligible, Listing
  <2>2. LoopsLookAhead' /\ FilesAreInOnePlace' /\ TotalsAreKept' /\ SkipsAreDue'
    BY <2>1, ChoiceStays
  <2>3. TypeOK'
    BY <2>1 DEF TypeOK
  <2>4. ReadInOrder'
    BY <2>1 DEF ReadInOrder, Choosing
  <2> QED BY <2>2, <2>3, <2>4 DEF SInv
<1> QED BY <1>1, <1>2, <1>3, <1>4, <1>5, <1>6, <1>7, <1>8 DEF Next

\* fetch_files begins with nothing listed, chosen or read.
LEMMA InitHasSInv ==
  ASSUME Init
  PROVE  SInv
<1>1. /\ tree \in Trees /\ listed \in 0 .. Len(tree) /\ pc = "tree" /\ ahead = {}
      /\ selected = <<>> /\ bytes = 0 /\ regular = 0 /\ skipped = {}
      /\ files = <<>> /\ errors = {} /\ limited = FALSE
  BY DEF Init
<1>2. DOMAIN <<>> = {} /\ ToSet(<<>>) = {} /\ Len(<<>>) = 0 /\ IsInjective(<<>>)
  <2>1. DOMAIN <<>> = {} /\ Len(<<>>) = 0
    OBVIOUS
  <2> QED BY <2>1 DEF ToSet, IsInjective
<1>3. Cardinality({}) = 0
  BY FS_EmptySet
<1>4. TypeOK
  <2>1. selected \in Seq(Eligible) /\ files \in Seq(ToSet(selected))
    BY <1>1
  <2>2. bytes \in 0 .. TotalCap /\ regular \in 0 .. CountCap
    BY <1>1, CapsAreNaturals
  <2> QED BY <1>1, <1>2, <2>1, <2>2 DEF TypeOK
<1>5. LoopsLookAhead /\ FilesAreInOnePlace /\ SkipsAreDue
  BY <1>1, <1>2 DEF LoopsLookAhead, FilesAreInOnePlace, SkipsAreDue, Remaining
<1>6. TotalsAreKept
  <2>1. Sources = {}
    BY <1>1, <1>2 DEF Sources
  <2> QED BY <1>1, <1>3, <2>1, BytesOfNothing DEF TotalsAreKept
<1>7. ReadInOrder
  <2>1. Len(files) + Cardinality(errors) = 0 /\ Len(selected) = 0
    BY <1>1, <1>2, <1>3
  <2>2. {selected[k] : k \in 1 .. 0} = {}
    OBVIOUS
  <2> QED BY <1>1, <1>2, <2>1, <2>2 DEF ReadInOrder
<1> QED BY <1>4, <1>5, <1>6, <1>7 DEF SInv

\* The inductive invariant holds of every call of fetch_files.
THEOREM SelectionInvariant == Spec => []SInv
BY InitHasSInv, NextKeepsSInv, PTL DEF Spec

-----------------------------------------------------------------------------
(* What follows from it. *)

\* Every variable has the values fetch_files gives it: no file chosen twice, no
\* total above its cap.
THEOREM TypeCorrect == Spec => []TypeOK
<1>1. SInv => TypeOK
  BY DEF SInv
<1> QED BY <1>1, SelectionInvariant, PTL

\* At the end every chosen file was read or refused, one of the two.
LEMMA EndOfReading ==
  ASSUME SInv, pc = "done"
  PROVE  /\ ToSet(selected) = ToSet(files) \union errors /\ ToSet(files) \cap errors = {}
         /\ IsFiniteSet(ToSet(files)) /\ Cardinality(ToSet(files)) = Len(files)
         /\ IsFiniteSet(errors) /\ Len(files) \in Nat
<1>1. /\ files \in Seq(ToSet(selected)) /\ errors \subseteq ToSet(selected)
      /\ selected \in Seq(Eligible) /\ IsInjective(files)
      /\ ToSet(files) \cap errors = {}
      /\ ToSet(files) \union errors = {selected[k] : k \in 1 .. Len(selected)}
  BY DEF SInv, TypeOK, ReadInOrder
<1>2. ToSet(selected) = {selected[k] : k \in 1 .. Len(selected)}
  BY <1>1 DEF ToSet
<1>3. IsFiniteSet(errors)
  BY <1>1, ChoiceIsTyped, FS_Subset DEF SInv
<1> QED BY <1>1, <1>2, <1>3, InjectiveListsCount

\* "none" is said of a repository only if no file the policy calls eligible has
\* a finding, for any caps, sizes and refusals, if GitHub listed all of it.
THEOREM NothingIsMissed == Spec => []NoneMissesNothing
<1>1. ASSUME SInv, pc = "done", Severity = "none", NEW i \in Eligible
      PROVE  ~tree[i].finding
  <2>1. /\ files # <<>> /\ CompleteForPolicy
        /\ \A k \in ToSet(files) : ~tree[k].finding
    BY <1>1 DEF Severity
  <2>2. /\ ToSet(selected) = ToSet(files) \union errors
        /\ IsFiniteSet(ToSet(files)) /\ Cardinality(ToSet(files)) = Len(files) /\ Len(files) \in Nat
    BY <1>1, EndOfReading
  <2>3. tree \in Trees /\ listed \in 0 .. Len(tree) /\ TypeOK
    BY <1>1 DEF SInv, TypeOK
  <2>4. IsFiniteSet(Eligible) /\ Cardinality(Eligible) \in Nat
    <3>1. Eligible \in SUBSET Listing /\ IsFiniteSet(Listing)
      BY <2>3, ListingIsTyped
    <3> QED BY <3>1, FS_Subset, FS_CardinalityType
  <2>5. ToSet(files) \in SUBSET Eligible
    BY <2>2, <2>3, ChoiceIsTyped
  <2>6. Cardinality(ToSet(files)) <= Cardinality(Eligible)
    BY <2>4, <2>5, FS_Subset
  <2>7. Cardinality(ToSet(files)) = Cardinality(Eligible)
    BY <2>1, <2>2, <2>4, <2>6 DEF CompleteForPolicy
  <2>8. ToSet(files) = Eligible
    BY <2>4, <2>5, <2>7, FS_Subset
  <2> QED BY <2>1, <2>8
<1>2. SInv => NoneMissesNothing
  BY <1>1 DEF NoneMissesNothing
<1> QED BY <1>2, SelectionInvariant, PTL

\* What fetch_files does not read is left out for one of its caps or for a
\* refusal, and mentioned once: manifests are never left out for sources, and
\* no cap is broken or left unused.
THEOREM OmissionsDue == Spec => []OmissionsAreDue
<1>1. ASSUME SInv, pc \in {"read", "done"}
      PROVE  /\ Blobs = ToSet(selected) \union skipped /\ ToSet(selected) \cap skipped = {}
             /\ Eligible \ ToSet(selected) \subseteq skipped \cap Eligible
  <2>1. Remaining = {}
    BY <1>1 DEF SInv, LoopsLookAhead, Remaining
  <2>2. Blobs = ToSet(selected) \union skipped /\ ToSet(selected) \cap skipped = {}
    BY <1>1, <2>1 DEF SInv, FilesAreInOnePlace
  <2>3. Eligible \subseteq Blobs
    BY DEF Eligible, Blobs
  <2> QED BY <2>2, <2>3
<1>2. SInv => EveryFileIsAccountedFor
  <2> SUFFICES ASSUME SInv, pc = "done"
               PROVE  /\ Blobs = ToSet(files) \union skipped \union errors
                      /\ Cardinality(Blobs) = Len(files) + Cardinality(skipped) + Cardinality(errors)
    BY DEF EveryFileIsAccountedFor
  <2>1. /\ ToSet(selected) = ToSet(files) \union errors /\ ToSet(files) \cap errors = {}
        /\ IsFiniteSet(ToSet(files)) /\ Cardinality(ToSet(files)) = Len(files)
        /\ IsFiniteSet(errors) /\ Len(files) \in Nat
    BY EndOfReading
  <2>2. Blobs = ToSet(selected) \union skipped /\ ToSet(selected) \cap skipped = {}
    BY <1>1
  <2>3. IsFiniteSet(skipped)
    <3>1. tree \in Trees /\ listed \in 0 .. Len(tree) /\ skipped \in SUBSET Blobs
      BY DEF SInv, TypeOK
    <3>2. IsFiniteSet(Listing) /\ Blobs \in SUBSET Listing
      BY <3>1, ListingIsTyped
    <3> QED BY <3>1, <3>2, FS_Subset
  <2>4. /\ IsFiniteSet(ToSet(selected))
        /\ Cardinality(ToSet(selected)) = Cardinality(ToSet(files)) + Cardinality(errors)
    <3>1. Cardinality(ToSet(files) \cap errors) = 0
      BY <2>1, FS_EmptySet
    <3>2. /\ IsFiniteSet(ToSet(files) \union errors)
          /\ Cardinality(ToSet(files) \union errors) =
               Cardinality(ToSet(files)) + Cardinality(errors) - Cardinality(ToSet(files) \cap errors)
      BY <2>1, FS_Union
    <3>3. Cardinality(ToSet(files)) \in Nat /\ Cardinality(errors) \in Nat
      BY <2>1, FS_CardinalityType
    <3> QED BY <2>1, <3>1, <3>2, <3>3
  <2>5. Cardinality(Blobs) = Cardinality(ToSet(selected)) + Cardinality(skipped)
    <3>1. Cardinality(ToSet(selected) \cap skipped) = 0
      BY <2>2, FS_EmptySet
    <3>2. Cardinality(ToSet(selected) \union skipped) =
            Cardinality(ToSet(selected)) + Cardinality(skipped) - Cardinality(ToSet(selected) \cap skipped)
      BY <2>3, <2>4, FS_Union
    <3>3. Cardinality(ToSet(selected)) \in Nat /\ Cardinality(skipped) \in Nat
      BY <2>3, <2>4, FS_CardinalityType
    <3> QED BY <2>2, <3>1, <3>2, <3>3
  <2>6. Cardinality(errors) \in Nat /\ Cardinality(skipped) \in Nat
    BY <2>1, <2>3, FS_CardinalityType
  <2> QED BY <2>1, <2>2, <2>4, <2>5, <2>6
<1>3. SInv => PaddingCannotHideManifests
  <2> SUFFICES ASSUME SInv, pc \in {"read", "done"},
                      NEW i \in Eligible, tree[i].kind = "priority", i \notin ToSet(selected)
               PROVE  tree[i].size > FileCap \/ Bytes(tree, selected, {"priority"}) + tree[i].size > TotalCap
    BY DEF PaddingCannotHideManifests
  <2>1. i \in skipped \cap Eligible
    BY <1>1
  <2> QED BY <2>1 DEF SInv, SkipsAreDue
<1>4. SInv => CapsHoldAndAreUsed
  <2> SUFFICES ASSUME SInv, pc \in {"read", "done"}
               PROVE  /\ Bytes(tree, selected, Kinds) <= TotalCap /\ Cardinality(Sources) <= CountCap
                      /\ \A i \in Eligible \ ToSet(selected) :
                           \/ tree[i].size > FileCap
                           \/ Bytes(tree, selected, Kinds) + tree[i].size > TotalCap
                           \/ tree[i].kind = "source" /\ Cardinality(Sources) = CountCap
    BY DEF CapsHoldAndAreUsed
  <2>1. /\ bytes = Bytes(tree, selected, Kinds) /\ regular = Cardinality(Sources)
        /\ bytes \in 0 .. TotalCap /\ regular \in 0 .. CountCap
    BY DEF SInv, TypeOK, TotalsAreKept
  <2>2. Bytes(tree, selected, Kinds) <= TotalCap /\ Cardinality(Sources) <= CountCap
    BY <2>1, CapsAreNaturals
  <2>3. ASSUME NEW i \in Eligible \ ToSet(selected)
        PROVE  \/ tree[i].size > FileCap
               \/ Bytes(tree, selected, Kinds) + tree[i].size > TotalCap
               \/ tree[i].kind = "source" /\ Cardinality(Sources) = CountCap
    <3>1. i \in skipped \cap Eligible
      BY <1>1
    <3> QED BY <2>1, <3>1 DEF SInv, SkipsAreDue
  <2> QED BY <2>2, <2>3
<1>5. SInv => OmissionsAreDue
  BY <1>2, <1>3, <1>4 DEF OmissionsAreDue
<1> QED BY <1>5, SelectionInvariant, PTL

\* A category is said of a repository only if what makes it one is there, in the
\* place the pack asks for, and denied only if no chosen file is missing from
\* the evidence.
THEOREM CategoriesEarned == Spec => []CategoriesAreEarned
<1>1. ASSUME SInv PROVE MatchIsThere
  <2>1. ToSet(files) \subseteq DOMAIN tree
    <3>1. /\ tree \in Trees /\ listed \in 0 .. Len(tree) /\ TypeOK
          /\ files \in Seq(ToSet(selected))
      BY <1>1 DEF SInv, TypeOK
    <3>2. ToSet(files) \subseteq ToSet(selected)
      BY <3>1 DEF ToSet
    <3>3. ToSet(selected) \subseteq Eligible /\ Eligible \subseteq Blobs
          /\ Blobs \subseteq Listing /\ Listing \subseteq DOMAIN tree
      BY <3>1, ChoiceIsTyped, ListingIsTyped
    <3> QED BY <3>2, <3>3
  <2>2. \A pack : Classify(pack) = "match" => Has(pack, ToSet(files))
    BY DEF Classify
  <2> HIDE DEF ToSet
  <2>3. ASSUME Has("mcp", ToSet(files))
        PROVE  \E i \in DOMAIN tree : tree[i].role = "manifest" /\ "mcp" \in tree[i].says
    <3>1. Evidence(ToSet(files)).manifest_entries
      BY <2>3 DEF Has, Packs
    <3>2. Said(Manifests(ToSet(files)), "mcp")
      BY <3>1 DEF Evidence
    <3> QED BY <2>1, <3>2 DEF Said, Manifests
  <2>4. ASSUME Has("local_ai", ToSet(files))
        PROVE  \E i \in DOMAIN tree : tree[i].role = "manifest" /\ "ollama" \in tree[i].says
    <3>1. Evidence(ToSet(files)).dependencies
      BY <2>4 DEF Has, Packs
    <3>2. Said(Manifests(ToSet(files)), "ollama")
      BY <3>1 DEF Evidence
    <3> QED BY <2>1, <3>2 DEF Said, Manifests
  <2>5. ASSUME Has("coding_agents", ToSet(files))
        PROVE  /\ \E i \in DOMAIN tree : tree[i].role = "AGENTS.md"
               /\ \E i \in DOMAIN tree : tree[i].role # "AGENTS.md" /\ "agent" \in tree[i].says
    <3>1. Evidence(ToSet(files)).files /\ Evidence(ToSet(files)).source
      BY <2>5 DEF Has, Packs
    <3>2. \E i \in ToSet(files) : tree[i].role = "AGENTS.md"
      BY <3>1 DEF Evidence
    <3>3. Said({i \in ToSet(files) : tree[i].role # "AGENTS.md"}, "agent")
      BY <3>1 DEF Evidence
    <3> QED BY <2>1, <3>2, <3>3 DEF Said
  <2> QED BY <2>2, <2>3, <2>4, <2>5 DEF MatchIsThere
<1>2. ASSUME SInv PROVE DenialIsEarned
  <2> SUFFICES ASSUME NEW pack \in Names, Classify(pack) = "uncategorized"
               PROVE  ~Has(pack, ToSet(selected))
    BY DEF DenialIsEarned
  <2>1. Basis # "absent" /\ ~Has(pack, ToSet(files))
    BY DEF Classify
  <2>2. pc = "done" /\ errors = {}
    BY <2>1 DEF Basis
  <2>3. ToSet(selected) = ToSet(files)
    BY <1>2, <2>2, EndOfReading
  <2> QED BY <2>1, <2>3
<1>3. SInv => CategoriesAreEarned
  BY <1>1, <1>2 DEF CategoriesAreEarned
<1> QED BY <1>3, SelectionInvariant, PTL
=============================================================================
