-------------------------- MODULE RunPorts_proofs --------------------------
(***************************************************************************)
(* Proofs about RunPorts for any list of candidates: the reasons and the   *)
(* limit of the run are the failures of its ports, the category reader's   *)
(* apart, what scans as malicious goes no further, and a replay comes to   *)
(* what the run came to.                                                   *)
(* The invariant says that what a run said is a function of its records.   *)
(***************************************************************************)
EXTENDS RunPorts, FiniteSetTheorems, SequenceTheorems, WellFoundedInduction, NaturalsInduction, TLAPS

-----------------------------------------------------------------------------
(* What Only keeps, for any sequence and any set. *)

\* The elements of P are numbered 1 .. Cardinality(P) by how many of them do
\* not exceed them, each number once: the order in which Only reads a sequence.
LEMMA RanksAreABijection ==
  ASSUME NEW n \in Nat, NEW P \in SUBSET (1 .. n)
  PROVE  LET rank(i) == Cardinality({j \in P : j <= i})
         IN /\ IsFiniteSet(P) /\ Cardinality(P) \in Nat
            /\ \A i \in P : rank(i) \in 1 .. Cardinality(P)
            /\ \A i, k \in P : i < k => rank(i) < rank(k)
            /\ \A m \in 1 .. Cardinality(P) : \E i \in P : rank(i) = m
<1> DEFINE upto(i) == {j \in P : j <= i}
           rank(i) == Cardinality(upto(i))
<1>1. IsFiniteSet(P) /\ Cardinality(P) \in Nat
  <2>1. IsFiniteSet(1 .. n)
    BY FS_Interval
  <2>2. IsFiniteSet(P)
    BY <2>1, FS_Subset
  <2> QED BY <2>2, FS_CardinalityType
<1>2. ASSUME NEW i \in P
      PROVE  IsFiniteSet(upto(i)) /\ rank(i) \in 1 .. Cardinality(P)
  <2>1. upto(i) \in SUBSET P
    OBVIOUS
  <2>2. IsFiniteSet(upto(i)) /\ rank(i) \in Nat /\ rank(i) <= Cardinality(P)
    BY <1>1, <2>1, FS_Subset, FS_CardinalityType
  <2>3. i \in upto(i)
    OBVIOUS
  <2>4. rank(i) # 0
    BY <2>2, <2>3, FS_EmptySet
  <2> QED BY <1>1, <2>2, <2>4
<1>3. ASSUME NEW i \in P, NEW k \in P, i < k
      PROVE  rank(i) < rank(k)
  <2>1. upto(i) \in SUBSET upto(k)
    <3>1. i \in Int /\ k \in Int /\ P \subseteq Int
      OBVIOUS
    <3>2. \A j \in P : j <= i => j <= k
      BY <1>3, <3>1
    <3> QED BY <3>2
  <2>2. k \in upto(k) /\ k \notin upto(i)
    BY <1>3
  <2>3. upto(i) # upto(k)
    BY <2>2
  <2>4. IsFiniteSet(upto(k)) /\ rank(i) \in Nat /\ rank(k) \in Nat
    BY <1>2
  <2>5. rank(i) <= rank(k) /\ rank(i) # rank(k)
    BY <2>1, <2>3, <2>4, FS_Subset
  <2> QED BY <2>4, <2>5
<1>4. ASSUME NEW m \in 1 .. Cardinality(P)
      PROVE  \E i \in P : rank(i) = m
  <2> DEFINE f == [i \in P |-> rank(i)]
             T == 1 .. Cardinality(P)
  <2>1. f \in [P -> T]
    BY <1>2
  <2>2. \A i, k \in P : f[i] = f[k] => i = k
    <3> SUFFICES ASSUME NEW i \in P, NEW k \in P, i # k
                 PROVE  f[i] # f[k]
      OBVIOUS
    <3>1. rank(i) \in Nat /\ rank(k) \in Nat
      BY <1>2
    <3>2. i < k \/ k < i
      OBVIOUS
    <3>3. rank(i) < rank(k) \/ rank(k) < rank(i)
      BY <1>3, <3>2
    <3> HIDE DEF rank
    <3> QED BY <3>1, <3>3
  <2>3. f \in Injection(P, T)
    <3> HIDE DEF f
    <3> QED BY <2>1, <2>2 DEF Injection, IsInjective
  <2>4. IsFiniteSet(T) /\ Cardinality(T) = Cardinality(P)
    BY <1>1, FS_Interval
  <2>5. f \in Surjection(P, T)
    <3> HIDE DEF f, T
    <3> QED BY <2>3, <2>4, FS_Injection
  <2>6. \E i \in P : f[i] = m
    <3> HIDE DEF f
    <3> QED BY <2>5 DEF Surjection
  <2> QED BY <2>6
<1> HIDE DEF rank
<1> QED BY <1>1, <1>2, <1>3, <1>4 DEF rank

\* Only keeps exactly the elements of s that are in S, each as often as s has
\* it where s has each once, and is no longer than s.
LEMMA OnlyKeeps ==
  ASSUME NEW T, NEW s \in Seq(T), NEW S
  PROVE  /\ Only(s, S) \in Seq(T)
         /\ ToSet(Only(s, S)) = ToSet(s) \cap S
         /\ IsInjective(s) => IsInjective(Only(s, S))
<1> DEFINE P == {i \in DOMAIN s : s[i] \in S}
           rank(i) == Cardinality({j \in P : j <= i})
           at(n) == CHOOSE i \in P : rank(i) = n
           o == Only(s, S)
<1>1. DOMAIN s = 1 .. Len(s) /\ Len(s) \in Nat /\ \A i \in DOMAIN s : s[i] \in T
  OBVIOUS
<1>2. P \in SUBSET (1 .. Len(s))
  BY <1>1
<1>3. /\ IsFiniteSet(P) /\ Cardinality(P) \in Nat
      /\ \A i \in P : rank(i) \in 1 .. Cardinality(P)
      /\ \A i, k \in P : i < k => rank(i) < rank(k)
      /\ \A m \in 1 .. Cardinality(P) : \E i \in P : rank(i) = m
  <2> HIDE DEF P
  <2> QED BY <1>1, <1>2, RanksAreABijection
<1>4. o = [n \in 1 .. Cardinality(P) |-> s[at(n)]]
  BY DEF Only
<1> HIDE DEF P, o, rank
<1>5. \A n \in 1 .. Cardinality(P) : at(n) \in P /\ rank(at(n)) = n
  BY <1>3
<1>6. \A i \in P : at(rank(i)) = i
  <2> SUFFICES ASSUME NEW i \in P
               PROVE  at(rank(i)) = i
    OBVIOUS
  <2> DEFINE k == at(rank(i))
  <2>1. k \in P /\ rank(k) = rank(i)
    BY <1>3, <1>5
  <2> HIDE DEF k
  <2>2. i \in Int /\ k \in Int /\ rank(i) \in Int
    BY <1>2, <1>3, <2>1
  <2>3. ~(i < k) /\ ~(k < i)
    BY <1>3, <2>1, <2>2
  <2>4. k = i
    BY <2>2, <2>3
  <2> QED BY <2>4 DEF k
<1> HIDE DEF at
<1>7. /\ DOMAIN o = 1 .. Cardinality(P)
      /\ \A n \in 1 .. Cardinality(P) : o[n] = s[at(n)]
  BY <1>4
<1>8. \A i \in P : s[i] \in T /\ s[i] \in S /\ i \in DOMAIN s
  BY <1>1 DEF P
<1>9. o \in Seq(T)
  <2>1. \A n \in 1 .. Cardinality(P) : s[at(n)] \in T
    BY <1>5, <1>8
  <2>2. o \in [1 .. Cardinality(P) -> T]
    BY <1>4, <2>1
  <2> QED BY <1>3, <2>2
<1>10. ToSet(o) = ToSet(s) \cap S
  <2>1. ASSUME NEW x \in ToSet(o)
        PROVE  x \in ToSet(s) \cap S
    <3>1. PICK n \in 1 .. Cardinality(P) : x = s[at(n)]
      BY <1>7, <2>1 DEF ToSet
    <3> QED BY <3>1, <1>5, <1>8 DEF ToSet
  <2>2. ASSUME NEW x \in ToSet(s) \cap S
        PROVE  x \in ToSet(o)
    <3>1. PICK i \in DOMAIN s : x = s[i]
      BY <2>2 DEF ToSet
    <3>2. i \in P
      BY <2>2, <3>1 DEF P
    <3>3. rank(i) \in DOMAIN o /\ o[rank(i)] = x
      BY <1>3, <1>6, <1>7, <3>1, <3>2
    <3> QED BY <3>3 DEF ToSet
  <2> QED BY <2>1, <2>2
<1>11. IsInjective(s) => IsInjective(o)
  <2> SUFFICES ASSUME IsInjective(s),
                      NEW n \in 1 .. Cardinality(P), NEW m \in 1 .. Cardinality(P),
                      o[n] = o[m]
               PROVE  n = m
    BY <1>7 DEF IsInjective
  <2>1. at(n) = at(m)
    BY <1>5, <1>7, <1>8 DEF IsInjective
  <2> QED BY <2>1, <1>5
<1> QED BY <1>9, <1>10, <1>11 DEF o

\* Only is empty exactly when nothing of s is in S.
LEMMA OnlyIsEmpty ==
  ASSUME NEW T, NEW s \in Seq(T), NEW S
  PROVE  Only(s, S) = <<>> <=> \A i \in DOMAIN s : s[i] \notin S
<1> DEFINE o == Only(s, S)
<1>1. o \in Seq(T) /\ ToSet(o) = ToSet(s) \cap S
  BY OnlyKeeps
<1> HIDE DEF o
<1>2. o = <<>> <=> DOMAIN o = {}
  BY <1>1
<1>3. DOMAIN o = {} <=> ToSet(o) = {}
  BY DEF ToSet
<1>4. ToSet(s) \cap S = {} <=> \A i \in DOMAIN s : s[i] \notin S
  BY DEF ToSet
<1> QED BY <1>1, <1>2, <1>3, <1>4 DEF o

-----------------------------------------------------------------------------
(* The inductive invariant behind the properties: what a run said is a     *)
(* function of what it recorded, at every stage of it.                     *)

InHand == pc \in {"observe", "grade", "withhold"}

\* The steps that lead to the result of the run, or begin a replay; what is left
\* is the evidence of the categories.
Deciding ==
  \/ ReadClock \/ Search \/ Smoke \/ Read \/ Observe \/ Withhold
  \/ GradeTooLarge \/ Grade \/ GradeFails \/ Finish \/ Replay

\* What the stage says of the trace.
Progress ==
  /\ (trace.clock = None)  <=> pc = "clock"
  /\ (trace.search = None) <=> pc \in {"clock", "search"}
  /\ (trace.smoke = None)  <=> pc \in {"clock", "search", "smoke"}
  /\ candidates = IF trace.search = None THEN <<>> ELSE trace.search.found
  /\ (fetched = None) <=> ~InHand
  /\ pc \in {"clock", "search", "smoke"} => reviewed = <<>>
  /\ InHand => Len(reviewed) < Len(candidates)
  /\ Judged => Len(reviewed) = Len(candidates)

\* What trace t has of a candidate whose metadata is settled, that is reviewed,
\* that was not reached.
MetadataSettled(t, c) ==
  (t.metadata[c] = None) <=> (t.files[c].content = "malicious" \/ t.clock = "fails")

Settled(t, c) ==
  /\ t.files[c] # None
  /\ MetadataSettled(t, c)
  /\ (t.grades[c] # None) <=> (t.smoke /\ t.files[c].content = "harmless")

Untouched(t, c) == t.files[c] = None /\ t.metadata[c] = None /\ t.grades[c] = None

RecordsSoFar ==
  /\ \A k \in DOMAIN reviewed : Settled(trace, candidates[k])
  /\ \A c \in Repos :
       \/ \E k \in DOMAIN reviewed : c = candidates[k]
       \/ InHand /\ c = Current
       \/ Untouched(trace, c)
  /\ InHand =>
       /\ trace.files[Current] = Recorded(fetched) /\ trace.grades[Current] = None
       /\ IF pc = "observe"
          THEN fetched.content # "malicious" /\ trace.metadata[Current] = None
          ELSE MetadataSettled(trace, Current)
       /\ pc = "grade"    => Gradeable
       /\ pc = "withhold" => ~Gradeable

\* The model was asked and gave no grade, or the digest did not fit.
GradingFailed(t, c) ==
  /\ t.smoke
  /\ \/ t.files[c].content = "too large"
     \/ t.files[c].content = "harmless" /\ t.grades[c] = "fails"

ReviewOf(repo, content, grade, withheld) ==
  [repo |-> repo, content |-> content, grade |-> grade, withheld |-> withheld]

GradeIn(t, c) == IF t.grades[c] = "grade" THEN "grade" ELSE None

ExcuseIn(t, c) ==
  CASE t.files[c].kind = "failure"      -> "files could not be read, and why"
    [] t.files[c].content = "nothing"   -> "no readable source files"
    [] t.files[c].content = "malicious" -> "screening found signals"
    [] t.grades[c] = "grade"            -> None
    [] GradingFailed(t, c)              -> "grading failed"
    [] OTHER                            -> "model unavailable"

\* The review of c, reworded, is what its records say.
ReviewIn(t, c) == ReviewOf(c, t.files[c].content, GradeIn(t, c), ExcuseIn(t, c))

ReviewsFollow ==
  \A k \in DOMAIN reviewed : Reworded(reviewed[k]) = ReviewIn(trace, candidates[k])

\* Until the end, there is a reason if and only if something was lost, and the
\* limit is set if and only if a quota ran out on files; the end adds the rest.
NothingLost ==
  /\ trace.search # None => trace.search.complete
  /\ \A c \in Repos : trace.files[c] # None => trace.files[c].complete
  /\ \A k \in DOMAIN reviewed : ~GradingFailed(trace, candidates[k])

QuotaRanOut(t) == \E c \in Repos : t.files[c] # None /\ t.files[c].quota

LimitReached(t) == QuotaRanOut(t) \/ Observed(t, {"limited"}) # <<>>

LossesSoFar ==
  /\ (reasons = <<>>) <=> (NothingLost /\ (Judged => LateReasons(trace) = <<>>))
  /\ limited <=> (IF Judged THEN LimitReached(trace) ELSE QuotaRanOut(trace))

\* The reasons after each candidate, from its records and the reasons before.
SaidFirst(t) == IF t.search.complete THEN <<>> ELSE <<Reason("collection stopped", None)>>

AfterFetch(said, t, c) ==
  IF t.files[c].complete THEN said ELSE With(said, FetchReason(t.files[c], c))

AfterReview(said, t, c) ==
  IF GradingFailed(t, c) THEN With(AfterFetch(said, t, c), Reason("grading failed", c))
  ELSE AfterFetch(said, t, c)

Says(past, t, n) ==
  /\ past \in [0 .. n -> Seq(Reasons)]
  /\ past[0] = SaidFirst(t)
  /\ \A k \in 1 .. n : past[k] = AfterReview(past[k - 1], t, t.search.found[k])

\* What is said when so much was said after the last candidate that is reviewed.
SaidNow(said) ==
  IF InHand THEN AfterFetch(said, trace, Current)
  ELSE IF Judged THEN said \o LateReasons(trace) ELSE said

ReasonsFollow ==
  /\ trace.search = None => reasons = <<>>
  /\ trace.search # None => \E past : /\ Says(past, trace, Len(reviewed))
                                      /\ reasons = SaidNow(past[Len(reviewed)])

\* What is replayed is the outcome of a whole run.
SourceIsARun == ~live =>
  LET t  == source.trace
      cs == t.search.found
  IN /\ t \in Traces /\ t.clock # None /\ t.search # None /\ t.smoke # None
     /\ \A k \in DOMAIN cs : Settled(t, cs[k])
     /\ \A c \in Repos \ ToSet(cs) : Untouched(t, c)
     /\ Len(source.reviewed) = Len(cs)
     /\ \A k \in DOMAIN cs : Reworded(source.reviewed[k]) = ReviewIn(t, cs[k])
     /\ source.limited \in BOOLEAN /\ (source.limited <=> LimitReached(t))
     /\ \E past : Says(past, t, Len(cs)) /\ source.reasons = past[Len(cs)] \o LateReasons(t)

\* A replay has recorded what the run did, as far as it got.
ReplayAgrees ==
  /\ ~missing
  /\ ~live =>
       /\ trace.clock \in {None, source.trace.clock}
       /\ trace.search \in {None, source.trace.search}
       /\ trace.smoke \in {None, source.trace.smoke}
       /\ \A c \in Repos :
            /\ trace.files[c] \in {None, source.trace.files[c]}
            /\ trace.metadata[c] \in {None, source.trace.metadata[c]}
            /\ trace.grades[c] \in {None, source.trace.grades[c]}

PInv == /\ TypeOK /\ Progress /\ RecordsSoFar /\ ReviewsFollow /\ LossesSoFar
        /\ ReasonsFollow /\ SourceIsARun /\ ReplayAgrees
-----------------------------------------------------------------------------
(* Lemmas about what the ports can answer. *)

\* The candidates a search can return: a piece of the whole list from its start.
LEMMA PrefixesAreLists ==
  ASSUME NEW s \in Prefixes(Found)
  PROVE  /\ s \in Seq(Repos) /\ Len(s) \in Nat /\ DOMAIN s = 1 .. Len(s)
         /\ \A k \in 1 .. Len(s) : s[k] \in Repos
         /\ \A i, k \in 1 .. Len(s) : s[i] = s[k] => i = k
         /\ Len(s) <= Len(Found) /\ s = SubSeq(Found, 1, Len(s))
<1>1. Found \in Seq(Repos) /\ IsInjective(Found)
  BY FoundOnce DEF Repos
<1>2. Len(Found) \in Nat /\ DOMAIN Found = 1 .. Len(Found)
      /\ \A k \in 1 .. Len(Found) : Found[k] \in Repos
  BY <1>1
<1>3. PICK n \in 0 .. Len(Found) : s = SubSeq(Found, 1, n)
  BY DEF Prefixes
<1>4. /\ s \in Seq(Repos)
      /\ Len(s) = IF 1 <= n THEN n - 1 + 1 ELSE 0
      /\ \A i \in 1 .. n - 1 + 1 : s[i] = Found[1 + i - 1]
  <2>1. \A i \in 1 .. n : Found[i] \in Repos
    BY <1>2
  <2>2. 1 \in Int /\ n \in Int
    OBVIOUS
  <2> QED BY <1>3, <2>1, <2>2, SubSeqProperties
<1>5. Len(s) = n /\ \A i \in 1 .. n : s[i] = Found[i]
  <2>1. n - 1 + 1 = n /\ \A i \in 1 .. n : 1 + i - 1 = i
    OBVIOUS
  <2> QED BY <1>4, <2>1
<1>6. \A i, k \in 1 .. n : s[i] = s[k] => i = k
  BY <1>1, <1>2, <1>5 DEF IsInjective
<1>7. DOMAIN s = 1 .. Len(s)
  BY <1>4
<1> QED BY <1>2, <1>3, <1>4, <1>5, <1>6, <1>7

\* An empty search result is one of them.
LEMMA NothingIsAPrefix == <<>> \in Prefixes(Found) /\ SubSeq(Found, 1, 0) = <<>>
<1>1. SubSeq(Found, 1, 0) = <<>>
  BY SubSeqEmpty
<1>2. Len(Found) \in Nat
  BY FoundOnce
<1> QED BY <1>1, <1>2 DEF Prefixes

\* Whatever a search answers, it answers with a piece of the list.
LEMMA SearchesFind ==
  ASSUME NEW a \in Searches
  PROVE  a.found \in Prefixes(Found) /\ a.complete \in BOOLEAN /\ a # None
<1>1. Len(Found) \in Nat
  BY FoundOnce
<1>2. CASE a = SearchFails
  BY <1>2, NothingIsAPrefix, NoneIsNothing DEF SearchFails
<1>3. CASE \E n \in 0 .. Len(Found), q \in BOOLEAN :
             a = [fails |-> FALSE, found |-> SubSeq(Found, 1, n), complete |-> FALSE, quota |-> q]
  <2>1. PICK n \in 0 .. Len(Found), q \in BOOLEAN :
          a = [fails |-> FALSE, found |-> SubSeq(Found, 1, n), complete |-> FALSE, quota |-> q]
    BY <1>3
  <2>2. a.found = SubSeq(Found, 1, n) /\ a.complete \in BOOLEAN
    BY <2>1
  <2> QED BY <2>2, NoneIsNothing DEF Prefixes
<1>4. CASE a = [fails |-> FALSE, found |-> Found, complete |-> TRUE, quota |-> FALSE]
  <2>1. Found = SubSeq(Found, 1, Len(Found))
    <3> DEFINE s == SubSeq(Found, 1, Len(Found))
    <3>1. Found \in Seq(Repos) /\ \A i \in 1 .. Len(Found) : Found[i] \in Repos
      BY FoundOnce DEF Repos
    <3>2. /\ s \in Seq(Repos)
          /\ Len(s) = IF 1 <= Len(Found) THEN Len(Found) - 1 + 1 ELSE 0
          /\ \A i \in 1 .. Len(Found) - 1 + 1 : s[i] = Found[1 + i - 1]
      BY <1>1, <3>1, SubSeqProperties
    <3> HIDE DEF s
    <3>3. Len(s) = Len(Found)
      BY <1>1, <3>2
    <3>4. \A i \in 1 .. Len(Found) : s[i] = Found[i]
      BY <1>1, <3>2
    <3>5. s = Found
      BY <3>1, <3>2, <3>3, <3>4
    <3> QED BY <3>5 DEF s
  <2>2. Found \in Prefixes(Found)
    <3>1. \A n \in 0 .. Len(Found) : SubSeq(Found, 1, n) \in Prefixes(Found)
      BY DEF Prefixes
    <3>2. SubSeq(Found, 1, Len(Found)) \in Prefixes(Found)
      BY <1>1, <3>1
    <3> QED BY <2>1, <3>2
  <2> QED BY <1>4, <2>2, NoneIsNothing
<1> QED BY <1>2, <1>3, <1>4 DEF Searches

\* Files that were fetched have text, and an answer that is complete no quota to
\* report.
LEMMA FilesHaveText ==
  ASSUME NEW f \in FetchedFiles
  PROVE  /\ f.kind = "files" /\ f.content \in Contents
         /\ f.quota \in BOOLEAN /\ f.complete \in BOOLEAN /\ (f.complete => ~f.quota)
BY DEF FetchedFiles

\* What is recorded of an answer about files has all that the branches of the
\* run look at.
LEMMA FetchesAreRecorded ==
  ASSUME NEW f \in Fetches
  PROVE  /\ Recorded(f) \in Records
         /\ Recorded(f).content = f.content /\ Recorded(f).complete = f.complete
         /\ Recorded(f).quota = f.quota
         /\ \A c : FetchReason(Recorded(f), c) = FetchReason(f, c)
         /\ f.content \in Contents \union {None}
         /\ f.kind \in {"files", "FileFetchError", "Exception"}
         /\ f.content = None <=> f.kind # "files"
         /\ f.quota \in BOOLEAN /\ f.complete \in BOOLEAN
         /\ f.complete => f.kind = "files" /\ ~f.quota
         /\ f.kind = "files" <=> Recorded(f).kind # "failure"
<1>1. CASE f \in FetchedFiles
  <2>1. /\ f.kind = "files" /\ f.content \in Contents
        /\ f.quota \in BOOLEAN /\ f.complete \in BOOLEAN /\ (f.complete => ~f.quota)
    BY <1>1, FilesHaveText
  <2>2. Recorded(f) = f
    BY <2>1 DEF Recorded
  <2>3. f.content # None
    BY <2>1, NoneIsNothing
  <2> QED BY <1>1, <2>1, <2>2, <2>3, Zenon DEF Records
<1>2. CASE \E q \in BOOLEAN : f = Failed("FileFetchError", q)
  <2>1. PICK q \in BOOLEAN : f = Failed("FileFetchError", q)
    BY <1>2
  <2>2. /\ f.kind = "FileFetchError" /\ f.content = None /\ f.complete = FALSE /\ f.quota = q
    BY <2>1 DEF Failed
  <2>3. Recorded(f) = Failed("failure", q)
    BY <2>2 DEF Recorded
  <2>4. /\ Failed("failure", q).content = None /\ Failed("failure", q).complete = FALSE
        /\ Failed("failure", q).quota = q /\ Failed("failure", q).kind = "failure"
    BY DEF Failed
  <2>5. \A c : FetchReason(Recorded(f), c) = FetchReason(f, c)
    BY <2>2, <2>3, <2>4, Zenon DEF FetchReason
  <2> QED BY <2>2, <2>3, <2>4, <2>5, Zenon DEF Records
<1>3. CASE f = Failed("Exception", FALSE)
  BY <1>3 DEF Failed, Recorded, Records, FetchReason
<1> QED BY <1>1, <1>2, <1>3 DEF Fetches

\* What a replay answers for a record is recorded as that record again.
LEMMA RecordsAreReplayed ==
  ASSUME NEW r \in Records
  PROVE  /\ Replayed(r) \in Fetches
         /\ Recorded(Replayed(r)) = r
         /\ r.content \in Contents \union {None}
         /\ r.kind \in {"files", "failure"}
         /\ r.content = None <=> r.kind = "failure"
         /\ r.quota \in BOOLEAN /\ r.complete \in BOOLEAN
<1>1. CASE r \in FetchedFiles
  <2>1. r.kind = "files" /\ r.content # None
    BY <1>1, NoneIsNothing DEF FetchedFiles
  <2>2. Replayed(r) = r /\ Recorded(r) = r
    BY <2>1 DEF Replayed, ToFetched, Recorded
  <2>3. r.content \in Contents /\ r.quota \in BOOLEAN /\ r.complete \in BOOLEAN
    BY <1>1, FilesHaveText
  <2> QED BY <1>1, <2>1, <2>2, <2>3, Zenon DEF Fetches
<1>2. CASE r = Failed("failure", TRUE)
  <2>1. Replayed(r) = Failed("FileFetchError", TRUE)
    BY <1>2 DEF Replayed, Failed
  <2>2. Recorded(Failed("FileFetchError", TRUE)) = Failed("failure", TRUE)
    BY DEF Recorded, Failed
  <2> QED BY <1>2, <2>1, <2>2 DEF Failed, Fetches
<1>3. CASE r = Failed("failure", FALSE)
  <2>1. Replayed(r) = Failed("Exception", FALSE)
    BY <1>3 DEF Replayed, Failed
  <2>2. Recorded(Failed("Exception", FALSE)) = Failed("failure", FALSE)
    BY DEF Recorded, Failed
  <2> QED BY <1>3, <2>1, <2>2 DEF Failed, Fetches
<1> QED BY <1>1, <1>2, <1>3 DEF Records

-----------------------------------------------------------------------------
(* Lemmas about one answer and one record. *)

\* A port answers something it can answer, and in a replay what is recorded.
LEMMA PortsAnswer ==
  ASSUME NEW all, NEW record, NEW raised \in all, NEW a \in Answers(all, record, raised),
         ~live => record \in all \union {None}
  PROVE  a \in all /\ (~live /\ record # None => a = record)
BY Zenon DEF Answers

\* The same of the files of a candidate, as they are recorded again.
LEMMA FilesAnswer ==
  ASSUME NEW c \in Repos, NEW a \in FileAnswers(c),
         ~live => source.trace.files[c] \in Records \union {None}
  PROVE  /\ a \in Fetches
         /\ ~live /\ source.trace.files[c] # None => Recorded(a) = source.trace.files[c]
<1> DEFINE record == source.trace.files[c]
           answer == IF record = None THEN None ELSE Replayed(record)
           raised == Failed("Exception", FALSE)
<1>1. a \in Answers(Fetches, answer, raised)
  BY DEF FileAnswers
<1>2. raised \in Fetches
  BY DEF Fetches
<1>3. ~live => answer \in Fetches \union {None}
  BY RecordsAreReplayed
<1>4. a \in Fetches /\ (~live /\ answer # None => a = answer)
  <2> HIDE DEF answer, raised
  <2> QED BY <1>1, <1>2, <1>3, PortsAnswer
<1>5. ASSUME ~live, record # None
      PROVE  Recorded(a) = record
  <2>1. record \in Records
    BY <1>5
  <2>2. Replayed(record) \in Fetches /\ Recorded(Replayed(record)) = record
    <3> HIDE DEF record
    <3> QED BY <2>1, RecordsAreReplayed
  <2>3. answer = Replayed(record) /\ answer # None
    BY <1>5, <2>2, NoneIsNothing
  <2> QED BY <1>4, <1>5, <2>2, <2>3
<1> QED BY <1>4, <1>5

\* A line is added to the reasons at most once, and then there is one.
LEMMA MarkingSays ==
  ASSUME NEW said \in Seq(Reasons), NEW r \in Reasons
  PROVE  With(said, r) \in Seq(Reasons) /\ With(said, r) # <<>>
<1>1. CASE r \in ToSet(said)
  <2>1. said # <<>>
    BY <1>1 DEF ToSet
  <2> QED BY <1>1, <2>1 DEF With
<1>2. CASE r \notin ToSet(said)
  <2>1. Append(said, r) \in Seq(Reasons) /\ Len(Append(said, r)) = Len(said) + 1 /\ Len(said) \in Nat
    BY AppendProperties
  <2>2. Len(Append(said, r)) # 0
    BY <2>1
  <2>3. Append(said, r) # <<>>
    BY <2>2, EmptySeq
  <2> QED BY <1>2, <2>1, <2>3 DEF With
<1> QED BY <1>1, <1>2

\* What the run says of an answer about files, or of grading, is a reason.
LEMMA ReasonsAreTyped ==
  /\ Reason("collection stopped", None) \in Reasons
  /\ Reason("smoke gate failed", None) \in Reasons
  /\ Reason("clock failed", None) \in Reasons
  /\ \A c \in Repos : /\ Reason("grading failed", c) \in Reasons
                      /\ \A f : FetchReason(f, c) \in Reasons
                      /\ \A o \in Observations : Reason(o, c) \in Reasons
<1>1. \A w \in {"collection stopped", "quota", "files skipped", "files unread", "grading failed",
                "smoke gate failed", "clock failed"} \union Observations, r \in Repos \union {None} :
        Reason(w, r) \in Reasons
  BY DEF Reason, Reasons
<1>2. \A c \in Repos : \A f : FetchReason(f, c) \in Reasons
  BY <1>1, Zenon DEF FetchReason
<1> QED BY <1>1, <1>2

\* What is said of a candidate, of its review and of what is to be recorded of
\* it is a matter of its own records.
LEMMA SameRecords ==
  ASSUME NEW t, NEW u, NEW c,
         t.clock = u.clock, t.smoke = u.smoke, t.files[c] = u.files[c],
         t.metadata[c] = u.metadata[c], t.grades[c] = u.grades[c]
  PROVE  /\ Settled(t, c) <=> Settled(u, c)
         /\ Untouched(t, c) <=> Untouched(u, c)
         /\ MetadataSettled(t, c) <=> MetadataSettled(u, c)
         /\ GradingFailed(t, c) <=> GradingFailed(u, c)
         /\ ReviewIn(t, c) = ReviewIn(u, c)
         /\ \A said : AfterFetch(said, t, c) = AfterFetch(said, u, c)
         /\ \A said : AfterReview(said, t, c) = AfterReview(said, u, c)
<1>1. MetadataSettled(t, c) <=> MetadataSettled(u, c)
  BY DEF MetadataSettled
<1>2. GradingFailed(t, c) <=> GradingFailed(u, c)
  BY DEF GradingFailed
<1>3. \A said : AfterFetch(said, t, c) = AfterFetch(said, u, c)
  BY DEF AfterFetch
<1>4. ReviewIn(t, c) = ReviewIn(u, c)
  BY <1>2 DEF ReviewIn, GradeIn, ExcuseIn
<1>5. \A said : AfterReview(said, t, c) = AfterReview(said, u, c)
  BY <1>2, <1>3 DEF AfterReview
<1>6. Settled(t, c) <=> Settled(u, c)
  BY <1>1 DEF Settled
<1>7. Untouched(t, c) <=> Untouched(u, c)
  BY DEF Untouched
<1> QED BY <1>1, <1>2, <1>3, <1>4, <1>5, <1>6, <1>7

\* A record of the files of one candidate leaves the others alone.
LEMMA FileRecord ==
  ASSUME NEW t \in Traces, NEW c \in Repos, NEW v, NEW u, u = [t EXCEPT !.files[c] = v]
  PROVE  /\ u.clock = t.clock /\ u.search = t.search /\ u.smoke = t.smoke
         /\ u.metadata = t.metadata /\ u.grades = t.grades
         /\ u.files[c] = v /\ \A d \in Repos : d # c => u.files[d] = t.files[d]
         /\ v \in Records => u \in Traces
<1> HIDE DEF Repos, Records, Observations, Searches
<1> QED BY DEF Traces

\* A record of the metadata of one candidate leaves the others alone.
LEMMA MetadataRecord ==
  ASSUME NEW t \in Traces, NEW c \in Repos, NEW v, NEW u, u = [t EXCEPT !.metadata[c] = v]
  PROVE  /\ u.clock = t.clock /\ u.search = t.search /\ u.smoke = t.smoke
         /\ u.files = t.files /\ u.grades = t.grades
         /\ u.metadata[c] = v /\ \A d \in Repos : d # c => u.metadata[d] = t.metadata[d]
         /\ v \in Observations \union {None} => u \in Traces
<1> HIDE DEF Repos, Records, Observations, Searches
<1> QED BY DEF Traces

\* A record of the grade of one candidate leaves the others alone.
LEMMA GradeRecord ==
  ASSUME NEW t \in Traces, NEW c \in Repos, NEW v, NEW u, u = [t EXCEPT !.grades[c] = v]
  PROVE  /\ u.clock = t.clock /\ u.search = t.search /\ u.smoke = t.smoke
         /\ u.files = t.files /\ u.metadata = t.metadata
         /\ u.grades[c] = v /\ \A d \in Repos : d # c => u.grades[d] = t.grades[d]
         /\ v \in {"grade", "fails"} => u \in Traces
<1> HIDE DEF Repos, Records, Observations, Searches
<1> QED BY DEF Traces

-----------------------------------------------------------------------------
(* Types. *)

\* The candidate in hand is one of those that were found, and not reviewed yet.
LEMMA CurrentIsNext ==
  ASSUME TypeOK, Len(reviewed) < Len(candidates)
  PROVE  /\ Current \in Repos /\ Len(reviewed) \in Nat
         /\ Len(reviewed) + 1 \in DOMAIN candidates
         /\ DOMAIN reviewed = 1 .. Len(reviewed)
         /\ \A k \in DOMAIN reviewed : candidates[k] \in Repos /\ candidates[k] # Current
<1>1. /\ Len(candidates) \in Nat /\ DOMAIN candidates = 1 .. Len(candidates)
      /\ \A k \in 1 .. Len(candidates) : candidates[k] \in Repos
      /\ \A i, k \in 1 .. Len(candidates) : candidates[i] = candidates[k] => i = k
  BY PrefixesAreLists DEF TypeOK
<1>2. Len(reviewed) \in Nat /\ DOMAIN reviewed = 1 .. Len(reviewed)
  BY DEF TypeOK
<1>3. Len(reviewed) + 1 \in 1 .. Len(candidates)
  BY <1>1, <1>2
<1>4. \A k \in DOMAIN reviewed : k \in 1 .. Len(candidates) /\ k # Len(reviewed) + 1
  BY <1>1, <1>2
<1> QED BY <1>1, <1>2, <1>3, <1>4 DEF Current

\* What a replay can find in the artifact is what a port can have recorded.
LEMMA SourceIsTyped ==
  ASSUME SourceIsARun, ~live
  PROVE  /\ source.trace \in Traces
         /\ source.trace.clock \in {"time", "fails", None}
         /\ source.trace.search \in Searches \union {None}
         /\ source.trace.smoke \in BOOLEAN \union {None}
         /\ \A c \in Repos : /\ source.trace.files[c] \in Records \union {None}
                             /\ source.trace.metadata[c] \in Observations \union {None}
                             /\ source.trace.grades[c] \in {"grade", "fails", None}
<1>1. source.trace \in Traces
  BY Zenon DEF SourceIsARun
<1> DEFINE t == source.trace
<1>2. t \in Traces
  BY <1>1
<1> HIDE DEF t
<1>3. /\ t.clock \in {"time", "fails", None}
      /\ t.search \in Searches \union {None}
      /\ t.smoke \in BOOLEAN \union {None}
      /\ t.files \in [Repos -> Records \union {None}]
      /\ t.metadata \in [Repos -> Observations \union {None}]
      /\ t.grades \in [Repos -> {"grade", "fails", None}]
  <2> HIDE DEF Repos, Records, Observations, Searches
  <2> QED BY <1>2 DEF Traces
<1>4. \A c \in Repos : /\ t.files[c] \in Records \union {None}
                       /\ t.metadata[c] \in Observations \union {None}
                       /\ t.grades[c] \in {"grade", "fails", None}
  <2> HIDE DEF Repos, Records, Observations, Searches
  <2> QED BY <1>3
<1> QED BY <1>2, <1>3, <1>4 DEF t

\* A review is of the next candidate and has the fields of one.
LEMMA ReviewIsTyped ==
  ASSUME TypeOK, Len(reviewed) < Len(candidates), fetched # None,
         NEW grade \in {"grade", None}, NEW withheld \in Excuses \union {None},
         Review(grade, withheld), candidates' = candidates
  PROVE  /\ reviewed' \in Seq(Reviews) /\ Len(reviewed') = Len(reviewed) + 1
         /\ Len(reviewed') <= Len(candidates') /\ Len(reviewed) + 1 \in DOMAIN candidates
         /\ DOMAIN reviewed' = 1 .. Len(reviewed) + 1
         /\ reviewed'[Len(reviewed) + 1] = [repo |-> Current, content |-> fetched.content,
                                            grade |-> grade, withheld |-> withheld]
         /\ \A k \in DOMAIN reviewed : reviewed'[k] = reviewed[k]
         /\ \A k \in DOMAIN reviewed' : reviewed'[k].repo = candidates'[k]
<1> DEFINE r == [repo |-> Current, content |-> fetched.content,
                 grade |-> grade, withheld |-> withheld]
           n == Len(reviewed)
<1>1. /\ Current \in Repos /\ n \in Nat /\ n + 1 \in DOMAIN candidates
      /\ DOMAIN reviewed = 1 .. n
  BY CurrentIsNext
<1>2. fetched \in Fetches
  BY DEF TypeOK
<1>3. fetched.content \in Contents \union {None}
  BY <1>2, FetchesAreRecorded
<1>4. r \in Reviews
  <2> HIDE DEF Repos, Contents, Excuses
  <2> QED BY <1>1, <1>3 DEF Reviews
<1>5. r.repo = Current
  OBVIOUS
<1>6. reviewed' = Append(reviewed, r) /\ reviewed \in Seq(Reviews)
      /\ \A k \in DOMAIN reviewed : reviewed[k].repo = candidates[k]
  BY DEF Review, TypeOK
<1> HIDE DEF r
<1>7. /\ Append(reviewed, r) \in Seq(Reviews) /\ Len(Append(reviewed, r)) = n + 1
      /\ \A k \in 1 .. n : Append(reviewed, r)[k] = reviewed[k]
      /\ Append(reviewed, r)[n + 1] = r
  BY <1>4, <1>6, AppendProperties
<1>8. DOMAIN reviewed' = 1 .. n + 1
  BY <1>6, <1>7
<1>9. n + 1 <= Len(candidates)
  <2>1. Len(candidates) \in Nat
    BY PrefixesAreLists DEF TypeOK
  <2> QED BY <1>1, <2>1
<1>10. ASSUME NEW k \in 1 .. n + 1
       PROVE  reviewed'[k].repo = candidates[k]
  <2>1. CASE k = n + 1
    BY <1>5, <1>6, <1>7, <2>1 DEF Current
  <2>2. CASE k \in 1 .. n
    BY <1>1, <1>6, <1>7, <2>2
  <2> QED BY <1>1, <2>1, <2>2
<1> QED BY <1>1, <1>6, <1>7, <1>8, <1>9, <1>10 DEF r

\* The reasons stay a list of reasons when the run marks itself incomplete.
LEMMA MarkIsTyped ==
  ASSUME TypeOK, NEW r \in Reasons, Mark(r)
  PROVE  reasons' \in Seq(Reasons)
BY MarkingSays DEF TypeOK, Mark

\* What the end of the run adds is a list of reasons, and none if the model and
\* the clock answered and no metadata was missing.
LEMMA LateReasonsAreTyped ==
  ASSUME NEW t \in Traces, t.search # None
  PROVE  /\ LateReasons(t) \in Seq(Reasons)
         /\ LateReasons(t) = <<>> <=>
              /\ t.smoke /\ t.clock # "fails"
              /\ \A k \in DOMAIN t.search.found :
                   t.metadata[t.search.found[k]] \notin {"limited", "refused", "fails"}
<1> DEFINE lost   == {c \in Repos : t.metadata[c] \in {"limited", "refused", "fails"}}
           told   == Only(t.search.found, lost)
           of     == [k \in DOMAIN told |-> Reason(t.metadata[told[k]], told[k])]
           model  == IF t.smoke THEN <<>> ELSE <<Reason("smoke gate failed", None)>>
           clock  == IF t.clock = "fails" THEN <<Reason("clock failed", None)>> ELSE <<>>
<1>1. t.search \in Searches
  <2> HIDE DEF Searches
  <2> QED BY DEF Traces
<1>2. t.search.found \in Seq(Repos) /\ \A k \in DOMAIN t.search.found : t.search.found[k] \in Repos
  BY <1>1, SearchesFind, PrefixesAreLists
<1>3. told \in Seq(Repos) /\ ToSet(told) = ToSet(t.search.found) \cap lost
  <2> HIDE DEF lost
  <2> QED BY <1>2, OnlyKeeps
<1>4. told = <<>> <=> \A k \in DOMAIN t.search.found : t.search.found[k] \notin lost
  <2> HIDE DEF lost
  <2> QED BY <1>2, OnlyIsEmpty
<1>5. told = <<>> <=> \A k \in DOMAIN t.search.found :
                         t.metadata[t.search.found[k]] \notin {"limited", "refused", "fails"}
  BY <1>2, <1>4
<1>6. Len(told) \in Nat /\ DOMAIN told = 1 .. Len(told)
  <2> HIDE DEF told
  <2> QED BY <1>3
<1>7. \A k \in DOMAIN told : told[k] \in lost
  <2> HIDE DEF told, lost
  <2> QED BY <1>3 DEF ToSet
<1>8. \A k \in DOMAIN told : Reason(t.metadata[told[k]], told[k]) \in Reasons
  <2>1. \A c \in lost : c \in Repos /\ t.metadata[c] \in Observations
    BY DEF Observations
  <2> HIDE DEF told, lost, Observations
  <2>2. \A k \in DOMAIN told : told[k] \in Repos /\ t.metadata[told[k]] \in Observations
    BY <1>7, <2>1
  <2> QED BY <2>2, ReasonsAreTyped
<1>9. of \in Seq(Reasons) /\ (of = <<>> <=> told = <<>>)
  <2> HIDE DEF told
  <2>1. of \in [1 .. Len(told) -> Reasons]
    BY <1>6, <1>8
  <2>2. DOMAIN of = DOMAIN told
    OBVIOUS
  <2> HIDE DEF of
  <2>3. of \in Seq(Reasons)
    BY <1>6, <2>1
  <2>4. of = <<>> <=> told = <<>>
    BY <1>3, <2>2, <2>3
  <2> QED BY <2>3, <2>4
<1>9a. <<>> \in Seq(Reasons) /\ \A r \in Reasons : <<r>> \in Seq(Reasons)
  OBVIOUS
<1>10. model \in Seq(Reasons) /\ (model = <<>> <=> t.smoke)
  <2>1. <<Reason("smoke gate failed", None)>> \in Seq(Reasons) /\ <<>> \in Seq(Reasons)
    BY <1>9a, ReasonsAreTyped
  <2>2. <<Reason("smoke gate failed", None)>> # <<>>
    OBVIOUS
  <2> QED BY <2>1, <2>2, Zenon
<1>11. clock \in Seq(Reasons) /\ (clock = <<>> <=> t.clock # "fails")
  <2>1. <<Reason("clock failed", None)>> \in Seq(Reasons) /\ <<>> \in Seq(Reasons)
    BY <1>9a, ReasonsAreTyped
  <2>2. <<Reason("clock failed", None)>> # <<>>
    OBVIOUS
  <2> QED BY <2>1, <2>2, Zenon
<1>12. LateReasons(t) = model \o clock \o of
  BY DEF LateReasons, Observed
<1> HIDE DEF told, of, model, clock
<1>13. /\ model \o clock \in Seq(Reasons) /\ (model \o clock) \o of \in Seq(Reasons)
       /\ Len((model \o clock) \o of) = Len(model) + Len(clock) + Len(of)
       /\ Len(model) \in Nat /\ Len(clock) \in Nat /\ Len(of) \in Nat
  BY <1>9, <1>10, <1>11
<1>14. (model \o clock) \o of = <<>> <=> model = <<>> /\ clock = <<>> /\ of = <<>>
  <2>1. \A s \in Seq(Reasons) : s = <<>> <=> Len(s) = 0
    OBVIOUS
  <2>2. Len(model) + Len(clock) + Len(of) = 0 <=> Len(model) = 0 /\ Len(clock) = 0 /\ Len(of) = 0
    BY <1>13
  <2> DEFINE both == (model \o clock) \o of
  <2>3. both \in Seq(Reasons) /\ (both = <<>> <=> Len(both) = 0)
    BY <1>13, <2>1
  <2> QED BY <1>9, <1>10, <1>11, <1>13, <2>1, <2>2, <2>3
<1> QED BY <1>5, <1>9, <1>10, <1>11, <1>12, <1>13, <1>14

\* A record of the run leaves its others and those of the candidates alone.
LEMMA RunRecord ==
  ASSUME NEW t \in Traces, NEW v
  PROVE  /\ LET u == [t EXCEPT !.clock = v]
            IN /\ u.clock = v /\ u.search = t.search /\ u.smoke = t.smoke
               /\ u.files = t.files /\ u.metadata = t.metadata /\ u.grades = t.grades
               /\ v \in {"time", "fails"} => u \in Traces
         /\ LET u == [t EXCEPT !.search = v]
            IN /\ u.clock = t.clock /\ u.search = v /\ u.smoke = t.smoke
               /\ u.files = t.files /\ u.metadata = t.metadata /\ u.grades = t.grades
               /\ v \in Searches => u \in Traces
         /\ LET u == [t EXCEPT !.smoke = v]
            IN /\ u.clock = t.clock /\ u.search = t.search /\ u.smoke = v
               /\ u.files = t.files /\ u.metadata = t.metadata /\ u.grades = t.grades
               /\ v \in BOOLEAN => u \in Traces
<1> HIDE DEF Repos, Records, Observations, Searches
<1> QED BY DEF Traces

\* Before the ports answer, nothing is recorded and the outcome is empty.
LEMMA NothingIsTyped ==
  /\ NothingYet \in Traces
  /\ NothingYet.clock = None /\ NothingYet.search = None /\ NothingYet.smoke = None
  /\ \A c \in Repos : Untouched(NothingYet, c)
  /\ <<>> \in Seq(Reasons) /\ <<>> \in Seq(Reviews) /\ Len(<<>>) = 0 /\ DOMAIN <<>> = {}
<1>1. NothingYet \in Traces
  <2> HIDE DEF Repos, Records, Observations, Searches
  <2> QED BY DEF NothingYet, Traces
<1>2. \A c \in Repos : Untouched(NothingYet, c)
  BY DEF NothingYet, Untouched
<1>3. NothingYet.clock = None /\ NothingYet.search = None /\ NothingYet.smoke = None
  BY DEF NothingYet
<1> QED BY <1>1, <1>2, <1>3

\* The record that an answer makes is of its type, and in a replay it is the
\* record of the run.
LEMMA AnswersAreRecorded ==
  ASSUME TypeOK, SourceIsARun
  PROVE  /\ \A a \in Answers({"time", "fails"}, source.trace.clock, "fails") :
              /\ a \in {"time", "fails"}
              /\ ~live /\ source.trace.clock # None => a = source.trace.clock
         /\ \A a \in Answers(Searches, source.trace.search, SearchFails) :
              /\ a \in Searches
              /\ ~live /\ source.trace.search # None => a = source.trace.search
         /\ \A a \in Answers(BOOLEAN, source.trace.smoke, FALSE) :
              /\ a \in BOOLEAN
              /\ ~live /\ source.trace.smoke # None => a = source.trace.smoke
         /\ \A c \in Repos :
              /\ \A a \in FileAnswers(c) :
                   /\ a \in Fetches
                   /\ ~live /\ source.trace.files[c] # None => Recorded(a) = source.trace.files[c]
              /\ \A a \in Answers(Observations, source.trace.metadata[c], "fails") :
                   /\ a \in Observations
                   /\ ~live /\ source.trace.metadata[c] # None => a = source.trace.metadata[c]
              /\ \A a \in Answers({"grade", "fails"}, source.trace.grades[c], "fails") :
                   /\ a \in {"grade", "fails"}
                   /\ ~live /\ source.trace.grades[c] # None => a = source.trace.grades[c]
<1>1. /\ ~live => source.trace.clock \in {"time", "fails"} \union {None}
      /\ ~live => source.trace.search \in Searches \union {None}
      /\ ~live => source.trace.smoke \in BOOLEAN \union {None}
      /\ \A c \in Repos : /\ ~live => source.trace.files[c] \in Records \union {None}
                          /\ ~live => source.trace.metadata[c] \in Observations \union {None}
                          /\ ~live => source.trace.grades[c] \in {"grade", "fails"} \union {None}
  <2>1. CASE live
    BY <2>1
  <2>2. CASE ~live
    BY <2>2, SourceIsTyped
  <2> QED BY <2>1, <2>2
<1>2. SearchFails \in Searches /\ "fails" \in Observations /\ FALSE \in BOOLEAN
  BY DEF Searches, Observations
<1>3. \A a \in Answers({"time", "fails"}, source.trace.clock, "fails") :
        /\ a \in {"time", "fails"}
        /\ ~live /\ source.trace.clock # None => a = source.trace.clock
  BY <1>1, PortsAnswer
<1>4. \A a \in Answers(Searches, source.trace.search, SearchFails) :
        /\ a \in Searches
        /\ ~live /\ source.trace.search # None => a = source.trace.search
  BY <1>1, <1>2, PortsAnswer
<1>5. \A a \in Answers(BOOLEAN, source.trace.smoke, FALSE) :
        /\ a \in BOOLEAN
        /\ ~live /\ source.trace.smoke # None => a = source.trace.smoke
  <2> DEFINE B == BOOLEAN
             F == FALSE
  <2>1. F \in B /\ (~live => source.trace.smoke \in B \union {None})
    BY <1>1
  <2> HIDE DEF B, F
  <2>2. \A a \in Answers(B, source.trace.smoke, F) :
          a \in B /\ (~live /\ source.trace.smoke # None => a = source.trace.smoke)
    BY <2>1, PortsAnswer
  <2> QED BY <2>2 DEF B, F
<1>6. ASSUME NEW c \in Repos
      PROVE  /\ \A a \in FileAnswers(c) :
                  /\ a \in Fetches
                  /\ ~live /\ source.trace.files[c] # None => Recorded(a) = source.trace.files[c]
             /\ \A a \in Answers(Observations, source.trace.metadata[c], "fails") :
                  /\ a \in Observations
                  /\ ~live /\ source.trace.metadata[c] # None => a = source.trace.metadata[c]
             /\ \A a \in Answers({"grade", "fails"}, source.trace.grades[c], "fails") :
                  /\ a \in {"grade", "fails"}
                  /\ ~live /\ source.trace.grades[c] # None => a = source.trace.grades[c]
  <2>1. \A a \in FileAnswers(c) :
          /\ a \in Fetches
          /\ ~live /\ source.trace.files[c] # None => Recorded(a) = source.trace.files[c]
    BY <1>1, FilesAnswer
  <2>2. \A a \in Answers(Observations, source.trace.metadata[c], "fails") :
          /\ a \in Observations
          /\ ~live /\ source.trace.metadata[c] # None => a = source.trace.metadata[c]
    BY <1>1, <1>2, PortsAnswer
  <2>3. \A a \in Answers({"grade", "fails"}, source.trace.grades[c], "fails") :
          /\ a \in {"grade", "fails"}
          /\ ~live /\ source.trace.grades[c] # None => a = source.trace.grades[c]
    BY <1>1, PortsAnswer
  <2> QED BY <2>1, <2>2, <2>3
<1> QED BY <1>3, <1>4, <1>5, <1>6

\* A step that reviews the candidate in hand keeps the types of what it changes.
LEMMA ReviewKeepsTypes ==
  ASSUME TypeOK, InHand, Progress,
         NEW grade \in {"grade", None}, NEW withheld \in Excuses \union {None},
         Review(grade, withheld), candidates' = candidates, trace' \in Traces,
         reasons' \in Seq(Reasons), UNCHANGED <<live, limited, evidence>>, missing' \in BOOLEAN
  PROVE  TypeOK'
<1>1. Len(reviewed) < Len(candidates) /\ fetched # None
  BY DEF Progress
<1>2. /\ reviewed' \in Seq(Reviews) /\ Len(reviewed') <= Len(candidates')
      /\ \A k \in DOMAIN reviewed' : reviewed'[k].repo = candidates'[k]
  BY <1>1, ReviewIsTyped
<1>3. pc' = "read" /\ fetched' = None
  BY DEF Review
<1> QED BY <1>2, <1>3 DEF TypeOK

\* The excuses of the run are the ones it has.
LEMMA WithholdingExcuses ==
  /\ Withholding \in Excuses
  /\ "grading failed" \in Excuses
BY DEF Withholding, Excuses

\* What each step leaves in the variables is of their types.
LEMMA TypesKept ==
  ASSUME TypeOK, Progress, SourceIsARun, Deciding
  PROVE  TypeOK'
<1>1. /\ live \in BOOLEAN /\ limited \in BOOLEAN /\ missing \in BOOLEAN
      /\ candidates \in Prefixes(Found) /\ fetched \in Fetches \union {None}
      /\ trace \in Traces /\ reviewed \in Seq(Reviews) /\ Len(reviewed) <= Len(candidates)
      /\ \A k \in DOMAIN reviewed : reviewed[k].repo = candidates[k]
      /\ reasons \in Seq(Reasons) /\ evidence \in Seq({"read", "absent", "fails"})
  BY Zenon DEF TypeOK
<1>2. CASE ReadClock
  <2>1. PICK a \in Answers({"time", "fails"}, source.trace.clock, "fails") :
          /\ pc' = "search" /\ Asks(source.trace.clock)
          /\ trace' = [trace EXCEPT !.clock = a]
          /\ UNCHANGED <<live, candidates, fetched, reviewed, reasons, limited, source, evidence>>
    BY <1>2 DEF ReadClock
  <2>2. a \in {"time", "fails"}
    BY AnswersAreRecorded
  <2>3. trace' \in Traces
    BY <1>1, <2>1, <2>2, RunRecord
  <2> QED BY <1>1, <2>1, <2>3 DEF TypeOK, Asks
<1>3. CASE Search
  <2>1. PICK a \in Answers(Searches, source.trace.search, SearchFails) :
          /\ pc = "search" /\ pc' = "smoke" /\ Asks(source.trace.search)
          /\ candidates' = a.found
          /\ trace' = [trace EXCEPT !.search = a]
          /\ IF a.complete THEN UNCHANGED reasons ELSE Mark(Reason("collection stopped", None))
          /\ UNCHANGED <<live, fetched, reviewed, limited, source, evidence>>
    BY <1>3 DEF Search
  <2>2. a \in Searches /\ a.found \in Prefixes(Found) /\ a.complete \in BOOLEAN
    BY AnswersAreRecorded, SearchesFind
  <2>3. trace' \in Traces
    BY <1>1, <2>1, <2>2, RunRecord
  <2>4. reasons' \in Seq(Reasons)
    BY <1>1, <2>1, MarkIsTyped, ReasonsAreTyped
  <2>5. reviewed = <<>>
    BY <2>1 DEF Progress
  <2>6. reviewed' \in Seq(Reviews) /\ Len(reviewed') <= Len(candidates') /\ DOMAIN reviewed' = {}
    <3>1. Len(candidates') \in Nat
      BY <2>1, <2>2, PrefixesAreLists
    <3>2. reviewed' = <<>>
      BY <2>1, <2>5
    <3>3. Len(reviewed') = 0 /\ DOMAIN reviewed' = {} /\ reviewed' \in Seq(Reviews)
      BY <3>2
    <3> QED BY <3>1, <3>3
  <2>7. candidates' \in Prefixes(Found)
    BY <2>1, <2>2
  <2> QED BY <1>1, <2>1, <2>3, <2>4, <2>6, <2>7 DEF TypeOK, Asks
<1>4. CASE Smoke
  <2>1. PICK a \in Answers(BOOLEAN, source.trace.smoke, FALSE) :
          /\ pc' = "read" /\ Asks(source.trace.smoke)
          /\ trace' = [trace EXCEPT !.smoke = a]
          /\ UNCHANGED <<live, candidates, fetched, reviewed, reasons, limited, source, evidence>>
    BY <1>4, Zenon DEF Smoke
  <2>2. a \in BOOLEAN
    BY AnswersAreRecorded, Zenon
  <2>3. trace' \in Traces
    BY <1>1, <2>1, <2>2, RunRecord
  <2> QED BY <1>1, <2>1, <2>3 DEF TypeOK, Asks
<1>5. CASE Read
  <2>1. /\ pc = "read" /\ Len(reviewed) < Len(candidates)
        /\ UNCHANGED <<live, candidates, reviewed, source, evidence>>
        /\ Asks(source.trace.files[Current])
    BY <1>5 DEF Read
  <2>2. PICK a \in FileAnswers(Current) :
          /\ pc' = Screened(a) /\ fetched' = a
          /\ trace' = [trace EXCEPT !.files[Current] = Recorded(a)]
          /\ limited' = (limited \/ a.quota)
          /\ IF a.complete THEN UNCHANGED reasons ELSE Mark(FetchReason(a, Current))
    BY <1>5, Zenon DEF Read
  <2>3. Current \in Repos
    BY <2>1, CurrentIsNext
  <2>4. a \in Fetches
    BY <2>3, AnswersAreRecorded
  <2>5. Recorded(a) \in Records /\ a.quota \in BOOLEAN
    BY <2>4, FetchesAreRecorded
  <2>6. trace' \in Traces
    BY <1>1, <2>2, <2>3, <2>5, FileRecord
  <2>7. reasons' \in Seq(Reasons)
    <3>1. FetchReason(a, Current) \in Reasons
      BY <2>3, ReasonsAreTyped
    <3>2. Mark(FetchReason(a, Current)) => reasons' \in Seq(Reasons)
      BY <3>1, MarkIsTyped
    <3> QED BY <1>1, <2>2, <3>2
  <2>8. pc' \in {"withhold", "observe"} /\ fetched' \in Fetches
    BY <2>2, <2>4 DEF Screened
  <2>9. limited' \in BOOLEAN
    BY <1>1, <2>2, <2>5
  <2>10. missing' \in BOOLEAN
    BY <1>1, <2>1 DEF Asks
  <2> QED BY <1>1, <2>1, <2>6, <2>7, <2>8, <2>9, <2>10 DEF TypeOK
<1>6. CASE Observe
  <2>1. /\ pc = "observe" /\ pc' = IF Gradeable THEN "grade" ELSE "withhold"
        /\ UNCHANGED <<live, candidates, fetched, reviewed, reasons, limited, source, evidence>>
    BY <1>6 DEF Observe
  <2>2. PICK a \in IF trace.clock = "fails" THEN {None}
                   ELSE Answers(Observations, source.trace.metadata[Current], "fails") :
          trace' = [trace EXCEPT !.metadata[Current] = a]
    BY <1>6 DEF Observe
  <2>3. Current \in Repos
    BY <2>1, CurrentIsNext DEF Progress, InHand
  <2>4. a \in Observations \union {None}
    BY <2>2, <2>3, AnswersAreRecorded
  <2>5. trace' \in Traces
    BY <1>1, <2>2, <2>3, <2>4, MetadataRecord
  <2>6. missing' \in BOOLEAN
    BY <1>1, <1>6 DEF Observe, Asks
  <2>7. pc' \in {"grade", "withhold"}
    BY <2>1
  <2> QED BY <1>1, <2>1, <2>5, <2>6, <2>7 DEF TypeOK
<1>7. CASE Withhold
  <2>1. /\ InHand /\ Review(None, Withholding)
        /\ UNCHANGED <<live, candidates, trace, reasons, limited, missing, source, evidence>>
    BY <1>7 DEF Withhold, InHand
  <2> QED BY <1>1, <2>1, WithholdingExcuses, ReviewKeepsTypes
<1>8. ASSUME pc = "grade"
      PROVE  Current \in Repos /\ InHand
  BY <1>8, CurrentIsNext DEF Progress, InHand
<1>9. CASE GradeTooLarge
  <2>1. /\ pc = "grade" /\ Mark(Reason("grading failed", Current))
        /\ Review(None, "grading failed")
        /\ UNCHANGED <<live, candidates, trace, limited, missing, source, evidence>>
    BY <1>9 DEF GradeTooLarge
  <2>2. reasons' \in Seq(Reasons)
    BY <1>8, <2>1, MarkIsTyped, ReasonsAreTyped
  <2> QED BY <1>1, <1>8, <2>1, <2>2, WithholdingExcuses, ReviewKeepsTypes
<1>10. CASE Grade
  <2>1. /\ pc = "grade" /\ Asks(source.trace.grades[Current])
        /\ trace' = [trace EXCEPT !.grades[Current] = "grade"]
        /\ Review("grade", None)
        /\ UNCHANGED <<live, candidates, reasons, limited, source, evidence>>
    BY <1>10 DEF Grade
  <2>2. trace' \in Traces
    <3>1. trace' = [trace EXCEPT !.grades[Current] = "grade"]
      BY <2>1, Zenon
    <3>2. Current \in Repos /\ trace \in Traces
      BY <1>1, <1>8, <2>1, Zenon
    <3> QED BY <3>1, <3>2, GradeRecord
  <2>3. missing' \in BOOLEAN
    BY <1>1, <2>1 DEF Asks
  <2> QED BY <1>1, <1>8, <2>1, <2>2, <2>3, ReviewKeepsTypes
<1>11. CASE GradeFails
  <2>1. /\ pc = "grade" /\ Asks(source.trace.grades[Current])
        /\ trace' = [trace EXCEPT !.grades[Current] = "fails"]
        /\ Mark(Reason("grading failed", Current))
        /\ Review(None, "grading failed")
        /\ UNCHANGED <<live, candidates, limited, source, evidence>>
    BY <1>11 DEF GradeFails
  <2>2. trace' \in Traces
    <3>1. trace' = [trace EXCEPT !.grades[Current] = "fails"]
      BY <2>1, Zenon
    <3>2. Current \in Repos /\ trace \in Traces
      BY <1>1, <1>8, <2>1, Zenon
    <3> QED BY <3>1, <3>2, GradeRecord
  <2>3. reasons' \in Seq(Reasons)
    BY <1>8, <2>1, MarkIsTyped, ReasonsAreTyped
  <2>4. missing' \in BOOLEAN
    BY <1>1, <2>1 DEF Asks
  <2> QED BY <1>1, <1>8, <2>1, <2>2, <2>3, <2>4, WithholdingExcuses, ReviewKeepsTypes
<1>12. CASE Finish
  <2>1. /\ pc = "read" /\ pc' = "evidence"
        /\ reasons' = reasons \o LateReasons(trace)
        /\ limited' = (limited \/ Observed(trace, {"limited"}) # <<>>)
        /\ UNCHANGED <<live, candidates, fetched, trace, reviewed, missing, source, evidence>>
    BY <1>12 DEF Finish
  <2>2. LateReasons(trace) \in Seq(Reasons)
    BY <1>1, <2>1, LateReasonsAreTyped DEF Progress
  <2>3. reasons' \in Seq(Reasons)
    BY <1>1, <2>1, <2>2, ConcatProperties
  <2>4. limited' \in BOOLEAN
    BY <1>1, <2>1
  <2> QED BY <1>1, <2>1, <2>3, <2>4 DEF TypeOK
<1>13. CASE Replay
  <2>1. /\ live' = FALSE
        /\ pc' = "clock" /\ candidates' = <<>> /\ fetched' = None
        /\ trace' = NothingYet /\ reviewed' = <<>> /\ reasons' = <<>> /\ limited' = FALSE
        /\ missing' = missing /\ evidence' = <<>>
    BY <1>13 DEF Replay
  <2>2. trace' \in Traces /\ reasons' \in Seq(Reasons) /\ reviewed' \in Seq(Reviews)
        /\ DOMAIN reviewed' = {} /\ Len(reviewed') <= Len(candidates')
        /\ evidence' \in Seq({"read", "absent", "fails"})
    BY <2>1, NothingIsTyped
  <2>3. candidates' \in Prefixes(Found)
    BY <2>1, NothingIsAPrefix
  <2> QED BY <1>1, <2>1, <2>2, <2>3 DEF TypeOK
<1> QED BY <1>2, <1>3, <1>4, <1>5, <1>6, <1>7, <1>9, <1>10, <1>11, <1>12, <1>13 DEF Deciding

-----------------------------------------------------------------------------
(* What is recorded at each stage. *)

\* A step that reviews the candidate in hand, by what it records of it, keeps
\* the records and the reviews in step.
LEMMA ReviewKeepsRecords ==
  ASSUME TypeOK, Progress, RecordsSoFar, ReviewsFollow, InHand,
         NEW grade \in {"grade", None}, NEW withheld \in Excuses \union {None},
         Review(grade, withheld), candidates' = candidates, trace' \in Traces,
         trace'.clock = trace.clock, trace'.search = trace.search, trace'.smoke = trace.smoke,
         trace'.files = trace.files, trace'.metadata = trace.metadata,
         \A c \in Repos : c # Current => trace'.grades[c] = trace.grades[c],
         Settled(trace', Current),
         Reworded(ReviewOf(Current, fetched.content, grade, withheld)) = ReviewIn(trace', Current)
  PROVE  Progress' /\ RecordsSoFar' /\ ReviewsFollow'
<1> DEFINE n == Len(reviewed)
           r == ReviewOf(Current, fetched.content, grade, withheld)
<1>1. n < Len(candidates) /\ fetched # None
  BY DEF Progress
<1>2. /\ Current \in Repos /\ n \in Nat /\ n + 1 \in DOMAIN candidates
      /\ DOMAIN reviewed = 1 .. n
      /\ \A k \in DOMAIN reviewed : candidates[k] \in Repos /\ candidates[k] # Current
  BY <1>1, CurrentIsNext
<1>3. /\ Len(reviewed') = n + 1 /\ DOMAIN reviewed' = 1 .. n + 1
      /\ Len(reviewed') <= Len(candidates')
      /\ reviewed'[n + 1] = r
      /\ \A k \in DOMAIN reviewed : reviewed'[k] = reviewed[k]
  BY <1>1, ReviewIsTyped DEF ReviewOf
<1>4. pc' = "read" /\ fetched' = None /\ candidates'[n + 1] = Current
  BY DEF Review, Current
<1>5. ~InHand' /\ ~Judged'
  BY <1>4 DEF InHand, Judged
<1>6. trace.search # None /\ trace.clock # None /\ trace.smoke # None
  BY DEF Progress, InHand
<1>7. Progress'
  BY <1>4, <1>5, <1>6 DEF Progress
<1>8. \A c \in Repos : c # Current =>
        /\ Settled(trace', c) <=> Settled(trace, c)
        /\ Untouched(trace', c) <=> Untouched(trace, c)
        /\ ReviewIn(trace', c) = ReviewIn(trace, c)
  BY SameRecords
<1>9. ASSUME NEW k \in DOMAIN reviewed'
      PROVE  /\ Settled(trace', candidates'[k])
             /\ Reworded(reviewed'[k]) = ReviewIn(trace', candidates'[k])
  <2>1. CASE k = n + 1
    BY <1>3, <1>4, <2>1
  <2>2. CASE k \in DOMAIN reviewed
    <3>1. Settled(trace, candidates[k]) /\ Reworded(reviewed[k]) = ReviewIn(trace, candidates[k])
      BY <2>2 DEF RecordsSoFar, ReviewsFollow
    <3>2. candidates[k] \in Repos /\ candidates[k] # Current /\ reviewed'[k] = reviewed[k]
      BY <1>2, <1>3, <2>2
    <3> QED BY <1>8, <3>1, <3>2
  <2> QED BY <1>2, <1>3, <2>1, <2>2
<1>10. ASSUME NEW c \in Repos
       PROVE  (\E k \in DOMAIN reviewed' : c = candidates'[k]) \/ Untouched(trace', c)
  <2>1. CASE c = Current
    BY <1>2, <1>3, <1>4, <2>1
  <2>2. CASE c # Current
    <3>1. (\E k \in DOMAIN reviewed : c = candidates[k]) \/ Untouched(trace, c)
      BY <2>2 DEF RecordsSoFar
    <3> QED BY <1>2, <1>3, <1>8, <2>2, <3>1
  <2> QED BY <2>1, <2>2
<1>11. RecordsSoFar'
  BY <1>5, <1>9, <1>10 DEF RecordsSoFar
<1>12. ReviewsFollow'
  BY <1>9 DEF ReviewsFollow
<1> QED BY <1>7, <1>11, <1>12

\* What the records of the candidate in hand say of it once the branch is taken.
LEMMA InHandIsRecorded ==
  ASSUME TypeOK, Progress, RecordsSoFar, pc \in {"grade", "withhold"}
  PROVE  /\ InHand /\ Current \in Repos /\ fetched \in Fetches
         /\ trace.files[Current] = Recorded(fetched)
         /\ trace.files[Current] # None /\ trace.files[Current].content = fetched.content
         /\ trace.files[Current].kind = "failure" <=> fetched.kind # "files"
         /\ fetched.content = None <=> fetched.kind # "files"
         /\ fetched.kind \in {"files", "FileFetchError", "Exception"}
         /\ fetched.content \in Contents \union {None}
         /\ trace.grades[Current] = None /\ trace.smoke \in BOOLEAN
         /\ MetadataSettled(trace, Current)
         /\ pc = "grade" <=> Gradeable
<1>1. InHand /\ fetched \in Fetches
  BY DEF InHand, Progress, TypeOK
<1>2. Current \in Repos
  BY <1>1, CurrentIsNext DEF Progress
<1>3. /\ trace.files[Current] = Recorded(fetched) /\ trace.grades[Current] = None
      /\ MetadataSettled(trace, Current)
      /\ pc = "grade" <=> Gradeable
  BY <1>1 DEF RecordsSoFar
<1>4. /\ Recorded(fetched) \in Records /\ Recorded(fetched).content = fetched.content
      /\ fetched.content \in Contents \union {None}
      /\ fetched.kind \in {"files", "FileFetchError", "Exception"}
      /\ fetched.content = None <=> fetched.kind # "files"
      /\ fetched.kind = "files" <=> Recorded(fetched).kind # "failure"
  BY <1>1, FetchesAreRecorded
<1>5. Recorded(fetched) # None
  BY <1>4, NoneIsNothing
<1>6. trace.smoke \in BOOLEAN
  <2>1. trace \in Traces /\ trace.smoke # None
    BY <1>1 DEF TypeOK, Progress, InHand
  <2>2. trace.smoke \in BOOLEAN \union {None}
    <3> HIDE DEF Repos, Records, Observations, Searches
    <3> QED BY <2>1 DEF Traces
  <2> QED BY <2>1, <2>2, Zenon
<1> QED BY <1>1, <1>2, <1>3, <1>4, <1>5, <1>6

\* Replays may word one excuse differently.
LEMMA RewordedReview ==
  \A repo, content, grade, withheld :
    Reworded(ReviewOf(repo, content, grade, withheld))
      = ReviewOf(repo, content, grade, Rewording(withheld))
BY DEF Reworded, ReviewOf

\* The review of a candidate that was not graded is what its records say.
LEMMA WithheldFollows ==
  ASSUME TypeOK, Progress, RecordsSoFar, pc = "withhold"
  PROVE  /\ Settled(trace, Current) /\ ~GradingFailed(trace, Current)
         /\ Reworded(ReviewOf(Current, fetched.content, None, Withholding))
              = ReviewIn(trace, Current)
<1> DEFINE f == trace.files[Current]
           g == trace.grades[Current]
<1>1. /\ f # None /\ f.content = fetched.content
      /\ f.kind = "failure" <=> fetched.kind # "files"
      /\ fetched.content = None <=> fetched.kind # "files"
      /\ fetched.kind \in {"files", "FileFetchError", "Exception"}
      /\ g = None /\ ~Gradeable /\ MetadataSettled(trace, Current)
  BY InHandIsRecorded
<1>2. g # "grade" /\ g # "fails"
  BY <1>1, NoneIsNothing
<1>3. ~(trace.smoke /\ fetched.content \in {"harmless", "too large"})
  BY <1>1, Zenon DEF Gradeable
<1>4. ~GradingFailed(trace, Current)
  BY <1>1, <1>2, <1>3, Zenon DEF GradingFailed
<1>5. Settled(trace, Current)
  BY <1>1, <1>3, Zenon DEF Settled
<1>6. ExcuseIn(trace, Current) = Rewording(Withholding)
  <2>1. ExcuseIn(trace, Current) =
          CASE f.kind = "failure"       -> "files could not be read, and why"
            [] f.content = "nothing"    -> "no readable source files"
            [] f.content = "malicious"  -> "screening found signals"
            [] g = "grade"              -> None
            [] GradingFailed(trace, Current) -> "grading failed"
            [] OTHER                    -> "model unavailable"
    BY DEF ExcuseIn
  <2> HIDE DEF f, g
  <2>2. CASE fetched.kind # "files"
    <3>1. f.content \notin {"nothing", "malicious"}
      BY <1>1, <2>2, NoneIsNothing DEF Contents
    <3>2. ExcuseIn(trace, Current) = "files could not be read, and why"
      BY <1>1, <1>2, <1>4, <2>1, <2>2, <3>1
    <3>3. Rewording(Withholding) = "files could not be read, and why"
      BY <1>1, <2>2, <3>1 DEF Withholding, Rewording
    <3> QED BY <3>2, <3>3
  <2>3. CASE fetched.kind = "files"
    BY <1>1, <1>2, <1>4, <2>1, <2>3 DEF Withholding, Rewording
  <2> QED BY <2>2, <2>3
<1>7. GradeIn(trace, Current) = None
  BY <1>2 DEF GradeIn
<1>8. ReviewIn(trace, Current)
        = ReviewOf(Current, fetched.content, None, Rewording(Withholding))
  BY <1>1, <1>6, <1>7 DEF ReviewIn
<1> QED BY <1>4, <1>5, <1>8, RewordedReview

\* The review of a candidate the model was to grade is what its records say.
LEMMA GradedFollows ==
  ASSUME TypeOK, Progress, RecordsSoFar, pc = "grade", NEW t,
         t.clock = trace.clock, t.smoke = trace.smoke, t.files = trace.files,
         t.metadata = trace.metadata,
         t.grades[Current] \in {"grade", "fails", None},
         (t.grades[Current] # None) <=> fetched.content = "harmless"
  PROVE  /\ Settled(t, Current)
         /\ GradingFailed(t, Current) <=> t.grades[Current] # "grade"
         /\ t.grades[Current] = "grade" =>
              Reworded(ReviewOf(Current, fetched.content, "grade", None)) = ReviewIn(t, Current)
         /\ t.grades[Current] # "grade" =>
              Reworded(ReviewOf(Current, fetched.content, None, "grading failed"))
                = ReviewIn(t, Current)
<1> DEFINE f == t.files[Current]
           g == t.grades[Current]
<1>1. /\ f # None /\ f.content = fetched.content
      /\ f.kind = "failure" <=> fetched.kind # "files"
      /\ fetched.content = None <=> fetched.kind # "files"
      /\ Gradeable /\ MetadataSettled(trace, Current)
  BY InHandIsRecorded
<1>2. t.smoke /\ fetched.content \in {"harmless", "too large"}
  BY <1>1, Zenon DEF Gradeable
<1>3. MetadataSettled(t, Current)
  BY <1>1 DEF MetadataSettled
<1>4. Settled(t, Current)
  BY <1>1, <1>2, <1>3, Zenon DEF Settled
<1>5. "grade" # "fails" /\ "grade" # None /\ "fails" # None
  BY NoneIsNothing
<1>6. GradingFailed(t, Current) <=> g # "grade"
  <2>1. CASE fetched.content = "harmless"
    <3>1. g = "grade" \/ g = "fails"
      BY <2>1
    <3> QED BY <1>1, <1>2, <1>5, <2>1, <3>1 DEF GradingFailed
  <2>2. CASE fetched.content = "too large"
    BY <1>1, <1>2, <1>5, <2>2 DEF GradingFailed
  <2> QED BY <1>2, <2>1, <2>2
<1>7. f.kind # "failure" /\ f.content \in {"harmless", "too large"}
  BY <1>1, <1>2, NoneIsNothing DEF Contents
<1>8. ExcuseIn(t, Current) = IF g = "grade" THEN None ELSE "grading failed"
  <2>1. ExcuseIn(t, Current) =
          CASE f.kind = "failure"       -> "files could not be read, and why"
            [] f.content = "nothing"    -> "no readable source files"
            [] f.content = "malicious"  -> "screening found signals"
            [] g = "grade"              -> None
            [] GradingFailed(t, Current) -> "grading failed"
            [] OTHER                    -> "model unavailable"
    BY DEF ExcuseIn
  <2> HIDE DEF f, g
  <2> QED BY <1>6, <1>7, <2>1
<1>9. Rewording(None) = None /\ Rewording("grading failed") = "grading failed"
  BY NoneIsNothing DEF Excuses, Rewording
<1>10. GradeIn(t, Current) = IF g = "grade" THEN "grade" ELSE None
  BY DEF GradeIn
<1>11. g = "grade" => ReviewIn(t, Current) = ReviewOf(Current, fetched.content, "grade", None)
  BY <1>1, <1>8, <1>10 DEF ReviewIn
<1>12. g # "grade" => ReviewIn(t, Current) = ReviewOf(Current, fetched.content, None, "grading failed")
  BY <1>1, <1>8, <1>10 DEF ReviewIn
<1>13. \A repo, content, grade, excuse : Rewording(excuse) = excuse =>
         Reworded(ReviewOf(repo, content, grade, excuse)) = ReviewOf(repo, content, grade, excuse)
  BY RewordedReview
<1>14. \A repo, content, grade :
         /\ Reworded(ReviewOf(repo, content, grade, None)) = ReviewOf(repo, content, grade, None)
         /\ Reworded(ReviewOf(repo, content, grade, "grading failed"))
              = ReviewOf(repo, content, grade, "grading failed")
  BY <1>9, <1>13, Zenon
<1> QED BY <1>4, <1>6, <1>11, <1>12, <1>13, <1>14, Zenon

\* A record of the candidate in hand leaves what was settled before it.
LEMMA OthersAreKept ==
  ASSUME TypeOK, RecordsSoFar, ReviewsFollow, Len(reviewed) < Len(candidates),
         UNCHANGED <<candidates, reviewed>>,
         trace'.clock = trace.clock, trace'.smoke = trace.smoke,
         \A c \in Repos : c # Current => /\ trace'.files[c] = trace.files[c]
                                         /\ trace'.metadata[c] = trace.metadata[c]
                                         /\ trace'.grades[c] = trace.grades[c]
  PROVE  /\ \A k \in DOMAIN reviewed' : Settled(trace', candidates'[k])
         /\ ReviewsFollow'
         /\ \A c \in Repos : \/ \E k \in DOMAIN reviewed' : c = candidates'[k]
                             \/ c = Current
                             \/ Untouched(trace', c)
<1>1. \A k \in DOMAIN reviewed : candidates[k] \in Repos /\ candidates[k] # Current
  BY CurrentIsNext
<1>2. \A c \in Repos : c # Current =>
        /\ Settled(trace', c) <=> Settled(trace, c)
        /\ Untouched(trace', c) <=> Untouched(trace, c)
        /\ ReviewIn(trace', c) = ReviewIn(trace, c)
  BY SameRecords
<1>3. ASSUME NEW k \in DOMAIN reviewed
      PROVE  /\ Settled(trace', candidates[k])
             /\ Reworded(reviewed[k]) = ReviewIn(trace', candidates[k])
  <2>1. Settled(trace, candidates[k]) /\ Reworded(reviewed[k]) = ReviewIn(trace, candidates[k])
    BY DEF RecordsSoFar, ReviewsFollow
  <2> QED BY <1>1, <1>2, <2>1
<1>4. ASSUME NEW c \in Repos, c # Current
      PROVE  (\E k \in DOMAIN reviewed : c = candidates[k]) \/ Untouched(trace', c)
  <2>1. (\E k \in DOMAIN reviewed : c = candidates[k]) \/ Untouched(trace, c)
    BY <1>4 DEF RecordsSoFar
  <2> QED BY <1>2, <1>4, <2>1
<1>5. ReviewsFollow'
  BY <1>3 DEF ReviewsFollow
<1> QED BY <1>3, <1>4, <1>5

\* Until the candidates are known, nothing is recorded of any of them.
LEMMA NothingReviewed ==
  ASSUME TypeOK, Progress, RecordsSoFar, pc \in {"clock", "search", "smoke"}
  PROVE  reviewed = <<>> /\ DOMAIN reviewed = {} /\ \A c \in Repos : Untouched(trace, c)
<1>1. reviewed = <<>> /\ ~InHand
  BY DEF Progress, InHand
<1>2. DOMAIN reviewed = {}
  BY <1>1
<1> QED BY <1>1, <1>2 DEF RecordsSoFar

\* What the records and the reviews have of each candidate stays in step.
LEMMA RecordsKept ==
  ASSUME TypeOK, Progress, RecordsSoFar, ReviewsFollow, SourceIsARun, Deciding
  PROVE  Progress' /\ RecordsSoFar' /\ ReviewsFollow'
<1>1. trace \in Traces /\ trace' \in Traces
  BY TypesKept DEF TypeOK
<1>2. ASSUME pc \in {"clock", "search", "smoke"}, ~InHand', reviewed' = reviewed,
             trace'.files = trace.files, trace'.metadata = trace.metadata,
             trace'.grades = trace.grades
      PROVE  RecordsSoFar' /\ ReviewsFollow'
  <2>1. DOMAIN reviewed' = {} /\ \A c \in Repos : Untouched(trace, c)
    BY <1>2, NothingReviewed
  <2>2. \A c \in Repos : Untouched(trace', c)
    BY <1>2, <2>1 DEF Untouched
  <2> QED BY <1>2, <2>1, <2>2 DEF RecordsSoFar, ReviewsFollow
<1>3. CASE ReadClock
  <2>1. PICK a \in Answers({"time", "fails"}, source.trace.clock, "fails") :
          /\ pc = "clock" /\ pc' = "search"
          /\ trace' = [trace EXCEPT !.clock = a]
          /\ UNCHANGED <<live, candidates, fetched, reviewed, reasons, limited, source, evidence>>
    BY <1>3 DEF ReadClock
  <2>2. a # None
    BY AnswersAreRecorded, NoneIsNothing
  <2>3. /\ trace'.clock = a /\ trace'.search = trace.search /\ trace'.smoke = trace.smoke
        /\ trace'.files = trace.files /\ trace'.metadata = trace.metadata
        /\ trace'.grades = trace.grades
    BY <1>1, <2>1, RunRecord
  <2>4. ~InHand' /\ ~Judged' /\ ~InHand
    BY <2>1 DEF InHand, Judged
  <2> QED BY <1>2, <2>1, <2>2, <2>3, <2>4 DEF Progress
<1>4. CASE Search
  <2>1. PICK a \in Answers(Searches, source.trace.search, SearchFails) :
          /\ pc = "search" /\ pc' = "smoke"
          /\ candidates' = a.found
          /\ trace' = [trace EXCEPT !.search = a]
          /\ UNCHANGED <<live, fetched, reviewed, limited, source, evidence>>
    BY <1>4 DEF Search
  <2>2. a # None
    BY AnswersAreRecorded, SearchesFind
  <2>3. /\ trace'.clock = trace.clock /\ trace'.search = a /\ trace'.smoke = trace.smoke
        /\ trace'.files = trace.files /\ trace'.metadata = trace.metadata
        /\ trace'.grades = trace.grades
    BY <1>1, <2>1, RunRecord
  <2>4. ~InHand' /\ ~Judged' /\ ~InHand
    BY <2>1 DEF InHand, Judged
  <2> QED BY <1>2, <2>1, <2>2, <2>3, <2>4 DEF Progress
<1>5. CASE Smoke
  <2>1. PICK a \in Answers(BOOLEAN, source.trace.smoke, FALSE) :
          /\ pc = "smoke" /\ pc' = "read"
          /\ trace' = [trace EXCEPT !.smoke = a]
          /\ UNCHANGED <<live, candidates, fetched, reviewed, reasons, limited, source, evidence>>
    BY <1>5, Zenon DEF Smoke
  <2>2. a # None
    BY AnswersAreRecorded, NoneIsNothing, Zenon
  <2>3. /\ trace'.clock = trace.clock /\ trace'.search = trace.search /\ trace'.smoke = a
        /\ trace'.files = trace.files /\ trace'.metadata = trace.metadata
        /\ trace'.grades = trace.grades
    BY <1>1, <2>1, RunRecord
  <2>4. ~InHand' /\ ~Judged' /\ ~InHand
    BY <2>1 DEF InHand, Judged
  <2> QED BY <1>2, <2>1, <2>2, <2>3, <2>4 DEF Progress
<1>6. CASE Read
  <2>1. /\ pc = "read" /\ Len(reviewed) < Len(candidates)
        /\ UNCHANGED <<live, candidates, reviewed, source, evidence>>
    BY <1>6 DEF Read
  <2>2. PICK a \in FileAnswers(Current) :
          /\ pc' = Screened(a) /\ fetched' = a
          /\ trace' = [trace EXCEPT !.files[Current] = Recorded(a)]
    BY <1>6 DEF Read
  <2>3. /\ Current \in Repos
        /\ \A k \in DOMAIN reviewed : candidates[k] # Current
    BY <2>1, CurrentIsNext
  <2>4. a \in Fetches
    BY <2>3, AnswersAreRecorded
  <2>5. a # None /\ Recorded(a) # None /\ Recorded(a).content = a.content
    BY <2>4, FetchesAreRecorded, NoneIsNothing
  <2>6. /\ trace'.clock = trace.clock /\ trace'.search = trace.search /\ trace'.smoke = trace.smoke
        /\ trace'.metadata = trace.metadata /\ trace'.grades = trace.grades
        /\ trace'.files[Current] = Recorded(a)
        /\ \A d \in Repos : d # Current => trace'.files[d] = trace.files[d]
    BY <1>1, <2>2, <2>3, FileRecord
  <2>7. Untouched(trace, Current)
    BY <2>1, <2>3 DEF RecordsSoFar, InHand
  <2>8. /\ \A k \in DOMAIN reviewed' : Settled(trace', candidates'[k])
        /\ ReviewsFollow'
        /\ \A c \in Repos : \/ \E k \in DOMAIN reviewed' : c = candidates'[k]
                            \/ c = Current
                            \/ Untouched(trace', c)
    BY <2>1, <2>6, OthersAreKept
  <2>9. Current' = Current /\ InHand' /\ ~Judged'
    BY <2>1, <2>2 DEF Current, InHand, Judged, Screened
  <2>10. Progress'
    BY <2>1, <2>2, <2>5, <2>6, <2>9 DEF Progress, Screened
  <2>11. /\ trace'.files[Current] = Recorded(fetched') /\ trace'.grades[Current] = None
         /\ trace'.metadata[Current] = None
    BY <2>2, <2>6, <2>7 DEF Untouched
  <2>12. CASE a.content = "malicious"
    <3>1. pc' = "withhold"
      BY <2>2, <2>12 DEF Screened
    <3>2. MetadataSettled(trace', Current)
      BY <2>5, <2>6, <2>11, <2>12 DEF MetadataSettled
    <3>3. ~Gradeable'
      BY <2>2, <2>12, Zenon DEF Gradeable
    <3> QED BY <2>8, <2>9, <2>10, <2>11, <3>1, <3>2, <3>3 DEF RecordsSoFar
  <2>13. CASE a.content # "malicious"
    <3>1. pc' = "observe" /\ fetched'.content # "malicious"
      BY <2>2, <2>13 DEF Screened
    <3> QED BY <2>8, <2>9, <2>10, <2>11, <3>1 DEF RecordsSoFar
  <2> QED BY <2>12, <2>13
<1>7. CASE Observe
  <2>1. /\ pc = "observe" /\ pc' = IF Gradeable THEN "grade" ELSE "withhold"
        /\ UNCHANGED <<live, candidates, fetched, reviewed, reasons, limited, source, evidence>>
    BY <1>7 DEF Observe
  <2>2. PICK a \in IF trace.clock = "fails" THEN {None}
                   ELSE Answers(Observations, source.trace.metadata[Current], "fails") :
          trace' = [trace EXCEPT !.metadata[Current] = a]
    BY <1>7 DEF Observe
  <2>3. Len(reviewed) < Len(candidates) /\ InHand /\ fetched # None
    BY <2>1 DEF Progress, InHand
  <2>4. Current \in Repos
    BY <2>3, CurrentIsNext
  <2>5. a = None <=> trace.clock = "fails"
    BY <2>2, <2>4, AnswersAreRecorded, NoneIsNothing
  <2>6. /\ trace'.clock = trace.clock /\ trace'.search = trace.search /\ trace'.smoke = trace.smoke
        /\ trace'.files = trace.files /\ trace'.grades = trace.grades
        /\ trace'.metadata[Current] = a
        /\ \A d \in Repos : d # Current => trace'.metadata[d] = trace.metadata[d]
    BY <1>1, <2>2, <2>4, MetadataRecord
  <2>7. /\ trace.files[Current] = Recorded(fetched) /\ trace.grades[Current] = None
        /\ fetched.content # "malicious"
    BY <2>1, <2>3 DEF RecordsSoFar
  <2>8. /\ \A k \in DOMAIN reviewed' : Settled(trace', candidates'[k])
        /\ ReviewsFollow'
        /\ \A c \in Repos : \/ \E k \in DOMAIN reviewed' : c = candidates'[k]
                            \/ c = Current
                            \/ Untouched(trace', c)
    BY <2>1, <2>3, <2>6, OthersAreKept
  <2>9. Current' = Current /\ InHand' /\ ~Judged'
    BY <2>1 DEF Current, InHand, Judged
  <2>10. Progress'
    BY <2>1, <2>3, <2>6, <2>9 DEF Progress
  <2>11. Gradeable' <=> Gradeable
    BY <2>1, <2>6 DEF Gradeable
  <2>12. MetadataSettled(trace', Current)
    <3>1. fetched \in Fetches
      BY <2>3 DEF TypeOK
    <3>2. Recorded(fetched).content # "malicious"
      BY <2>7, <3>1, FetchesAreRecorded
    <3> QED BY <2>5, <2>6, <2>7, <3>2 DEF MetadataSettled
  <2>13. pc' # "observe" /\ (pc' = "grade" <=> Gradeable') /\ (pc' = "withhold" <=> ~Gradeable')
    BY <2>1, <2>11
  <2>14. trace'.files[Current'] = Recorded(fetched') /\ trace'.grades[Current'] = None
    BY <2>1, <2>6, <2>7, <2>9
  <2>15. MetadataSettled(trace', Current')
    BY <2>9, <2>12
  <2> QED BY <2>8, <2>9, <2>10, <2>13, <2>14, <2>15 DEF RecordsSoFar
<1>8. CASE Withhold
  <2>1. /\ pc = "withhold" /\ Review(None, Withholding)
        /\ UNCHANGED <<live, candidates, trace, reasons, limited, missing, source, evidence>>
    BY <1>8 DEF Withhold
  <2>2. InHand
    BY <2>1 DEF InHand
  <2>3. /\ Settled(trace', Current)
        /\ Reworded(ReviewOf(Current, fetched.content, None, Withholding))
             = ReviewIn(trace', Current)
    BY <2>1, WithheldFollows
  <2> QED BY <1>1, <2>1, <2>2, <2>3, WithholdingExcuses, ReviewKeepsRecords
<1>9. ASSUME pc = "grade"
      PROVE  /\ InHand /\ Current \in Repos
             /\ trace.grades[Current] = None
  BY <1>9, InHandIsRecorded
<1>10. CASE GradeTooLarge
  <2>1. /\ pc = "grade" /\ fetched.content = "too large" /\ Review(None, "grading failed")
        /\ UNCHANGED <<live, candidates, trace, limited, missing, source, evidence>>
    BY <1>10 DEF GradeTooLarge
  <2>2. /\ Settled(trace', Current)
        /\ Reworded(ReviewOf(Current, fetched.content, None, "grading failed"))
             = ReviewIn(trace', Current)
    BY <1>9, <2>1, GradedFollows, NoneIsNothing
  <2> QED BY <1>1, <1>9, <2>1, <2>2, WithholdingExcuses, ReviewKeepsRecords
<1>11. CASE Grade
  <2>1. /\ pc = "grade" /\ fetched.content = "harmless" /\ Review("grade", None)
        /\ trace' = [trace EXCEPT !.grades[Current] = "grade"]
        /\ UNCHANGED <<live, candidates, reasons, limited, source, evidence>>
    BY <1>11 DEF Grade
  <2>2. /\ trace'.clock = trace.clock /\ trace'.search = trace.search /\ trace'.smoke = trace.smoke
        /\ trace'.files = trace.files /\ trace'.metadata = trace.metadata
        /\ trace'.grades[Current] = "grade"
        /\ \A d \in Repos : d # Current => trace'.grades[d] = trace.grades[d]
    BY <1>1, <1>9, <2>1, GradeRecord
  <2>3. /\ Settled(trace', Current)
        /\ Reworded(ReviewOf(Current, fetched.content, "grade", None))
             = ReviewIn(trace', Current)
    BY <1>9, <2>1, <2>2, GradedFollows, NoneIsNothing
  <2> QED BY <1>1, <1>9, <2>1, <2>2, <2>3, ReviewKeepsRecords
<1>12. CASE GradeFails
  <2>1. /\ pc = "grade" /\ fetched.content = "harmless" /\ Review(None, "grading failed")
        /\ trace' = [trace EXCEPT !.grades[Current] = "fails"]
        /\ UNCHANGED <<live, candidates, limited, source, evidence>>
    BY <1>12 DEF GradeFails
  <2>2. /\ trace'.clock = trace.clock /\ trace'.search = trace.search /\ trace'.smoke = trace.smoke
        /\ trace'.files = trace.files /\ trace'.metadata = trace.metadata
        /\ trace'.grades[Current] = "fails"
        /\ \A d \in Repos : d # Current => trace'.grades[d] = trace.grades[d]
    <3>1. trace' = [trace EXCEPT !.grades[Current] = "fails"]
      BY <2>1, Zenon
    <3>2. Current \in Repos /\ trace \in Traces
      BY <1>1, <1>9, <2>1, Zenon
    <3> QED BY <3>1, <3>2, GradeRecord
  <2>3. /\ Settled(trace', Current)
        /\ Reworded(ReviewOf(Current, fetched.content, None, "grading failed"))
             = ReviewIn(trace', Current)
    BY <1>9, <2>1, <2>2, GradedFollows, NoneIsNothing
  <2> QED BY <1>1, <1>9, <2>1, <2>2, <2>3, WithholdingExcuses, ReviewKeepsRecords
<1>13. CASE Finish
  <2>1. /\ pc = "read" /\ Len(reviewed) = Len(candidates) /\ pc' = "evidence"
        /\ UNCHANGED <<live, candidates, fetched, trace, reviewed, missing, source, evidence>>
    BY <1>13 DEF Finish
  <2>2. ~InHand /\ ~InHand' /\ Judged'
    BY <2>1 DEF InHand, Judged
  <2>3. Progress'
    BY <2>1, <2>2 DEF Progress
  <2>4. RecordsSoFar'
    BY <2>1, <2>2 DEF RecordsSoFar
  <2> QED BY <2>1, <2>3, <2>4 DEF ReviewsFollow
<1>14. CASE Replay
  <2>1. /\ pc' = "clock" /\ candidates' = <<>> /\ fetched' = None
        /\ trace' = NothingYet /\ reviewed' = <<>>
    BY <1>14 DEF Replay
  <2>2. ~InHand' /\ ~Judged'
    BY <2>1 DEF InHand, Judged
  <2>3. DOMAIN reviewed' = {}
    BY <2>1
  <2>4. Progress'
    BY <2>1, <2>2, NothingIsTyped DEF Progress
  <2>5. \A c \in Repos : Untouched(trace', c)
    BY <2>1, NothingIsTyped
  <2> QED BY <2>2, <2>3, <2>4, <2>5 DEF RecordsSoFar, ReviewsFollow
<1> QED BY <1>3, <1>4, <1>5, <1>6, <1>7, <1>8, <1>10, <1>11, <1>12, <1>13, <1>14 DEF Deciding

-----------------------------------------------------------------------------
(* What a replay finds. *)

\* An artifact that can be replayed has the whole outcome of the run.
LEMMA ArtifactIsTheRun ==
  ASSUME TypeOK, NEW mode \in SourceModes, Replayable(mode)
  PROVE  /\ Artifact(mode).trace = trace /\ Artifact(mode).reviewed = reviewed
         /\ Artifact(mode).reasons = reasons /\ Artifact(mode).limited = limited
<1>1. trace \in Traces
  BY DEF TypeOK
<1>2. \A c \in Repos : trace.files[c] \in Records \union {None}
  <2> HIDE DEF Repos, Records, Observations, Searches
  <2> QED BY <1>1 DEF Traces
<1>3. ASSUME NEW c \in Repos
      PROVE  Kept(trace.files[c], mode) = trace.files[c]
  <2>1. CASE mode = "full-source"
    BY <2>1 DEF Kept
  <2>2. CASE trace.files[c] = None
    BY <2>2 DEF Kept
  <2>3. CASE mode # "full-source" /\ trace.files[c] # None
    <3>1. trace.files[c].kind # "files"
      BY <2>3 DEF Replayable
    <3>2. trace.files[c].kind = "failure"
      BY <1>2, <2>3, <3>1, RecordsAreReplayed
    <3> QED BY <3>2 DEF Kept
  <2> QED BY <2>1, <2>2, <2>3
<1>4. [c \in Repos |-> Kept(trace.files[c], mode)] = [c \in Repos |-> trace.files[c]]
  BY <1>3
<1>5. \A files : files = [c \in Repos |-> trace.files[c]] => [trace EXCEPT !.files = files] = trace
  <2> HIDE DEF Repos, Records, Observations, Searches
  <2> QED BY <1>1 DEF Traces
<1>6. [trace EXCEPT !.files = [c \in Repos |-> Kept(trace.files[c], mode)]] = trace
  BY <1>4, <1>5
<1> QED BY <1>6 DEF Artifact

\* A replay asks the ports only about candidates that the run had reviewed.
LEMMA ReplayedCandidate ==
  ASSUME TypeOK, Progress, SourceIsARun, ReplayAgrees, ~live,
         Len(reviewed) < Len(candidates), trace.search # None
  PROVE  Current \in Repos /\ Settled(source.trace, Current)
<1>1. Current \in Repos /\ Len(reviewed) + 1 \in DOMAIN candidates
  BY CurrentIsNext
<1>2. candidates = source.trace.search.found
  BY DEF Progress, ReplayAgrees
<1>3. \A k \in DOMAIN source.trace.search.found :
        Settled(source.trace, source.trace.search.found[k])
  BY Zenon DEF SourceIsARun
<1> QED BY <1>1, <1>2, <1>3 DEF Current

\* The artifact that is replayed does not change.
LEMMA SourceStays ==
  ASSUME SourceIsARun, UNCHANGED <<live, source>>
  PROVE  SourceIsARun'
BY DEF SourceIsARun

\* A replay finds every answer it asks for, and records it again.
LEMMA ReplayKept ==
  ASSUME TypeOK, Progress, RecordsSoFar, SourceIsARun, ReplayAgrees, Deciding
  PROVE  ReplayAgrees'
<1>1. trace \in Traces /\ missing = FALSE
  BY DEF TypeOK, ReplayAgrees
<1>2. ~live => source.trace.clock # None /\ source.trace.search # None /\ source.trace.smoke # None
  BY Zenon DEF SourceIsARun
<1>3. ~live =>
        /\ trace.clock \in {None, source.trace.clock}
        /\ trace.search \in {None, source.trace.search}
        /\ trace.smoke \in {None, source.trace.smoke}
        /\ \A c \in Repos :
             /\ trace.files[c] \in {None, source.trace.files[c]}
             /\ trace.metadata[c] \in {None, source.trace.metadata[c]}
             /\ trace.grades[c] \in {None, source.trace.grades[c]}
  BY Zenon DEF ReplayAgrees
<1>4. ASSUME UNCHANGED <<live, source, trace, missing>>
      PROVE  ReplayAgrees'
  BY <1>4 DEF ReplayAgrees
<1>5. CASE ReadClock
  <2>1. PICK a \in Answers({"time", "fails"}, source.trace.clock, "fails") :
          /\ Asks(source.trace.clock)
          /\ trace' = [trace EXCEPT !.clock = a]
          /\ UNCHANGED <<live, source>>
    BY <1>5 DEF ReadClock
  <2>2. ~live => a = source.trace.clock
    BY <1>2, AnswersAreRecorded
  <2>3. /\ trace'.clock = a /\ trace'.search = trace.search /\ trace'.smoke = trace.smoke
        /\ trace'.files = trace.files /\ trace'.metadata = trace.metadata
        /\ trace'.grades = trace.grades
    BY <1>1, <2>1, RunRecord
  <2>4. ~missing'
    BY <1>1, <1>2, <2>1 DEF Asks
  <2> QED BY <1>3, <2>1, <2>2, <2>3, <2>4 DEF ReplayAgrees
<1>6. CASE Search
  <2>1. PICK a \in Answers(Searches, source.trace.search, SearchFails) :
          /\ Asks(source.trace.search)
          /\ trace' = [trace EXCEPT !.search = a]
          /\ UNCHANGED <<live, source>>
    BY <1>6 DEF Search
  <2>2. ~live => a = source.trace.search
    BY <1>2, AnswersAreRecorded
  <2>3. /\ trace'.clock = trace.clock /\ trace'.search = a /\ trace'.smoke = trace.smoke
        /\ trace'.files = trace.files /\ trace'.metadata = trace.metadata
        /\ trace'.grades = trace.grades
    BY <1>1, <2>1, RunRecord
  <2>4. ~missing'
    BY <1>1, <1>2, <2>1 DEF Asks
  <2> QED BY <1>3, <2>1, <2>2, <2>3, <2>4 DEF ReplayAgrees
<1>7. CASE Smoke
  <2>1. PICK a \in Answers(BOOLEAN, source.trace.smoke, FALSE) :
          /\ Asks(source.trace.smoke)
          /\ trace' = [trace EXCEPT !.smoke = a]
          /\ UNCHANGED <<live, source>>
    BY <1>7, Zenon DEF Smoke
  <2>2. ~live => a = source.trace.smoke
    BY <1>2, AnswersAreRecorded, Zenon
  <2>3. /\ trace'.clock = trace.clock /\ trace'.search = trace.search /\ trace'.smoke = a
        /\ trace'.files = trace.files /\ trace'.metadata = trace.metadata
        /\ trace'.grades = trace.grades
    BY <1>1, <2>1, RunRecord
  <2>4. ~missing'
    BY <1>1, <1>2, <2>1 DEF Asks
  <2> QED BY <1>3, <2>1, <2>2, <2>3, <2>4, Zenon DEF ReplayAgrees
<1>8. CASE Read
  <2>1. /\ pc = "read" /\ Len(reviewed) < Len(candidates)
        /\ UNCHANGED <<live, candidates, reviewed, source, evidence>>
        /\ Asks(source.trace.files[Current])
    BY <1>8 DEF Read
  <2>2. PICK a \in FileAnswers(Current) :
          trace' = [trace EXCEPT !.files[Current] = Recorded(a)]
    BY <1>8 DEF Read
  <2>3. Current \in Repos
    BY <2>1, CurrentIsNext
  <2>4. ~live => source.trace.files[Current] # None
    BY <2>1, ReplayedCandidate DEF Progress, Settled
  <2>5. ~live => Recorded(a) = source.trace.files[Current]
    BY <2>3, <2>4, AnswersAreRecorded
  <2>6. /\ trace'.clock = trace.clock /\ trace'.search = trace.search /\ trace'.smoke = trace.smoke
        /\ trace'.metadata = trace.metadata /\ trace'.grades = trace.grades
        /\ trace'.files[Current] = Recorded(a)
        /\ \A d \in Repos : d # Current => trace'.files[d] = trace.files[d]
    <3> HIDE DEF Current, Recorded, Repos, Records, Observations, Searches
    <3> QED BY <1>1, <2>2, <2>3 DEF Traces
  <2>7. ~missing'
    BY <1>1, <2>1, <2>4 DEF Asks
  <2>8. ~live => \A c \in Repos : trace'.files[c] \in {None, source.trace.files[c]}
    BY <1>3, <2>5, <2>6
  <2> QED BY <1>3, <2>1, <2>6, <2>7, <2>8 DEF ReplayAgrees
<1>9. CASE Observe
  <2>1. /\ pc = "observe" /\ UNCHANGED <<live, candidates, fetched, reviewed, source, evidence>>
        /\ IF trace.clock = "fails" THEN UNCHANGED missing ELSE Asks(source.trace.metadata[Current])
    BY <1>9 DEF Observe
  <2>2. PICK a \in IF trace.clock = "fails" THEN {None}
                   ELSE Answers(Observations, source.trace.metadata[Current], "fails") :
          trace' = [trace EXCEPT !.metadata[Current] = a]
    BY <1>9 DEF Observe
  <2>3. InHand /\ Len(reviewed) < Len(candidates) /\ trace.search # None /\ trace.clock # None
        /\ fetched \in Fetches
    BY <2>1 DEF Progress, InHand, TypeOK
  <2>4. Current \in Repos
    BY <2>3, CurrentIsNext
  <2>5. trace.files[Current] # None /\ trace.files[Current].content # "malicious"
    <3>1. trace.files[Current] = Recorded(fetched) /\ fetched.content # "malicious"
      BY <2>1, <2>3 DEF RecordsSoFar
    <3> QED BY <2>3, <3>1, FetchesAreRecorded, NoneIsNothing
  <2>6. ASSUME ~live
        PROVE  source.trace.metadata[Current] = None <=> trace.clock = "fails"
    <3>1. MetadataSettled(source.trace, Current)
      BY <2>3, <2>6, ReplayedCandidate DEF Settled
    <3>2. /\ source.trace.files[Current] = trace.files[Current]
          /\ source.trace.clock = trace.clock
      BY <1>3, <2>3, <2>4, <2>5, <2>6
    <3> QED BY <2>5, <3>1, <3>2 DEF MetadataSettled
  <2>7. ~live => a \in {None, source.trace.metadata[Current]}
    BY <2>2, <2>4, <2>6, AnswersAreRecorded
  <2>8. /\ trace'.clock = trace.clock /\ trace'.search = trace.search /\ trace'.smoke = trace.smoke
        /\ trace'.files = trace.files /\ trace'.grades = trace.grades
        /\ trace'.metadata[Current] = a
        /\ \A d \in Repos : d # Current => trace'.metadata[d] = trace.metadata[d]
    BY <1>1, <2>2, <2>4, MetadataRecord
  <2>9. ~missing'
    BY <1>1, <2>1, <2>6 DEF Asks
  <2>10. ~live => \A c \in Repos : trace'.metadata[c] \in {None, source.trace.metadata[c]}
    BY <1>3, <2>7, <2>8
  <2> QED BY <1>3, <2>1, <2>8, <2>9, <2>10 DEF ReplayAgrees
<1>10. CASE Withhold \/ GradeTooLarge
  BY <1>4, <1>10 DEF Withhold, GradeTooLarge
<1>11. ASSUME NEW a \in Answers({"grade", "fails"}, source.trace.grades[Current], "fails"),
              pc = "grade", fetched.content = "harmless", Asks(source.trace.grades[Current]),
              trace' = [trace EXCEPT !.grades[Current] = a], UNCHANGED <<live, source>>
       PROVE  ReplayAgrees'
  <2>1. /\ InHand /\ Current \in Repos /\ trace.files[Current] # None
        /\ trace.files[Current].content = "harmless" /\ Gradeable
    BY <1>11, InHandIsRecorded
  <2>2. Len(reviewed) < Len(candidates) /\ trace.search # None /\ trace.smoke # None
    BY <2>1 DEF Progress, InHand
  <2>3. ASSUME ~live
        PROVE  source.trace.grades[Current] # None
    <3>1. (source.trace.grades[Current] # None)
            <=> (source.trace.smoke /\ source.trace.files[Current].content = "harmless")
      BY <2>2, <2>3, ReplayedCandidate, Zenon DEF Settled
    <3>2. /\ source.trace.files[Current] = trace.files[Current]
          /\ source.trace.smoke = trace.smoke
      BY <1>3, <2>1, <2>2, <2>3
    <3>3. source.trace.smoke
      BY <2>1, <3>2, Zenon DEF Gradeable
    <3> QED BY <2>1, <3>1, <3>2, <3>3, Zenon
  <2>4. ~live => a = source.trace.grades[Current]
    BY <2>1, <2>3, AnswersAreRecorded
  <2>5. a \in {"grade", "fails"}
    BY <2>1, AnswersAreRecorded
  <2>6. /\ trace'.clock = trace.clock /\ trace'.search = trace.search /\ trace'.smoke = trace.smoke
        /\ trace'.files = trace.files /\ trace'.metadata = trace.metadata
        /\ trace'.grades[Current] = a
        /\ \A d \in Repos : d # Current => trace'.grades[d] = trace.grades[d]
    BY <1>1, <1>11, <2>1, GradeRecord
  <2>7. ~missing'
    BY <1>1, <1>11, <2>3 DEF Asks
  <2>8. ~live => \A c \in Repos : trace'.grades[c] \in {None, source.trace.grades[c]}
    BY <1>3, <2>4, <2>6
  <2> QED BY <1>3, <1>11, <2>6, <2>7, <2>8 DEF ReplayAgrees
<1>12. CASE Grade
  BY <1>11, <1>12, Zenon DEF Grade
<1>13. CASE GradeFails
  BY <1>11, <1>13, Zenon DEF GradeFails
<1>14. CASE Finish
  BY <1>4, <1>14 DEF Finish
<1>15. CASE Replay
  <2>1. live' = FALSE /\ trace' = NothingYet /\ missing' = missing
    BY <1>15 DEF Replay
  <2>2. \A c \in Repos : /\ trace'.files[c] = None /\ trace'.metadata[c] = None
                         /\ trace'.grades[c] = None
    BY <2>1, NothingIsTyped DEF Untouched
  <2>3. trace'.clock = None /\ trace'.search = None /\ trace'.smoke = None
    BY <2>1, NothingIsTyped
  <2> QED BY <1>1, <2>1, <2>2, <2>3 DEF ReplayAgrees
<1> QED BY <1>5, <1>6, <1>7, <1>8, <1>9, <1>10, <1>12, <1>13, <1>14, <1>15 DEF Deciding

-----------------------------------------------------------------------------
(* What was lost is said. *)

\* A review adds to what was lost the grade that its candidate should have had.
LEMMA ReviewKeepsLosses ==
  ASSUME TypeOK, Progress, LossesSoFar, InHand,
         NEW grade \in {"grade", None}, NEW withheld \in Excuses \union {None},
         Review(grade, withheld), candidates' = candidates, limited' = limited,
         trace'.clock = trace.clock, trace'.search = trace.search, trace'.smoke = trace.smoke,
         trace'.files = trace.files, trace'.metadata = trace.metadata,
         \A c \in Repos : c # Current => trace'.grades[c] = trace.grades[c],
         reasons' = <<>> <=> reasons = <<>> /\ ~GradingFailed(trace', Current)
  PROVE  LossesSoFar'
<1> DEFINE n == Len(reviewed)
<1>1. n < Len(candidates) /\ fetched # None /\ ~Judged /\ ~Judged'
  BY DEF Progress, InHand, Judged, Review
<1>2. /\ Current \in Repos /\ n \in Nat
      /\ DOMAIN reviewed = 1 .. n
      /\ \A k \in DOMAIN reviewed : candidates[k] \in Repos /\ candidates[k] # Current
  BY <1>1, CurrentIsNext
<1>3. DOMAIN reviewed' = 1 .. n + 1
  BY <1>1, ReviewIsTyped
<1>4. candidates'[n + 1] = Current
  BY DEF Current
<1>5. \A k \in DOMAIN reviewed :
        GradingFailed(trace', candidates'[k]) <=> GradingFailed(trace, candidates[k])
  BY <1>2 DEF GradingFailed
<1>6. (\A k \in DOMAIN reviewed' : ~GradingFailed(trace', candidates'[k]))
        <=> /\ \A k \in DOMAIN reviewed : ~GradingFailed(trace, candidates[k])
            /\ ~GradingFailed(trace', Current)
  <2>1. \A k \in DOMAIN reviewed' : k \in DOMAIN reviewed \/ k = n + 1
    BY <1>2, <1>3
  <2>2. n + 1 \in DOMAIN reviewed' /\ \A k \in DOMAIN reviewed : k \in DOMAIN reviewed'
    BY <1>2, <1>3
  <2> QED BY <1>4, <1>5, <2>1, <2>2
<1>7. NothingLost' <=> NothingLost /\ ~GradingFailed(trace', Current)
  BY <1>6 DEF NothingLost
<1>8. QuotaRanOut(trace') <=> QuotaRanOut(trace)
  BY DEF QuotaRanOut
<1> QED BY <1>1, <1>7, <1>8 DEF LossesSoFar

\* What a step loses it says, and what it says was lost.
LEMMA LossesKept ==
  ASSUME TypeOK, Progress, RecordsSoFar, LossesSoFar, SourceIsARun, Deciding
  PROVE  LossesSoFar'
<1>1. trace \in Traces /\ reasons \in Seq(Reasons) /\ limited \in BOOLEAN
  BY DEF TypeOK
<1>2. ASSUME ~Judged, ~Judged', reasons' = reasons, limited' = limited, NothingLost' <=> NothingLost,
             trace'.files = trace.files
      PROVE  LossesSoFar'
  BY <1>2 DEF LossesSoFar, QuotaRanOut
<1>3. ASSUME pc \in {"clock", "search", "smoke"}, reviewed' = reviewed, trace'.files = trace.files
      PROVE  /\ \A c \in Repos : trace.files[c] = None /\ trace'.files[c] = None
             /\ DOMAIN reviewed' = {}
             /\ NothingLost' <=> (trace'.search # None => trace'.search.complete)
             /\ NothingLost <=> (trace.search # None => trace.search.complete)
  <2>1. DOMAIN reviewed = {} /\ \A c \in Repos : Untouched(trace, c)
    BY <1>3, NothingReviewed
  <2>2. \A c \in Repos : trace.files[c] = None
    BY <2>1 DEF Untouched
  <2>3. DOMAIN reviewed' = {} /\ \A c \in Repos : trace'.files[c] = None
    BY <1>3, <2>1, <2>2
  <2>4. NothingLost' <=> (trace'.search # None => trace'.search.complete)
    BY <2>3 DEF NothingLost
  <2>5. NothingLost <=> (trace.search # None => trace.search.complete)
    BY <2>1, <2>2 DEF NothingLost
  <2> QED BY <2>2, <2>3, <2>4, <2>5
<1>4. CASE ReadClock
  <2>1. PICK a \in Answers({"time", "fails"}, source.trace.clock, "fails") :
          /\ pc = "clock" /\ pc' = "search"
          /\ trace' = [trace EXCEPT !.clock = a]
          /\ UNCHANGED <<reviewed, reasons, limited>>
    BY <1>4 DEF ReadClock
  <2>2. trace'.search = trace.search /\ trace'.files = trace.files
    BY <1>1, <2>1, RunRecord
  <2> QED BY <1>2, <1>3, <2>1, <2>2 DEF Judged
<1>5. CASE Search
  <2>1. PICK a \in Answers(Searches, source.trace.search, SearchFails) :
          /\ pc = "search" /\ pc' = "smoke"
          /\ trace' = [trace EXCEPT !.search = a]
          /\ IF a.complete THEN UNCHANGED reasons ELSE Mark(Reason("collection stopped", None))
          /\ UNCHANGED <<reviewed, limited>>
    BY <1>5 DEF Search
  <2>2. a # None /\ a.complete \in BOOLEAN
    BY AnswersAreRecorded, SearchesFind
  <2>3. trace'.search = a /\ trace'.files = trace.files
    BY <1>1, <2>1, RunRecord
  <2>4. /\ NothingLost' <=> a.complete
        /\ NothingLost
        /\ ~QuotaRanOut(trace) /\ ~QuotaRanOut(trace')
    <3>1. trace.search = None
      BY <2>1 DEF Progress
    <3> QED BY <1>3, <2>1, <2>2, <2>3, <3>1 DEF QuotaRanOut
  <2>5. ~Judged /\ ~Judged'
    BY <2>1 DEF Judged
  <2>6. reasons = <<>> /\ ~limited
    BY <2>4, <2>5 DEF LossesSoFar
  <2>7. ~a.complete => reasons' # <<>>
    <3>1. With(reasons, Reason("collection stopped", None)) # <<>>
      BY <1>1, MarkingSays, ReasonsAreTyped
    <3> QED BY <2>1, <3>1 DEF Mark
  <2>8. a.complete => reasons' = <<>>
    BY <2>1, <2>6
  <2> QED BY <2>1, <2>2, <2>4, <2>5, <2>6, <2>7, <2>8 DEF LossesSoFar
<1>6. CASE Smoke
  <2>1. PICK a \in Answers(BOOLEAN, source.trace.smoke, FALSE) :
          /\ pc = "smoke" /\ pc' = "read"
          /\ trace' = [trace EXCEPT !.smoke = a]
          /\ UNCHANGED <<reviewed, reasons, limited>>
    BY <1>6, Zenon DEF Smoke
  <2>2. trace'.search = trace.search /\ trace'.files = trace.files
    BY <1>1, <2>1, RunRecord
  <2> QED BY <1>2, <1>3, <2>1, <2>2 DEF Judged
<1>7. CASE Read
  <2>1. /\ pc = "read" /\ Len(reviewed) < Len(candidates)
        /\ UNCHANGED <<candidates, reviewed>>
    BY <1>7 DEF Read
  <2>2. PICK a \in FileAnswers(Current) :
          /\ pc' = Screened(a)
          /\ trace' = [trace EXCEPT !.files[Current] = Recorded(a)]
          /\ limited' = (limited \/ a.quota)
          /\ IF a.complete THEN UNCHANGED reasons ELSE Mark(FetchReason(a, Current))
    BY <1>7, Zenon DEF Read
  <2>3. /\ Current \in Repos
        /\ \A k \in DOMAIN reviewed : candidates[k] \in Repos /\ candidates[k] # Current
    BY <2>1, CurrentIsNext
  <2>4. a \in Fetches
    BY <2>3, AnswersAreRecorded
  <2>5. /\ Recorded(a) # None /\ Recorded(a).complete = a.complete /\ Recorded(a).quota = a.quota
        /\ a.complete \in BOOLEAN /\ a.quota \in BOOLEAN
    BY <2>4, FetchesAreRecorded, NoneIsNothing
  <2>6. /\ trace'.search = trace.search /\ trace'.smoke = trace.smoke
        /\ trace'.grades = trace.grades
        /\ trace'.files[Current] = Recorded(a)
        /\ \A d \in Repos : d # Current => trace'.files[d] = trace.files[d]
    <3>1. trace \in Traces
      BY <1>1
    <3>2. trace' = [trace EXCEPT !.files[Current] = Recorded(a)]
      BY <2>2, Zenon
    <3> HIDE DEF Current, Recorded, Repos, Records, Observations, Searches
    <3> QED BY <2>3, <3>1, <3>2 DEF Traces
  <2>7. trace.files[Current] = None
    BY <2>1, <2>3 DEF RecordsSoFar, InHand, Untouched
  <2>8. \A k \in DOMAIN reviewed :
          GradingFailed(trace', candidates[k]) <=> GradingFailed(trace, candidates[k])
    BY <2>3, <2>6 DEF GradingFailed
  <2>9. (\A c \in Repos : trace'.files[c] # None => trace'.files[c].complete)
          <=> (\A c \in Repos : trace.files[c] # None => trace.files[c].complete) /\ a.complete
    BY <2>3, <2>5, <2>6, <2>7
  <2>10. NothingLost' <=> NothingLost /\ a.complete
    BY <2>1, <2>6, <2>8, <2>9 DEF NothingLost
  <2>11. QuotaRanOut(trace') <=> QuotaRanOut(trace) \/ a.quota
    BY <2>3, <2>5, <2>6, <2>7 DEF QuotaRanOut
  <2>12. ~Judged /\ ~Judged'
    BY <2>1, <2>2 DEF Judged, Screened
  <2>13. ~a.complete => reasons' # <<>>
    <3>1. With(reasons, FetchReason(a, Current)) # <<>>
      BY <1>1, <2>3, MarkingSays, ReasonsAreTyped
    <3> QED BY <2>2, <3>1 DEF Mark
  <2>14. a.complete => reasons' = reasons
    BY <2>2
  <2>15. limited' <=> limited \/ a.quota
    BY <2>2
  <2> QED BY <2>5, <2>10, <2>11, <2>12, <2>13, <2>14, <2>15 DEF LossesSoFar
<1>8. CASE Observe
  <2>1. /\ pc = "observe" /\ pc' = IF Gradeable THEN "grade" ELSE "withhold"
        /\ UNCHANGED <<candidates, reviewed, reasons, limited>>
    BY <1>8 DEF Observe
  <2>2. \E a : trace' = [trace EXCEPT !.metadata[Current] = a]
    BY <1>8 DEF Observe
  <2>3. /\ trace'.search = trace.search /\ trace'.smoke = trace.smoke
        /\ trace'.files = trace.files /\ trace'.grades = trace.grades
    <3>1. Current \in Repos
      BY <2>1, CurrentIsNext DEF Progress, InHand
    <3> QED BY <1>1, <2>2, <3>1, MetadataRecord
  <2>4. NothingLost' <=> NothingLost
    BY <2>1, <2>3 DEF NothingLost, GradingFailed
  <2>5. ~Judged /\ ~Judged'
    BY <2>1 DEF Judged
  <2> QED BY <1>2, <2>1, <2>3, <2>4, <2>5
<1>9. CASE Withhold
  <2>1. /\ pc = "withhold" /\ Review(None, Withholding)
        /\ UNCHANGED <<live, candidates, trace, reasons, limited, missing, source, evidence>>
    BY <1>9 DEF Withhold
  <2>2. InHand /\ ~GradingFailed(trace', Current)
    BY <2>1, WithheldFollows DEF InHand
  <2> QED BY <2>1, <2>2, WithholdingExcuses, ReviewKeepsLosses
<1>10. ASSUME pc = "grade"
       PROVE  /\ InHand /\ Current \in Repos
              /\ trace.grades[Current] = None
              /\ With(reasons, Reason("grading failed", Current)) # <<>>
  <2>1. InHand /\ Current \in Repos /\ trace.grades[Current] = None
    BY <1>10, InHandIsRecorded
  <2> QED BY <1>1, <2>1, MarkingSays, ReasonsAreTyped
<1>11. CASE GradeTooLarge
  <2>1. /\ pc = "grade" /\ fetched.content = "too large"
        /\ UNCHANGED <<live, candidates, trace, limited, missing, source, evidence>>
    BY <1>11 DEF GradeTooLarge
  <2>2. Review(None, "grading failed")
    BY <1>11, Zenon DEF GradeTooLarge
  <2>3. reasons' # <<>>
    <3>1. reasons' = With(reasons, Reason("grading failed", Current))
      BY <1>11, Zenon DEF GradeTooLarge, Mark
    <3> QED BY <1>10, <2>1, <3>1
  <2>4. GradingFailed(trace', Current)
    BY <1>10, <2>1, GradedFollows, NoneIsNothing
  <2> QED BY <1>10, <2>1, <2>2, <2>3, <2>4, WithholdingExcuses, ReviewKeepsLosses
<1>12. ASSUME NEW a \in {"grade", "fails"}, pc = "grade", fetched.content = "harmless",
              trace' = [trace EXCEPT !.grades[Current] = a]
       PROVE  /\ trace'.clock = trace.clock /\ trace'.search = trace.search
              /\ trace'.smoke = trace.smoke
              /\ trace'.files = trace.files /\ trace'.metadata = trace.metadata
              /\ \A d \in Repos : d # Current => trace'.grades[d] = trace.grades[d]
              /\ GradingFailed(trace', Current) <=> a # "grade"
  <2>1. /\ trace'.clock = trace.clock /\ trace'.search = trace.search
        /\ trace'.smoke = trace.smoke
        /\ trace'.files = trace.files /\ trace'.metadata = trace.metadata
        /\ \A d \in Repos : d # Current => trace'.grades[d] = trace.grades[d]
        /\ trace'.grades[Current] = a
    <3>1. Current \in Repos
      BY <1>10, <1>12
    <3>2. trace \in Traces
      BY <1>1
    <3> QED BY <1>12, <3>1, <3>2, GradeRecord
  <2>2. trace'.grades[Current] \in {"grade", "fails", None} /\ trace'.grades[Current] # None
    BY <2>1, NoneIsNothing
  <2>3. GradingFailed(trace', Current) <=> a # "grade"
    BY <1>12, <2>1, <2>2, GradedFollows
  <2> QED BY <2>1, <2>3
<1>13. CASE Grade
  <2>1. /\ pc = "grade" /\ fetched.content = "harmless" /\ Review("grade", None)
        /\ trace' = [trace EXCEPT !.grades[Current] = "grade"]
        /\ UNCHANGED <<live, candidates, reasons, limited, source, evidence>>
    BY <1>13 DEF Grade
  <2> QED BY <1>10, <1>12, <2>1, ReviewKeepsLosses
<1>14. CASE GradeFails
  <2>1. /\ pc = "grade" /\ fetched.content = "harmless"
        /\ trace' = [trace EXCEPT !.grades[Current] = "fails"]
        /\ UNCHANGED <<live, candidates, limited, source, evidence>>
    BY <1>14, Zenon DEF GradeFails
  <2>2. Review(None, "grading failed")
    BY <1>14, Zenon DEF GradeFails
  <2>3. reasons' # <<>>
    <3>1. reasons' = With(reasons, Reason("grading failed", Current))
      BY <1>14, Zenon DEF GradeFails, Mark
    <3> QED BY <1>10, <2>1, <3>1
  <2>4. /\ trace'.clock = trace.clock /\ trace'.search = trace.search
        /\ trace'.smoke = trace.smoke
        /\ trace'.files = trace.files /\ trace'.metadata = trace.metadata
        /\ \A d \in Repos : d # Current => trace'.grades[d] = trace.grades[d]
        /\ GradingFailed(trace', Current)
    BY <1>12, <2>1
  <2> QED BY <1>10, <2>1, <2>2, <2>3, <2>4, WithholdingExcuses, ReviewKeepsLosses
<1>15. CASE Finish
  <2>1. /\ pc = "read" /\ pc' = "evidence"
        /\ UNCHANGED <<candidates, trace, reviewed>>
    BY <1>15 DEF Finish
  <2>2. reasons' = reasons \o LateReasons(trace)
    BY <1>15 DEF Finish
  <2>3. limited' = (limited \/ Observed(trace, {"limited"}) # <<>>)
    BY <1>15 DEF Finish
  <2>4. ~Judged /\ Judged' /\ (NothingLost' <=> NothingLost)
    BY <2>1 DEF Judged, NothingLost
  <2>5. LateReasons(trace) \in Seq(Reasons)
    BY <1>1, <2>1, LateReasonsAreTyped DEF Progress
  <2>6. reasons' = <<>> <=> reasons = <<>> /\ LateReasons(trace) = <<>>
    <3> DEFINE late == LateReasons(trace)
    <3>1. late \in Seq(Reasons)
      BY <2>5
    <3> HIDE DEF late
    <3>2. /\ reasons \o late \in Seq(Reasons) /\ Len(reasons \o late) = Len(reasons) + Len(late)
          /\ Len(reasons) \in Nat /\ Len(late) \in Nat
      BY <1>1, <3>1, ConcatProperties
    <3>3. \A s \in Seq(Reasons) : s = <<>> <=> Len(s) = 0
      OBVIOUS
    <3>4. Len(reasons) + Len(late) = 0 <=> Len(reasons) = 0 /\ Len(late) = 0
      BY <3>2
    <3>5. reasons \o late = <<>> <=> reasons = <<>> /\ late = <<>>
      BY <1>1, <3>1, <3>2, <3>3, <3>4
    <3> QED BY <2>2, <3>5 DEF late
  <2>7. limited' <=> limited \/ Observed(trace, {"limited"}) # <<>>
    BY <2>3
  <2> QED BY <2>1, <2>4, <2>6, <2>7, Zenon DEF LossesSoFar, LimitReached
<1>16. CASE Replay
  <2>1. /\ pc' = "clock" /\ candidates' = <<>> /\ limited' = FALSE
        /\ trace' = NothingYet /\ reviewed' = <<>> /\ reasons' = <<>>
    BY <1>16 DEF Replay
  <2>2. DOMAIN reviewed' = {} /\ ~Judged'
    BY <2>1 DEF Judged
  <2>3. trace'.search = None /\ \A c \in Repos : trace'.files[c] = None
    BY <2>1, NothingIsTyped DEF Untouched
  <2>4. NothingLost' /\ ~QuotaRanOut(trace')
    BY <2>2, <2>3 DEF NothingLost, QuotaRanOut
  <2> QED BY <2>1, <2>2, <2>4 DEF LossesSoFar
<1> QED BY <1>4, <1>5, <1>6, <1>7, <1>8, <1>9, <1>11, <1>13, <1>14, <1>15, <1>16 DEF Deciding

-----------------------------------------------------------------------------
(* The reasons, from the records alone. *)

\* What is said after a candidate is a list of reasons.
LEMMA AfterReviewIsTyped ==
  ASSUME NEW said \in Seq(Reasons), NEW t, NEW c \in Repos
  PROVE  AfterFetch(said, t, c) \in Seq(Reasons) /\ AfterReview(said, t, c) \in Seq(Reasons)
<1>1. With(said, FetchReason(t.files[c], c)) \in Seq(Reasons)
  BY MarkingSays, ReasonsAreTyped
<1>2. AfterFetch(said, t, c) \in Seq(Reasons)
  BY <1>1 DEF AfterFetch
<1>3. With(AfterFetch(said, t, c), Reason("grading failed", c)) \in Seq(Reasons)
  BY <1>2, MarkingSays, ReasonsAreTyped
<1>4. AfterReview(said, t, c) \in Seq(Reasons)
  BY <1>2, <1>3, Zenon DEF AfterReview
<1> QED BY <1>2, <1>4

\* Records that agree on the first n candidates say the same of them.
LEMMA SaysTheSame ==
  ASSUME NEW n \in Nat, NEW t, NEW u, NEW past, u.search = t.search, Says(past, t, n),
         \A k \in 1 .. n : \A said :
           AfterReview(said, u, t.search.found[k]) = AfterReview(said, t, t.search.found[k])
  PROVE  Says(past, u, n)
BY DEF Says, SaidFirst

\* What is said after one more candidate follows from what was said before it.
LEMMA SaysMore ==
  ASSUME NEW n \in Nat, NEW t, NEW past, Says(past, t, n), t.search.found[n + 1] \in Repos
  PROVE  \E more : /\ Says(more, t, n + 1)
                   /\ more[n + 1] = AfterReview(past[n], t, t.search.found[n + 1])
<1> DEFINE next == AfterReview(past[n], t, t.search.found[n + 1])
           more == [k \in 0 .. n + 1 |-> IF k = n + 1 THEN next ELSE past[k]]
<1>1. past \in [0 .. n -> Seq(Reasons)] /\ n \in 0 .. n
  BY DEF Says
<1>2. past[n] \in Seq(Reasons)
  BY <1>1
<1>3. next \in Seq(Reasons)
  BY <1>2, AfterReviewIsTyped
<1> HIDE DEF next
<1>4. \A k \in 0 .. n : k # n + 1 /\ k \in 0 .. n + 1
  OBVIOUS
<1>5. n + 1 \in 0 .. n + 1 /\ \A k \in 0 .. n + 1 : k # n + 1 => k \in 0 .. n
  OBVIOUS
<1>6. more \in [0 .. n + 1 -> Seq(Reasons)]
  <2>1. \A k \in 0 .. n + 1 : (IF k = n + 1 THEN next ELSE past[k]) \in Seq(Reasons)
    BY <1>1, <1>3, <1>5
  <2> QED BY <2>1
<1>7. more[n + 1] = next /\ \A k \in 0 .. n : more[k] = past[k]
  BY <1>4, <1>5
<1> HIDE DEF more
<1>8. more[0] = SaidFirst(t)
  <2>1. 0 \in 0 .. n
    OBVIOUS
  <2> QED BY <1>7, <2>1 DEF Says
<1>9. ASSUME NEW k \in 1 .. n + 1
      PROVE  more[k] = AfterReview(more[k - 1], t, t.search.found[k])
  <2>1. CASE k = n + 1
    <3>1. k - 1 = n
      BY <2>1
    <3>2. more[k - 1] = past[n]
      BY <1>1, <1>7, <3>1
    <3> QED BY <1>7, <2>1, <3>2 DEF next
  <2>2. CASE k # n + 1
    <3>1. k \in 1 .. n /\ k \in 0 .. n /\ k - 1 \in 0 .. n
      BY <2>2
    <3>2. past[k] = AfterReview(past[k - 1], t, t.search.found[k])
      BY <3>1 DEF Says
    <3>3. more[k] = past[k] /\ more[k - 1] = past[k - 1]
      BY <1>7, <3>1
    <3> QED BY <3>2, <3>3
  <2> QED BY <2>1, <2>2
<1> QED BY <1>6, <1>7, <1>8, <1>9 DEF Says, next

\* Two accounts of the same records are the same at every candidate.
LEMMA SaysOneThing ==
  ASSUME NEW n \in Nat, NEW t, NEW past, NEW other, Says(past, t, n), Says(other, t, n)
  PROVE  past[n] = other[n]
<1> DEFINE T == {k \in 0 .. n : past[k] # other[k]}
<1> SUFFICES ASSUME past[n] # other[n]
             PROVE  FALSE
  OBVIOUS
<1>1. n \in T /\ T \in SUBSET Nat /\ T # {}
  OBVIOUS
<1>2. PICK k \in T : \A m \in T : <<m, k>> \notin OpToRel(<, Nat)
  <2> HIDE DEF T
  <2> QED BY <1>1, WFMin, NatLessThanWellFounded
<1>3. k \in 0 .. n /\ past[k] # other[k]
  OBVIOUS
<1>4. \A m \in 0 .. n : m < k => past[m] = other[m]
  <2>1. \A m \in T : ~(m < k)
    BY <1>1, <1>2 DEF OpToRel
  <2> QED BY <2>1
<1>5. k # 0
  BY <1>3 DEF Says
<1>6. k \in 1 .. n /\ k - 1 \in 0 .. n /\ k - 1 < k
  BY <1>3, <1>5
<1>7. past[k - 1] = other[k - 1]
  BY <1>4, <1>6
<1>8. /\ past[k] = AfterReview(past[k - 1], t, t.search.found[k])
      /\ other[k] = AfterReview(other[k - 1], t, t.search.found[k])
  BY <1>6 DEF Says
<1> QED BY <1>3, <1>7, <1>8

\* A review adds its reason, if it has one, to what was said of the files.
LEMMA ReviewKeepsReasons ==
  ASSUME TypeOK, Progress, ReasonsFollow, InHand,
         NEW grade \in {"grade", None}, NEW withheld \in Excuses \union {None},
         Review(grade, withheld), candidates' = candidates,
         trace'.clock = trace.clock, trace'.search = trace.search, trace'.smoke = trace.smoke,
         trace'.files = trace.files, trace'.metadata = trace.metadata,
         \A c \in Repos : c # Current => trace'.grades[c] = trace.grades[c],
         reasons' = IF GradingFailed(trace', Current)
                    THEN With(reasons, Reason("grading failed", Current)) ELSE reasons
  PROVE  ReasonsFollow'
<1> DEFINE n == Len(reviewed)
<1>1. n < Len(candidates) /\ fetched # None /\ trace.search # None
      /\ candidates = trace.search.found
  BY DEF Progress, InHand
<1>2. /\ Current \in Repos /\ n \in Nat
      /\ DOMAIN reviewed = 1 .. n
      /\ \A k \in DOMAIN reviewed : candidates[k] \in Repos /\ candidates[k] # Current
  BY <1>1, CurrentIsNext
<1>3. Len(reviewed') = n + 1
  BY <1>1, ReviewIsTyped
<1>4. PICK past : /\ Says(past, trace, n)
                  /\ reasons = AfterFetch(past[n], trace, Current)
  <2>1. \A said : SaidNow(said) = AfterFetch(said, trace, Current)
    BY DEF SaidNow
  <2> QED BY <1>1, <2>1 DEF ReasonsFollow
<1>5. Says(past, trace', n)
  <2> HIDE DEF n
  <2>1. \A c \in Repos : c # Current =>
          \A said : AfterReview(said, trace', c) = AfterReview(said, trace, c)
    BY SameRecords
  <2>2. \A k \in 1 .. n : \A said :
          AfterReview(said, trace', candidates[k]) = AfterReview(said, trace, candidates[k])
    BY <1>2, <2>1
  <2> QED BY <1>1, <1>2, <1>4, <2>2, SaysTheSame
<1>6. trace'.search.found[n + 1] = Current
  BY <1>1 DEF Current
<1>7. PICK more : /\ Says(more, trace', n + 1)
                  /\ more[n + 1] = AfterReview(past[n], trace', Current)
  <2> HIDE DEF n
  <2> QED BY <1>2, <1>5, <1>6, SaysMore
<1>8. AfterFetch(past[n], trace', Current) = AfterFetch(past[n], trace, Current)
  BY DEF AfterFetch
<1>9. reasons' = AfterReview(past[n], trace', Current)
  BY <1>4, <1>8, Zenon DEF AfterReview
<1>10. ~InHand' /\ ~Judged'
  BY DEF Review, InHand, Judged
<1>11. \A said : SaidNow(said)' = said'
  BY <1>10 DEF SaidNow
<1> QED BY <1>1, <1>3, <1>7, <1>9, <1>11 DEF ReasonsFollow


\* The reasons stay a function of the records.
LEMMA ReasonsKept ==
  ASSUME TypeOK, Progress, RecordsSoFar, ReasonsFollow, SourceIsARun, Deciding
  PROVE  ReasonsFollow'
<1>1. trace \in Traces
  BY DEF TypeOK
<1>2. ~InHand /\ ~Judged => \A said : SaidNow(said) = said
  BY DEF SaidNow
<1>3. CASE ReadClock
  <2>1. /\ pc = "clock" /\ reasons' = reasons
        /\ \E a : trace' = [trace EXCEPT !.clock = a]
    BY <1>3 DEF ReadClock
  <2>2. trace'.search = trace.search
    BY <1>1, <2>1, RunRecord
  <2>3. trace.search = None
    BY <2>1 DEF Progress
  <2> QED BY <2>1, <2>2, <2>3 DEF ReasonsFollow
<1>4. CASE Search
  <2>1. PICK a \in Answers(Searches, source.trace.search, SearchFails) :
          /\ pc = "search" /\ pc' = "smoke"
          /\ trace' = [trace EXCEPT !.search = a]
          /\ IF a.complete THEN UNCHANGED reasons ELSE Mark(Reason("collection stopped", None))
          /\ reviewed' = reviewed
    BY <1>4 DEF Search
  <2>2. a # None /\ a.complete \in BOOLEAN
    BY AnswersAreRecorded, SearchesFind
  <2>3. trace'.search = a
    <3>1. trace' = [trace EXCEPT !.search = a]
      BY <2>1, Zenon
    <3> QED BY <1>1, <3>1, RunRecord
  <2>4. reviewed = <<>> /\ trace.search = None
    BY <2>1 DEF Progress
  <2>5. reasons = <<>> /\ Len(reviewed') = 0
    BY <2>1, <2>4 DEF ReasonsFollow
  <2>6. reasons' = SaidFirst(trace')
    <3> DEFINE r == Reason("collection stopped", None)
    <3>1. With(<<>>, r) = <<r>>
      <4> HIDE DEF r
      <4> QED BY DEF With, ToSet
    <3>2. ~a.complete => reasons' = <<r>>
      BY <2>1, <2>5, <3>1 DEF Mark
    <3>3. a.complete => reasons' = <<>>
      BY <2>1, <2>5
    <3>4. SaidFirst(trace') = IF a.complete THEN <<>> ELSE <<r>>
      BY <2>3 DEF SaidFirst
    <3> HIDE DEF r
    <3> QED BY <2>2, <3>2, <3>3, <3>4
  <2>7. \E past : Says(past, trace', 0) /\ past[0] = reasons'
    <3> DEFINE first == SaidFirst(trace')
               past == [k \in 0 .. 0 |-> first]
    <3>1. first \in Seq(Reasons)
      BY <2>6, TypesKept DEF TypeOK
    <3> HIDE DEF first
    <3>2. past \in [0 .. 0 -> Seq(Reasons)] /\ past[0] = first
      BY <3>1
    <3>3. \A k : k \notin 1 .. 0
      OBVIOUS
    <3> HIDE DEF past
    <3>4. Says(past, trace', 0)
      BY <3>2, <3>3 DEF Says, first
    <3> QED BY <2>6, <3>2, <3>4 DEF first
  <2>8. \A said : SaidNow(said)' = said'
    BY <2>1 DEF SaidNow, InHand, Judged
  <2> QED BY <2>2, <2>3, <2>5, <2>7, <2>8 DEF ReasonsFollow
<1>5. ASSUME trace.search # None
      PROVE  \E past : Says(past, trace, Len(reviewed)) /\ reasons = SaidNow(past[Len(reviewed)])
  BY <1>5 DEF ReasonsFollow
<1>6. CASE Smoke
  <2>1. /\ pc = "smoke" /\ pc' = "read"
        /\ \E a : trace' = [trace EXCEPT !.smoke = a]
        /\ UNCHANGED <<reviewed, reasons>>
    BY <1>6, Zenon DEF Smoke
  <2>2. trace'.search = trace.search
    BY <1>1, <2>1, RunRecord
  <2>3. reviewed = <<>> /\ trace.search # None
    BY <2>1 DEF Progress
  <2>4. Len(reviewed) = 0 /\ Len(reviewed') = 0
    BY <2>1, <2>3
  <2>5. PICK past : Says(past, trace, 0) /\ reasons = SaidNow(past[0])
    BY <1>5, <2>3, <2>4
  <2>6. Says(past, trace', 0)
    <3>1. \A k : k \notin 1 .. 0
      OBVIOUS
    <3> QED BY <2>2, <2>5, <3>1, SaysTheSame
  <2>7. reasons = past[0]
    BY <1>2, <2>1, <2>5 DEF InHand, Judged
  <2>8. \A said : SaidNow(said)' = said'
    BY <2>1 DEF SaidNow, InHand, Judged
  <2> QED BY <2>1, <2>2, <2>3, <2>4, <2>6, <2>7, <2>8 DEF ReasonsFollow
<1>7. ASSUME Len(reviewed) < Len(candidates), trace.search # None,
             UNCHANGED <<candidates, reviewed>>,
             trace'.clock = trace.clock, trace'.search = trace.search, trace'.smoke = trace.smoke,
             \A c \in Repos : c # Current => /\ trace'.files[c] = trace.files[c]
                                             /\ trace'.metadata[c] = trace.metadata[c]
                                             /\ trace'.grades[c] = trace.grades[c],
             NEW past, Says(past, trace, Len(reviewed))
      PROVE  Says(past, trace', Len(reviewed'))
  <2>1. /\ Current \in Repos /\ Len(reviewed) \in Nat
        /\ \A k \in 1 .. Len(reviewed) : candidates[k] \in Repos /\ candidates[k] # Current
    BY <1>7, CurrentIsNext
  <2>2. candidates = trace.search.found
    BY <1>7 DEF Progress
  <2>3. \A c \in Repos : c # Current =>
          \A said : AfterReview(said, trace', c) = AfterReview(said, trace, c)
    BY <1>7, SameRecords
  <2>4. \A k \in 1 .. Len(reviewed) : \A said :
          AfterReview(said, trace', candidates[k]) = AfterReview(said, trace, candidates[k])
    BY <2>1, <2>3
  <2>5. Len(reviewed') = Len(reviewed)
    BY <1>7
  <2> QED BY <1>7, <2>1, <2>2, <2>4, <2>5, SaysTheSame
<1>8. CASE Read
  <2>1. /\ pc = "read" /\ Len(reviewed) < Len(candidates)
        /\ UNCHANGED <<candidates, reviewed>>
    BY <1>8 DEF Read
  <2>2. PICK a \in FileAnswers(Current) :
          /\ pc' = Screened(a)
          /\ trace' = [trace EXCEPT !.files[Current] = Recorded(a)]
          /\ IF a.complete THEN UNCHANGED reasons ELSE Mark(FetchReason(a, Current))
    BY <1>8 DEF Read
  <2>3. Current \in Repos /\ trace.search # None
    BY <2>1, CurrentIsNext DEF Progress
  <2>4. a \in Fetches
    BY <2>3, AnswersAreRecorded
  <2>5. /\ Recorded(a).complete = a.complete /\ a.complete \in BOOLEAN
        /\ FetchReason(Recorded(a), Current) = FetchReason(a, Current)
    BY <2>4, FetchesAreRecorded
  <2>6. /\ trace'.clock = trace.clock /\ trace'.search = trace.search /\ trace'.smoke = trace.smoke
        /\ trace'.metadata = trace.metadata /\ trace'.grades = trace.grades
        /\ trace'.files[Current] = Recorded(a)
        /\ \A d \in Repos : d # Current => trace'.files[d] = trace.files[d]
    BY <1>1, <2>2, <2>3, FileRecord
  <2>7. PICK past : Says(past, trace, Len(reviewed)) /\ reasons = SaidNow(past[Len(reviewed)])
    BY <1>5, <2>3
  <2>8. reasons = past[Len(reviewed)]
    BY <1>2, <2>1, <2>7 DEF InHand, Judged
  <2>9. Says(past, trace', Len(reviewed'))
    BY <1>7, <2>1, <2>3, <2>6, <2>7
  <2>10. reasons' = AfterFetch(past[Len(reviewed)], trace', Current)
    BY <2>2, <2>5, <2>6, <2>8 DEF AfterFetch, Mark
  <2>11. \A said : SaidNow(said)' = AfterFetch(said, trace', Current)
    <3>1. InHand' /\ Current' = Current
      BY <2>1, <2>2 DEF InHand, Current, Screened
    <3> QED BY <3>1 DEF SaidNow
  <2> QED BY <2>1, <2>3, <2>6, <2>9, <2>10, <2>11 DEF ReasonsFollow
<1>9. CASE Observe
  <2>1. /\ pc = "observe" /\ pc' = IF Gradeable THEN "grade" ELSE "withhold"
        /\ UNCHANGED <<candidates, reviewed, reasons>>
        /\ \E a : trace' = [trace EXCEPT !.metadata[Current] = a]
    BY <1>9 DEF Observe
  <2>2. InHand /\ InHand' /\ Len(reviewed) < Len(candidates) /\ trace.search # None
    BY <2>1 DEF Progress, InHand
  <2>3. Current \in Repos /\ Current' = Current
    BY <2>1, <2>2, CurrentIsNext DEF Current
  <2>4. /\ trace'.clock = trace.clock /\ trace'.search = trace.search /\ trace'.smoke = trace.smoke
        /\ trace'.files = trace.files /\ trace'.grades = trace.grades
        /\ \A d \in Repos : d # Current => trace'.metadata[d] = trace.metadata[d]
    BY <1>1, <2>1, <2>3, MetadataRecord
  <2>5. PICK past : Says(past, trace, Len(reviewed)) /\ reasons = SaidNow(past[Len(reviewed)])
    BY <1>5, <2>2
  <2>6. Says(past, trace', Len(reviewed'))
    BY <1>7, <2>1, <2>2, <2>4, <2>5
  <2>7. reasons = AfterFetch(past[Len(reviewed)], trace, Current)
    BY <2>2, <2>5 DEF SaidNow
  <2>8. \A said : SaidNow(said)' = AfterFetch(said, trace', Current)
    BY <2>2, <2>3 DEF SaidNow
  <2>9. \A said : AfterFetch(said, trace', Current) = AfterFetch(said, trace, Current)
    BY <2>4 DEF AfterFetch
  <2> QED BY <2>1, <2>2, <2>4, <2>6, <2>7, <2>8, <2>9 DEF ReasonsFollow
<1>10. CASE Withhold
  <2>1. /\ pc = "withhold" /\ Review(None, Withholding)
        /\ UNCHANGED <<live, candidates, trace, reasons, limited, missing, source, evidence>>
    BY <1>10 DEF Withhold
  <2>2. InHand /\ ~GradingFailed(trace', Current)
    BY <2>1, WithheldFollows DEF InHand
  <2> QED BY <2>1, <2>2, WithholdingExcuses, ReviewKeepsReasons
<1>11. ASSUME pc = "grade"
       PROVE  InHand /\ Current \in Repos /\ trace.grades[Current] = None
  BY <1>11, InHandIsRecorded
<1>12. CASE GradeTooLarge
  <2>1. /\ pc = "grade" /\ fetched.content = "too large"
        /\ UNCHANGED <<live, candidates, trace, limited, missing, source, evidence>>
    BY <1>12 DEF GradeTooLarge
  <2>2. Review(None, "grading failed")
    BY <1>12, Zenon DEF GradeTooLarge
  <2>3. reasons' = With(reasons, Reason("grading failed", Current))
    BY <1>12, Zenon DEF GradeTooLarge, Mark
  <2>4. GradingFailed(trace', Current)
    BY <1>11, <2>1, GradedFollows, NoneIsNothing
  <2> QED BY <1>11, <2>1, <2>2, <2>3, <2>4, WithholdingExcuses, ReviewKeepsReasons
<1>13. ASSUME NEW a \in {"grade", "fails"}, pc = "grade", fetched.content = "harmless",
              trace' = [trace EXCEPT !.grades[Current] = a]
       PROVE  /\ trace'.clock = trace.clock /\ trace'.search = trace.search
              /\ trace'.smoke = trace.smoke
              /\ trace'.files = trace.files /\ trace'.metadata = trace.metadata
              /\ \A d \in Repos : d # Current => trace'.grades[d] = trace.grades[d]
              /\ GradingFailed(trace', Current) <=> a # "grade"
  <2>1. /\ trace'.clock = trace.clock /\ trace'.search = trace.search
        /\ trace'.smoke = trace.smoke
        /\ trace'.files = trace.files /\ trace'.metadata = trace.metadata
        /\ \A d \in Repos : d # Current => trace'.grades[d] = trace.grades[d]
        /\ trace'.grades[Current] = a
    <3>1. Current \in Repos
      BY <1>11, <1>13
    <3> QED BY <1>1, <1>13, <3>1, GradeRecord
  <2>2. trace'.grades[Current] \in {"grade", "fails", None} /\ trace'.grades[Current] # None
    BY <2>1, NoneIsNothing
  <2>3. GradingFailed(trace', Current) <=> a # "grade"
    BY <1>13, <2>1, <2>2, GradedFollows
  <2> QED BY <2>1, <2>3
<1>14. CASE Grade
  <2>1. /\ pc = "grade" /\ fetched.content = "harmless" /\ Review("grade", None)
        /\ trace' = [trace EXCEPT !.grades[Current] = "grade"]
        /\ UNCHANGED <<live, candidates, reasons, limited, source, evidence>>
    BY <1>14 DEF Grade
  <2>2. ~GradingFailed(trace', Current)
    BY <1>13, <2>1
  <2> QED BY <1>11, <1>13, <2>1, <2>2, ReviewKeepsReasons
<1>15. CASE GradeFails
  <2>1. /\ pc = "grade" /\ fetched.content = "harmless"
        /\ trace' = [trace EXCEPT !.grades[Current] = "fails"]
        /\ UNCHANGED <<live, candidates, limited, source, evidence>>
    BY <1>15, Zenon DEF GradeFails
  <2>2. Review(None, "grading failed")
    BY <1>15, Zenon DEF GradeFails
  <2>3. reasons' = With(reasons, Reason("grading failed", Current))
    BY <1>15, Zenon DEF GradeFails, Mark
  <2>4. GradingFailed(trace', Current)
    BY <1>13, <2>1
  <2>5. /\ trace'.clock = trace.clock /\ trace'.search = trace.search
        /\ trace'.smoke = trace.smoke
        /\ trace'.files = trace.files /\ trace'.metadata = trace.metadata
        /\ \A d \in Repos : d # Current => trace'.grades[d] = trace.grades[d]
    BY <1>13, <2>1
  <2> QED BY <1>11, <2>1, <2>2, <2>3, <2>4, <2>5, WithholdingExcuses, ReviewKeepsReasons
<1>16. CASE Finish
  <2>1. /\ pc = "read" /\ pc' = "evidence"
        /\ UNCHANGED <<candidates, trace, reviewed>>
    BY <1>16 DEF Finish
  <2>2. reasons' = reasons \o LateReasons(trace)
    BY <1>16 DEF Finish
  <2>3. trace.search # None /\ ~InHand /\ ~Judged
    BY <2>1 DEF Progress, InHand, Judged
  <2>4. PICK past : Says(past, trace, Len(reviewed)) /\ reasons = SaidNow(past[Len(reviewed)])
    BY <1>5, <2>3
  <2>5. reasons = past[Len(reviewed)]
    BY <1>2, <2>3, <2>4
  <2>6. \A said : SaidNow(said)' = said \o LateReasons(trace')
    BY <2>1 DEF SaidNow, InHand, Judged
  <2>7. Len(reviewed') = Len(reviewed) /\ trace' = trace
    BY <2>1
  <2> QED BY <2>2, <2>3, <2>4, <2>5, <2>6, <2>7 DEF ReasonsFollow
<1>17. CASE Replay
  <2>1. trace' = NothingYet /\ reasons' = <<>>
    BY <1>17 DEF Replay
  <2> QED BY <2>1, NothingIsTyped DEF ReasonsFollow
<1> QED BY <1>3, <1>4, <1>6, <1>8, <1>9, <1>10, <1>12, <1>14, <1>15, <1>16, <1>17 DEF Deciding

-----------------------------------------------------------------------------
(* The end of a run, and its replay. *)

\* At the end of a run every candidate is reviewed, and no other was touched.
LEMMA AllIsReviewed ==
  ASSUME TypeOK, Progress, RecordsSoFar, ReviewsFollow, Judged
  PROVE  /\ trace \in Traces /\ trace.clock \in {"time", "fails"} /\ trace.search \in Searches
         /\ trace.smoke \in BOOLEAN
         /\ candidates = trace.search.found /\ DOMAIN candidates = DOMAIN reviewed
         /\ Len(reviewed) = Len(candidates)
         /\ \A k \in DOMAIN candidates :
              /\ candidates[k] \in Repos
              /\ Settled(trace, candidates[k])
              /\ Reworded(reviewed[k]) = ReviewIn(trace, candidates[k])
         /\ \A c \in Repos \ ToSet(candidates) : Untouched(trace, c)
<1>1. /\ trace \in Traces /\ ~InHand
      /\ trace.clock # None /\ trace.search # None /\ trace.smoke # None
      /\ candidates = trace.search.found /\ Len(reviewed) = Len(candidates)
  BY DEF TypeOK, Progress, Judged, InHand
<1>2. /\ trace.clock \in {"time", "fails", None}
      /\ trace.search \in Searches \union {None}
      /\ trace.smoke \in BOOLEAN \union {None}
  <2>1. trace \in Traces
    BY <1>1
  <2> HIDE DEF Repos, Records, Observations, Searches
  <2> QED BY <2>1 DEF Traces
<1>3. /\ DOMAIN candidates = 1 .. Len(candidates)
      /\ \A k \in 1 .. Len(candidates) : candidates[k] \in Repos
  BY PrefixesAreLists DEF TypeOK
<1>4. DOMAIN reviewed = 1 .. Len(reviewed)
  BY DEF TypeOK
<1>5. DOMAIN candidates = DOMAIN reviewed
  BY <1>1, <1>3, <1>4
<1>6. \A k \in DOMAIN candidates :
        /\ candidates[k] \in Repos
        /\ Settled(trace, candidates[k])
        /\ Reworded(reviewed[k]) = ReviewIn(trace, candidates[k])
  BY <1>3, <1>5 DEF RecordsSoFar, ReviewsFollow
<1>7. \A c \in Repos \ ToSet(candidates) : Untouched(trace, c)
  <2>1. \A k \in DOMAIN candidates : candidates[k] \in ToSet(candidates)
    BY DEF ToSet
  <2> QED BY <1>1, <1>5, <2>1 DEF RecordsSoFar
<1>8. trace.smoke \in BOOLEAN
  BY <1>1, <1>2, Zenon
<1> QED BY <1>1, <1>2, <1>5, <1>6, <1>7, <1>8

\* What is replayed is the outcome of a run that has ended.
LEMMA SourceKept ==
  ASSUME PInv, Deciding
  PROVE  SourceIsARun'
<1> USE DEF PInv
<1>1. CASE Replay
  <2>1. PICK mode \in SourceModes :
          /\ pc = "done" /\ Replayable(mode) /\ source' = Artifact(mode)
    BY <1>1 DEF Replay
  <2>2. /\ source'.trace = trace /\ source'.reviewed = reviewed
        /\ source'.reasons = reasons /\ source'.limited = limited
    BY <2>1, ArtifactIsTheRun
  <2>3. Judged
    BY <2>1 DEF Judged
  <2>4. /\ trace \in Traces /\ trace.clock # None /\ trace.search # None /\ trace.smoke # None
        /\ candidates = trace.search.found /\ Len(reviewed) = Len(candidates)
        /\ ~InHand
    BY <2>3 DEF TypeOK, Progress, Judged, InHand
  <2>5. /\ \A k \in DOMAIN candidates :
             /\ Settled(trace, candidates[k])
             /\ Reworded(reviewed[k]) = ReviewIn(trace, candidates[k])
        /\ \A c \in Repos \ ToSet(candidates) : Untouched(trace, c)
    BY <2>3, AllIsReviewed
  <2>6. limited \in BOOLEAN /\ (limited <=> LimitReached(trace))
    BY <2>3 DEF LossesSoFar, TypeOK
  <2>7. \E past : /\ Says(past, trace, Len(candidates))
                  /\ reasons = past[Len(candidates)] \o LateReasons(trace)
    <3>1. PICK past : /\ Says(past, trace, Len(reviewed))
                      /\ reasons = SaidNow(past[Len(reviewed)])
      BY <2>4 DEF ReasonsFollow
    <3>2. \A said : SaidNow(said) = said \o LateReasons(trace)
      BY <2>3, <2>4 DEF SaidNow
    <3> QED BY <2>4, <3>1, <3>2
  <2> QED BY <2>2, <2>4, <2>5, <2>6, <2>7 DEF SourceIsARun
<1>2. CASE ~Replay
  <2>1. UNCHANGED <<live, source>>
    BY <1>2 DEF Deciding, ReadClock, Search, Smoke, Read, Observe, Withhold, GradeTooLarge, Grade,
                GradeFails, Finish
  <2> QED BY <2>1, SourceStays
<1> QED BY <1>1, <1>2

\* The empty run before the clock is read satisfies the invariant.
LEMMA PInvHolds == Init => PInv
<1> SUFFICES ASSUME Init
             PROVE  PInv
  OBVIOUS
<1>1. /\ live = TRUE /\ missing = FALSE
      /\ pc = "clock" /\ candidates = <<>> /\ fetched = None
      /\ trace = NothingYet /\ reviewed = <<>> /\ reasons = <<>> /\ limited = FALSE
      /\ evidence = <<>>
  BY DEF Init
<1>2. /\ trace \in Traces /\ trace.clock = None /\ trace.search = None /\ trace.smoke = None
      /\ \A c \in Repos : Untouched(trace, c)
      /\ reasons \in Seq(Reasons) /\ reviewed \in Seq(Reviews)
      /\ Len(reviewed) = 0 /\ DOMAIN reviewed = {} /\ Len(candidates) = 0
  BY <1>1, NothingIsTyped
<1>3. ~InHand /\ ~Judged
  BY <1>1 DEF InHand, Judged
<1>4. TypeOK
  <2>1. candidates \in Prefixes(Found) /\ Len(reviewed) <= Len(candidates)
    BY <1>1, <1>2, NothingIsAPrefix
  <2>2. /\ live \in BOOLEAN /\ limited \in BOOLEAN /\ missing \in BOOLEAN
        /\ evidence \in Seq({"read", "absent", "fails"})
    BY <1>1, EmptySeq
  <2>3. /\ pc \in {"clock", "search", "smoke", "read", "observe", "grade", "withhold", "evidence", "done"}
        /\ fetched \in Fetches \union {None}
    BY <1>1
  <2> QED BY <1>2, <2>1, <2>2, <2>3 DEF TypeOK
<1>5. Progress
  BY <1>1, <1>2, <1>3 DEF Progress
<1>6. RecordsSoFar /\ ReviewsFollow
  BY <1>2, <1>3 DEF RecordsSoFar, ReviewsFollow
<1>7. LossesSoFar
  <2>1. \A c \in Repos : trace.files[c] = None
    BY <1>2 DEF Untouched
  <2>2. NothingLost /\ ~QuotaRanOut(trace)
    BY <1>2, <2>1 DEF NothingLost, QuotaRanOut
  <2> QED BY <1>1, <1>3, <2>2 DEF LossesSoFar
<1>8. ReasonsFollow
  BY <1>1, <1>2 DEF ReasonsFollow
<1>9. SourceIsARun /\ ReplayAgrees
  BY <1>1 DEF SourceIsARun, ReplayAgrees
<1> QED BY <1>4, <1>5, <1>6, <1>7, <1>8, <1>9 DEF PInv

\* What the invariant says is settled when the evidence of the categories is
\* read: whatever the reader answers, and if it raises, the result stands.
LEMMA ResultStands ==
  ASSUME PInv, UNCHANGED <<live, candidates, fetched, trace, reviewed, reasons, limited, missing, source>>,
         pc' = pc \/ (pc = "evidence" /\ pc' = "done"),
         evidence' \in Seq({"read", "absent", "fails"})
  PROVE  PInv'
<1>1. TypeOK'
  BY DEF PInv, TypeOK
<1>2. /\ InHand' <=> InHand
      /\ Judged' <=> Judged
      /\ Current' = Current
      /\ Gradeable' <=> Gradeable
      /\ \A stage \in {"clock", "search", "smoke", "read", "observe", "grade", "withhold"} :
           pc' = stage <=> pc = stage
  BY DEF InHand, Judged, Current, Gradeable
<1>3. \A said : SaidNow(said)' = SaidNow(said)
  BY <1>2 DEF SaidNow
<1>4. Progress'
  BY <1>2 DEF PInv, Progress
<1>5. RecordsSoFar'
  BY <1>2, Zenon DEF PInv, RecordsSoFar
<1>6. ReviewsFollow'
  BY DEF PInv, ReviewsFollow
<1>7. LossesSoFar'
  BY <1>2 DEF PInv, LossesSoFar, NothingLost
<1>8. ReasonsFollow'
  BY <1>3 DEF PInv, ReasonsFollow
<1>9. SourceIsARun'
  BY SourceStays DEF PInv
<1>10. ReplayAgrees'
  BY DEF PInv, ReplayAgrees
<1> QED BY <1>1, <1>4, <1>5, <1>6, <1>7, <1>8, <1>9, <1>10 DEF PInv

\* Every step of a run and of its replay keeps the invariant.
LEMMA PInvKept == PInv /\ [Next]_vars => PInv'
<1> SUFFICES ASSUME PInv, [Next]_vars
             PROVE  PInv'
  OBVIOUS
<1>1. CASE Deciding
  <2>1. SourceIsARun'
    BY <1>1, SourceKept
  <2>2. TypeOK'
    BY <1>1, TypesKept DEF PInv
  <2>3. Progress' /\ RecordsSoFar' /\ ReviewsFollow'
    BY <1>1, RecordsKept DEF PInv
  <2>4. LossesSoFar'
    BY <1>1, LossesKept DEF PInv
  <2>5. ReasonsFollow'
    BY <1>1, ReasonsKept DEF PInv
  <2>6. ReplayAgrees'
    BY <1>1, ReplayKept DEF PInv
  <2> QED BY <2>1, <2>2, <2>3, <2>4, <2>5, <2>6 DEF PInv
<1>2. evidence \in Seq({"read", "absent", "fails"})
  BY DEF PInv, TypeOK
<1>3. CASE ReadEvidence
  <2>1. PICK e \in {"read", "absent", "fails"} : evidence' = Append(evidence, e)
    BY <1>3, Zenon DEF ReadEvidence
  <2>2. evidence' \in Seq({"read", "absent", "fails"})
    BY <1>2, <2>1, AppendProperties
  <2>3. UNCHANGED <<live, pc, candidates, fetched, trace, reviewed, reasons, limited, missing, source>>
    BY <1>3 DEF ReadEvidence
  <2> QED BY <2>2, <2>3, ResultStands
<1>4. CASE MakeArtifact
  <2>1. /\ pc = "evidence" /\ pc' = "done"
        /\ UNCHANGED <<live, candidates, fetched, trace, reviewed, reasons, limited, missing, source, evidence>>
    BY <1>4 DEF MakeArtifact
  <2> QED BY <1>2, <2>1, ResultStands
<1>5. CASE UNCHANGED vars
  <2>1. UNCHANGED <<live, pc, candidates, fetched, trace, reviewed, reasons, limited, missing, source, evidence>>
    BY <1>5 DEF vars, outcome
  <2> QED BY <1>2, <2>1, ResultStands
<1> QED BY <1>1, <1>3, <1>4, <1>5 DEF Next, Deciding

-----------------------------------------------------------------------------
(* Theorems. *)

\* The inductive invariant of a run and its replay holds throughout.
THEOREM PortsInvariant == Spec => []PInv
BY PInvHolds, PInvKept, PTL DEF Spec

\* Every variable keeps to the values that execute gives it.
THEOREM TypeCorrect == Spec => []TypeOK
<1>1. PInv => TypeOK
  BY DEF PInv
<1> QED BY <1>1, PortsInvariant, PTL

\* Where the records and the screening are in step, what scans as malicious has
\* neither metadata nor a grade.
LEMMA MaliciousUntouched == PInv => MaliciousIsLeftAlone
<1> SUFFICES ASSUME PInv, NEW c \in Repos,
                    trace.files[c] # None, trace.files[c].content = "malicious"
             PROVE  trace.metadata[c] = None /\ trace.grades[c] = None
  BY DEF MaliciousIsLeftAlone
<1>1. TypeOK /\ Progress /\ RecordsSoFar
  BY DEF PInv
<1>2. CASE \E k \in DOMAIN reviewed : c = candidates[k]
  <2>1. Settled(trace, c)
    BY <1>1, <1>2 DEF RecordsSoFar
  <2> QED BY <2>1 DEF Settled, MetadataSettled
<1>3. CASE InHand /\ c = Current
  <2>1. fetched \in Fetches
    BY <1>1, <1>3 DEF TypeOK, Progress
  <2>2. /\ trace.files[c] = Recorded(fetched) /\ trace.grades[c] = None
        /\ pc = "observe" => fetched.content # "malicious"
        /\ pc # "observe" => MetadataSettled(trace, c)
    BY <1>1, <1>3 DEF RecordsSoFar
  <2>3. fetched.content = "malicious"
    BY <2>1, <2>2, FetchesAreRecorded
  <2> QED BY <2>2, <2>3 DEF MetadataSettled
<1>4. CASE Untouched(trace, c)
  BY <1>4 DEF Untouched
<1> QED BY <1>1, <1>2, <1>3, <1>4 DEF RecordsSoFar

\* What scans as malicious goes no further, live or replayed: neither its
\* metadata is read nor the model asked.
THEOREM MaliciousLeftAlone == Spec => []MaliciousIsLeftAlone
BY MaliciousUntouched, PortsInvariant, PTL

\* A candidate lost nothing if and only if its files were read, its metadata is
\* whole unless it is malicious, and it is graded if it survived the screening.
LEMMA WholeCandidate ==
  ASSUME NEW t \in Traces, NEW c \in Repos, Settled(t, c), t.clock = "time", t.smoke
  PROVE  (/\ t.files[c].complete
          /\ ~GradingFailed(t, c)
          /\ t.metadata[c] \notin {"limited", "refused", "fails"})
         <=> (/\ t.files[c].complete
              /\ t.files[c].content = "malicious" \/ t.metadata[c] = "whole"
              /\ t.files[c].content \in {"malicious", "nothing"} \/ t.grades[c] = "grade")
<1>1. /\ t.files[c] \in Records \union {None}
      /\ t.metadata[c] \in Observations \union {None}
      /\ t.grades[c] \in {"grade", "fails", None}
  <2> HIDE DEF Repos, Records, Observations, Searches
  <2> QED BY DEF Traces
<1>2. t.files[c] \in Records
  BY <1>1 DEF Settled
<1>3. t.metadata[c] = None <=> t.files[c].content = "malicious"
  BY DEF Settled, MetadataSettled
<1>4. t.metadata[c] \notin {"limited", "refused", "fails"}
        <=> t.files[c].content = "malicious" \/ t.metadata[c] = "whole"
  BY <1>1, <1>3, NoneIsNothing DEF Observations
<1>5. (t.grades[c] # None) <=> t.files[c].content = "harmless"
  BY DEF Settled
<1>6. t.files[c].complete => t.files[c].content \in Contents
  <2>1. CASE t.files[c] \in FetchedFiles
    BY <2>1, FilesHaveText
  <2>2. CASE \E q \in BOOLEAN : t.files[c] = Failed("failure", q)
    BY <2>2 DEF Failed
  <2> QED BY <1>2, <2>1, <2>2 DEF Records
<1>7. GradingFailed(t, c) <=> \/ t.files[c].content = "too large"
                              \/ t.files[c].content = "harmless" /\ t.grades[c] = "fails"
  BY DEF GradingFailed
<1>8. t.files[c].complete =>
        (~GradingFailed(t, c)
           <=> t.files[c].content \in {"malicious", "nothing"} \/ t.grades[c] = "grade")
  <2>1. CASE t.files[c].content = "harmless"
    BY <1>1, <1>5, <1>7, <2>1, NoneIsNothing
  <2>2. CASE t.files[c].content = "too large"
    BY <1>5, <1>7, <2>2, NoneIsNothing
  <2>3. CASE t.files[c].content \in {"malicious", "nothing"}
    BY <1>7, <2>3
  <2> QED BY <1>6, <2>1, <2>2, <2>3 DEF Contents
<1> QED BY <1>4, <1>8

\* What was lost at any port is said at the end of the run, and nothing else is.
LEMMA LossesAreSaid == PInv => FailuresAreReported
<1> SUFFICES ASSUME PInv, Judged
             PROVE  /\ CompleteMeansWhole
                    /\ QuotaIsReported
  BY DEF FailuresAreReported, CompleteMeansWhole, QuotaIsReported
<1>1. /\ trace \in Traces /\ trace.clock \in {"time", "fails"} /\ trace.search \in Searches
      /\ trace.smoke \in BOOLEAN
      /\ candidates = trace.search.found /\ DOMAIN candidates = DOMAIN reviewed
      /\ \A k \in DOMAIN candidates : candidates[k] \in Repos /\ Settled(trace, candidates[k])
      /\ \A c \in Repos \ ToSet(candidates) : Untouched(trace, c)
  BY AllIsReviewed DEF PInv
<1>2. ToSet(candidates) \subseteq Repos
  BY <1>1 DEF ToSet
<1>3. \A c \in ToSet(candidates) : Settled(trace, c)
  BY <1>1 DEF ToSet
<1>4. trace.search # None
  BY <1>1, SearchesFind
<1>5. reasons = <<>> <=> NothingLost /\ LateReasons(trace) = <<>>
  BY DEF PInv, LossesSoFar
<1>6. NothingLost <=> /\ trace.search.complete
                      /\ \A c \in ToSet(candidates) : /\ trace.files[c].complete
                                                      /\ ~GradingFailed(trace, c)
  <2>1. (\A c \in Repos : trace.files[c] # None => trace.files[c].complete)
          <=> \A c \in ToSet(candidates) : trace.files[c].complete
    <3>1. \A c \in Repos : trace.files[c] # None => c \in ToSet(candidates)
      BY <1>1 DEF Untouched
    <3>2. \A c \in ToSet(candidates) : trace.files[c] # None
      BY <1>3 DEF Settled
    <3> QED BY <1>2, <3>1, <3>2
  <2>2. (\A k \in DOMAIN reviewed : ~GradingFailed(trace, candidates[k]))
          <=> \A c \in ToSet(candidates) : ~GradingFailed(trace, c)
    BY <1>1 DEF ToSet
  <2> QED BY <1>4, <2>1, <2>2, Zenon DEF NothingLost
<1>7. LateReasons(trace) = <<>> <=>
        /\ trace.smoke /\ trace.clock = "time"
        /\ \A c \in ToSet(candidates) : trace.metadata[c] \notin {"limited", "refused", "fails"}
  <2>1. LateReasons(trace) = <<>> <=>
          /\ trace.smoke /\ trace.clock # "fails"
          /\ \A k \in DOMAIN candidates :
               trace.metadata[candidates[k]] \notin {"limited", "refused", "fails"}
    BY <1>1, <1>4, LateReasonsAreTyped
  <2>2. (\A k \in DOMAIN candidates :
           trace.metadata[candidates[k]] \notin {"limited", "refused", "fails"})
          <=> \A c \in ToSet(candidates) : trace.metadata[c] \notin {"limited", "refused", "fails"}
    BY DEF ToSet
  <2>3. trace.clock # "fails" <=> trace.clock = "time"
    BY <1>1
  <2> QED BY <2>1, <2>2, <2>3, Zenon
<1>8. ASSUME trace.clock = "time", trace.smoke, NEW c \in ToSet(candidates)
      PROVE  (/\ trace.files[c].complete
              /\ ~GradingFailed(trace, c)
              /\ trace.metadata[c] \notin {"limited", "refused", "fails"})
             <=> (/\ trace.files[c].complete
                  /\ trace.files[c].content = "malicious" \/ trace.metadata[c] = "whole"
                  /\ trace.files[c].content \in {"malicious", "nothing"} \/ trace.grades[c] = "grade")
  BY <1>1, <1>2, <1>3, <1>8, WholeCandidate
<1>9. CompleteMeansWhole
  BY <1>5, <1>6, <1>7, <1>8, Zenon DEF CompleteMeansWhole
<1>10. QuotaRanOut(trace) <=> \E c \in ToSet(candidates) : trace.files[c].quota
  <2>1. \A c \in Repos : trace.files[c] # None => c \in ToSet(candidates)
    BY <1>1 DEF Untouched
  <2>2. \A c \in ToSet(candidates) : trace.files[c] # None
    BY <1>3 DEF Settled
  <2> QED BY <1>2, <2>1, <2>2 DEF QuotaRanOut
<1>11. Observed(trace, {"limited"}) # <<>>
         <=> \E c \in ToSet(candidates) : trace.metadata[c] = "limited"
  <2> DEFINE S == {c \in Repos : trace.metadata[c] \in {"limited"}}
  <2>1. candidates \in Seq(Repos)
    BY PrefixesAreLists DEF PInv, TypeOK
  <2>2. Only(candidates, S) = <<>> <=> \A k \in DOMAIN candidates : candidates[k] \notin S
    <3> HIDE DEF S
    <3> QED BY <2>1, OnlyIsEmpty
  <2>3. (\E k \in DOMAIN candidates : candidates[k] \in S)
          <=> \E c \in ToSet(candidates) : trace.metadata[c] = "limited"
    BY <1>1 DEF ToSet
  <2>4. Observed(trace, {"limited"}) = Only(candidates, S)
    BY <1>1 DEF Observed
  <2> HIDE DEF S
  <2> QED BY <2>2, <2>3, <2>4
<1>12. QuotaIsReported
  BY <1>10, <1>11, Zenon DEF PInv, LossesSoFar, LimitReached, QuotaIsReported
<1> QED BY <1>9, <1>12

\* The result of a run has a reason if and only if the clock, the search, the
\* model, or the files, the metadata or the grading of a candidate failed, and
\* the flag if and only if a quota ran out on a candidate; whatever comes of
\* reading the evidence of the categories changes neither.
THEOREM FailuresReported == Spec => []FailuresAreReported
BY LossesAreSaid, PortsInvariant, PTL

\* A replay that has ended has recorded what the run had recorded.
LEMMA TracesAgree ==
  ASSUME PInv, Judged, ~live
  PROVE  trace = source.trace
<1> DEFINE t == source.trace
           cs == t.search.found
<1>1. /\ trace \in Traces /\ trace.clock \in {"time", "fails"} /\ trace.search \in Searches
      /\ trace.smoke \in BOOLEAN
      /\ candidates = trace.search.found
      /\ \A k \in DOMAIN candidates : candidates[k] \in Repos /\ Settled(trace, candidates[k])
      /\ \A c \in Repos \ ToSet(candidates) : Untouched(trace, c)
  BY AllIsReviewed DEF PInv
<1>2. /\ t \in Traces
      /\ \A k \in DOMAIN cs : Settled(t, cs[k])
      /\ \A c \in Repos \ ToSet(cs) : Untouched(t, c)
  BY DEF PInv, SourceIsARun
<1>3. /\ trace.clock \in {None, t.clock} /\ trace.search \in {None, t.search}
      /\ trace.smoke \in {None, t.smoke}
      /\ \A c \in Repos : /\ trace.files[c] \in {None, t.files[c]}
                          /\ trace.metadata[c] \in {None, t.metadata[c]}
                          /\ trace.grades[c] \in {None, t.grades[c]}
  BY Zenon DEF PInv, ReplayAgrees
<1>4. trace.clock = t.clock /\ trace.search = t.search
  BY <1>1, <1>3, NoneIsNothing, SearchesFind
<1>5. trace.smoke = t.smoke
  BY <1>1, <1>3, NoneIsNothing, Zenon
<1>6. ASSUME NEW c \in Repos
      PROVE  /\ trace.files[c] = t.files[c] /\ trace.metadata[c] = t.metadata[c]
             /\ trace.grades[c] = t.grades[c]
  <2>1. CASE c \in ToSet(candidates)
    <3>1. Settled(trace, c) /\ Settled(t, c)
      BY <1>1, <1>2, <1>4, <2>1 DEF ToSet
    <3>2. trace.files[c] = t.files[c]
      BY <1>3, <3>1 DEF Settled
    <3>3. trace.metadata[c] = None <=> t.metadata[c] = None
      BY <1>4, <3>1, <3>2 DEF Settled, MetadataSettled
    <3>4. trace.grades[c] = None <=> t.grades[c] = None
      BY <1>5, <3>1, <3>2, Zenon DEF Settled
    <3> QED BY <1>3, <3>2, <3>3, <3>4
  <2>2. CASE c \notin ToSet(candidates)
    BY <1>1, <1>2, <1>4, <2>2 DEF Untouched
  <2> QED BY <2>1, <2>2
<1> HIDE DEF t
<1>7. trace.files = t.files /\ trace.metadata = t.metadata /\ trace.grades = t.grades
  <2> HIDE DEF Repos, Records, Observations, Searches
  <2>1. trace \in Traces /\ t \in Traces
    BY <1>1, <1>2
  <2>2. /\ trace.files \in [Repos -> Records \union {None}]
        /\ t.files \in [Repos -> Records \union {None}]
        /\ trace.metadata \in [Repos -> Observations \union {None}]
        /\ t.metadata \in [Repos -> Observations \union {None}]
        /\ trace.grades \in [Repos -> {"grade", "fails", None}]
        /\ t.grades \in [Repos -> {"grade", "fails", None}]
    BY <2>1 DEF Traces
  <2>3. trace.files = t.files
    BY <1>6, <2>2
  <2>4. trace.metadata = t.metadata
    BY <1>6, <2>2
  <2>5. trace.grades = t.grades
    BY <1>6, <2>2
  <2> QED BY <2>3, <2>4, <2>5
<1>8. trace = t
  <2> HIDE DEF Repos, Records, Observations, Searches
  <2>1. trace \in Traces /\ t \in Traces
    BY <1>1, <1>2
  <2>2. \A u, v \in Traces : /\ u.clock = v.clock /\ u.search = v.search /\ u.smoke = v.smoke
                             /\ u.files = v.files /\ u.metadata = v.metadata
                             /\ u.grades = v.grades
                             => u = v
    BY DEF Traces
  <2> QED BY <1>4, <1>5, <1>7, <2>1, <2>2, Zenon
<1> QED BY <1>8 DEF t

\* What a replay comes to is what the run came to, since both follow from the
\* records and these are the same.
LEMMA ReplayComesToTheSame == PInv => ReplayIsFaithful
<1> SUFFICES ASSUME PInv
             PROVE  ReplayFindsEveryAnswer /\ ReplayReproduces
  BY DEF ReplayIsFaithful
<1>1. ReplayFindsEveryAnswer
  BY DEF PInv, ReplayAgrees, ReplayFindsEveryAnswer
<1>2. ASSUME Judged, ~live
      PROVE  /\ trace = source.trace /\ reasons = source.reasons
             /\ limited = source.limited
             /\ Len(reviewed) = Len(source.reviewed)
             /\ \A k \in DOMAIN reviewed : Reworded(reviewed[k]) = Reworded(source.reviewed[k])
  <2>1. trace = source.trace
    BY <1>2, TracesAgree
  <2>2. /\ trace.search \in Searches /\ candidates = trace.search.found
        /\ Len(reviewed) = Len(candidates) /\ DOMAIN candidates = DOMAIN reviewed
        /\ \A k \in DOMAIN candidates : Reworded(reviewed[k]) = ReviewIn(trace, candidates[k])
    BY <1>2, AllIsReviewed DEF PInv
  <2>3. /\ Len(source.reviewed) = Len(candidates)
        /\ \A k \in DOMAIN candidates :
             Reworded(source.reviewed[k]) = ReviewIn(trace, candidates[k])
        /\ source.limited <=> LimitReached(trace)
    BY <1>2, <2>1, <2>2, Zenon DEF PInv, SourceIsARun
  <2>4. limited <=> LimitReached(trace)
    BY <1>2 DEF PInv, LossesSoFar
  <2>5. limited \in BOOLEAN /\ source.limited \in BOOLEAN
    BY <1>2 DEF PInv, TypeOK, SourceIsARun
  <2>6. reasons = source.reasons
    <3>1. PICK other : /\ Says(other, trace, Len(candidates))
                       /\ source.reasons = other[Len(candidates)] \o LateReasons(trace)
      BY <1>2, <2>1, <2>2, Zenon DEF PInv, SourceIsARun
    <3>2. PICK past : /\ Says(past, trace, Len(candidates))
                      /\ reasons = SaidNow(past[Len(candidates)])
      BY <2>2, SearchesFind DEF PInv, ReasonsFollow
    <3>3. \A said : SaidNow(said) = said \o LateReasons(trace)
      BY <1>2 DEF SaidNow, InHand, Judged
    <3>4. Len(candidates) \in Nat
      BY PrefixesAreLists DEF PInv, TypeOK
    <3>5. past[Len(candidates)] = other[Len(candidates)]
      BY <3>1, <3>2, <3>4, SaysOneThing
    <3> QED BY <3>1, <3>2, <3>3, <3>5
  <2> QED BY <2>1, <2>2, <2>3, <2>4, <2>5, <2>6
<1> QED BY <1>1, <1>2, Zenon DEF ReplayReproduces

\* A replay finds every answer it asks for and comes to the records, the reviews,
\* the reasons and the limit of the run, whatever failed in it and however the
\* artifact keeps the sources.
THEOREM ReplayFaithful == Spec => []ReplayIsFaithful
BY ReplayComesToTheSame, PortsInvariant, PTL

=============================================================================
