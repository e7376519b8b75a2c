--------------------------- MODULE Collect_proofs ---------------------------
(***************************************************************************)
(* Theorems about Collect: what a search returns has its types, a search   *)
(* that calls itself complete is, and the server's refusals and waits are  *)
(* heeded, for any set of repositories, page size, limit and headers.      *)
(***************************************************************************)
EXTENDS Collect, FiniteSetTheorems, SequenceTheorems, TLAPS

-----------------------------------------------------------------------------
(* The inductive invariant behind CompleteIsEarned and ServerIsRespected.  *)

Asking == pc \in {"get", "retry"}

\* Every page before this one has been fetched.
FetchedSoFar == fetched <= Pages /\ (Asking => fetched = page - 1)

\* While nothing stops matching, what is collected was counted, and what was
\* counted still matches; the total counts it.
CountedStillMatches ==
  /\ ~shrunk => ToSet(candidates) \subseteq answered /\ answered \subseteq ToSet(matching)
  /\ IF total = None THEN answered = {} ELSE total = Cardinality(answered)

\* A search that is complete got past every refusal, and one that is not has
\* a reason.
RefusalsExplain ==
  IF complete THEN \A k \in DOMAIN refusals : refusals[k].kind = "rate-limited" /\ wait
              ELSE reason # None

\* What was refused before the request that comes next: earlier pages, this
\* page once if the request is the retry, and nothing else than the budget.
RefusedSoFar ==
  /\ refusals \in Seq([page : Nat, kind : Reasons])
  /\ pc = "get" => \A k \in DOMAIN refusals : refusals[k].page < page
  /\ pc = "retry" => \A k \in 1 .. Len(refusals) - 1 : refusals[k].page < page
  /\ Asking => \A k \in DOMAIN refusals :
                 refusals[k].page <= page /\ refusals[k].kind = "rate-limited"

CInv == /\ TypeOK /\ FetchedSoFar /\ CountedStillMatches /\ RefusalsExplain
        /\ RefusedSoFar /\ RefusalsAreHeeded /\ WaitsAreRespected

-----------------------------------------------------------------------------
(* Lemmas about lists. *)

\* A list is a sequence of repositories that has each at most once, and as many
\* elements as repositories are in it.
LEMMA ListsAreInjectiveSequences ==
  /\ \A s : s \in Lists <=> s \in Seq(Repos) /\ IsInjective(s)
  /\ \A s \in Lists : /\ ToSet(s) \subseteq Repos /\ IsFiniteSet(ToSet(s))
                      /\ Len(s) \in Nat /\ Len(s) = Cardinality(ToSet(s))
<1>1. ASSUME NEW s \in Seq(Repos), IsInjective(s)
      PROVE  s \in Lists
  <2>1. Len(s) \in Nat /\ DOMAIN s = 1 .. Len(s) /\ s \in [1 .. Len(s) -> Repos]
    OBVIOUS
  <2>2. s \in Injection(1 .. Len(s), Repos)
    BY <1>1, <2>1 DEF Injection
  <2>3. IsFiniteSet(Repos)
    BY ReposAreFinite
  <2>4. Cardinality(1 .. Len(s)) <= Cardinality(Repos)
    BY <2>2, <2>3, FS_Injection
  <2>5. Cardinality(1 .. Len(s)) = Len(s)
    <3>1. Cardinality(1 .. Len(s)) = IF 1 > Len(s) THEN 0 ELSE Len(s) - 1 + 1
      BY <2>1, FS_Interval
    <3> QED BY <2>1, <3>1
  <2>6. Cardinality(Repos) \in Nat
    BY <2>3, FS_CardinalityType
  <2>7. Len(s) \in 0 .. Cardinality(Repos)
    BY <2>1, <2>4, <2>5, <2>6
  <2> QED BY <1>1, <2>1, <2>7 DEF Lists
<1>2. ASSUME NEW s \in Lists
      PROVE  s \in Seq(Repos) /\ IsInjective(s)
  <2>1. PICK n \in 0 .. Cardinality(Repos) : s \in [1 .. n -> Repos]
    BY <1>2 DEF Lists
  <2>2. Cardinality(Repos) \in Nat
    BY ReposAreFinite, FS_CardinalityType
  <2>3. n \in Nat
    BY <2>2
  <2> QED BY <1>2, <2>1, <2>3 DEF Lists
<1>3. ASSUME NEW s \in Lists
      PROVE  /\ ToSet(s) \subseteq Repos /\ IsFiniteSet(ToSet(s))
             /\ Len(s) \in Nat /\ Len(s) = Cardinality(ToSet(s))
  <2>1. s \in Seq(Repos) /\ IsInjective(s)
    BY <1>2
  <2>2. Len(s) \in Nat /\ DOMAIN s = 1 .. Len(s) /\ \A i \in 1 .. Len(s) : s[i] \in Repos
    BY <2>1
  <2>3. ToSet(s) \subseteq Repos
    BY <2>2 DEF ToSet
  <2>4. s \in [1 .. Len(s) -> ToSet(s)]
    BY <2>1, <2>2 DEF ToSet
  <2>5. s \in Injection(1 .. Len(s), ToSet(s)) /\ s \in Surjection(1 .. Len(s), ToSet(s))
    BY <2>1, <2>2, <2>4 DEF Injection, Surjection, ToSet
  <2>6. ExistsBijection(1 .. Len(s), ToSet(s))
    BY <2>5 DEF ExistsBijection, Bijection
  <2>7. Cardinality(ToSet(s)) = Len(s)
    BY <2>2, <2>6, FS_CountingElements
  <2>8. IsFiniteSet(ToSet(s))
    BY <2>3, ReposAreFinite, FS_Subset
  <2> QED BY <2>2, <2>3, <2>7, <2>8
<1> QED BY <1>1, <1>2, <1>3

\* A piece of a list is a list, and has nothing the list has not.
LEMMA PiecesAreLists ==
  ASSUME NEW s \in Lists, NEW m \in Nat \ {0}, NEW n \in Nat, n <= Len(s)
  PROVE  /\ SubSeq(s, m, n) \in Lists
         /\ ToSet(SubSeq(s, m, n)) \subseteq ToSet(s)
<1> DEFINE p == SubSeq(s, m, n)
<1>1. /\ s \in Seq(Repos) /\ IsInjective(s)
      /\ Len(s) \in Nat /\ DOMAIN s = 1 .. Len(s) /\ \A i \in 1 .. Len(s) : s[i] \in Repos
  BY ListsAreInjectiveSequences
<1>2. \A i \in m .. n : s[i] \in Repos
  BY <1>1
<1>3. /\ p \in Seq(Repos)
      /\ Len(p) = IF m <= n THEN n - m + 1 ELSE 0
      /\ \A i \in 1 .. n - m + 1 : p[i] = s[m + i - 1]
  BY <1>2, SubSeqProperties
<1> HIDE DEF p
<1>4. DOMAIN p = 1 .. Len(p) /\ 1 .. Len(p) = 1 .. n - m + 1
  BY <1>3
<1>5. \A i \in DOMAIN p : m + i - 1 \in DOMAIN s /\ p[i] = s[m + i - 1]
  BY <1>1, <1>3, <1>4
<1>6. IsInjective(p)
  <2> SUFFICES ASSUME NEW i \in DOMAIN p, NEW k \in DOMAIN p, p[i] = p[k]
               PROVE  i = k
    BY DEF IsInjective
  <2>1. m + i - 1 = m + k - 1
    BY <1>1, <1>5 DEF IsInjective
  <2> QED BY <1>4, <2>1
<1>7. ToSet(p) \subseteq ToSet(s)
  BY <1>5 DEF ToSet
<1> QED BY <1>3, <1>6, <1>7, ListsAreInjectiveSequences DEF p

\* A search asks for at least one page of at least one repository.
LEMMA PagesArePositive ==
  ASSUME limit \in Limits
  PROVE  limit \in Nat \ {0} /\ PerPage \in Nat \ {0} /\ Pages \in Nat \ {0}
<1>1. limit \in Nat \ {0} /\ PageCap \in Nat \ {0}
  BY LimitsArePositive, PageCapIsPositive
<1>2. PerPage \in Nat \ {0}
  BY <1>1 DEF PerPage
<1>3. ASSUME NEW a \in Nat, NEW b \in Nat \ {0}, a >= b
      PROVE  a \div b \in Nat \ {0}
  BY <1>3
<1>4. limit + PageCap - 1 \in Nat /\ limit + PageCap - 1 >= PageCap
  BY <1>1
<1>5. Pages \in Nat \ {0}
  BY <1>1, <1>3, <1>4 DEF Pages
<1> QED BY <1>1, <1>2, <1>5

\* A part of a list is a list, and has nothing the list has not.
LEMMA PartsAreLists ==
  ASSUME NEW s, NEW p \in Parts(s)
  PROVE  p \in Lists /\ ToSet(p) \subseteq ToSet(s)
<1>1. p \in Lists /\ \A i \in DOMAIN p : \E a \in DOMAIN s : s[a] = p[i]
  <2>1. ASSUME NEW i \in DOMAIN p PROVE \E a \in DOMAIN s : s[a] = p[i]
    <3>1. i \in Int
      BY ListsAreInjectiveSequences DEF Parts
    <3>2. i <= i
      BY <3>1
    <3> QED BY <2>1, <3>2 DEF Parts
  <2> QED BY <2>1 DEF Parts
<1> QED BY <1>1 DEF ToSet

\* What GitHub answers with: repositories of the list as it is, with their
\* number, or a body that says nothing.
LEMMA AnswersAreOfTheList ==
  ASSUME limit \in Limits, matching \in Lists, page \in Nat \ {0}, NEW a \in Answers
  PROVE  /\ a.items \in Lists /\ ToSet(a.items) \subseteq ToSet(matching)
         /\ a.partial \in BOOLEAN
         /\ a.total = Len(matching) \/ (a.total = None /\ a.items = <<>>)
<1>1. Window \in Lists /\ ToSet(Window) \subseteq ToSet(matching)
  <2> DEFINE first == (page - 1) * PerPage + 1
             last == IF page * PerPage < Len(matching) THEN page * PerPage ELSE Len(matching)
  <2>1. PerPage \in Nat \ {0} /\ Len(matching) \in Nat
    BY PagesArePositive, ListsAreInjectiveSequences
  <2>2. first \in Nat \ {0}
    <3>1. page - 1 \in Nat
      OBVIOUS
    <3>2. (page - 1) * PerPage \in Nat
      BY <2>1, <3>1
    <3> QED BY <3>2
  <2>3. last \in Nat /\ last <= Len(matching)
    <3>1. page * PerPage \in Nat
      BY <2>1
    <3> QED BY <2>1, <3>1
  <2> HIDE DEF first, last
  <2>4. SubSeq(matching, first, last) \in Lists
        /\ ToSet(SubSeq(matching, first, last)) \subseteq ToSet(matching)
    BY <2>2, <2>3, PiecesAreLists
  <2> QED BY <2>4 DEF Window, first, last
<1>2. ASSUME NEW found \in Parts(Window)
      PROVE  found \in Lists /\ ToSet(found) \subseteq ToSet(matching)
  BY <1>1, PartsAreLists
<1>3. <<>> \in Lists /\ ToSet(<<>>) \subseteq ToSet(matching)
  <2>1. <<>> \in Seq(Repos) /\ DOMAIN <<>> = {}
    OBVIOUS
  <2>2. IsInjective(<<>>) /\ ToSet(<<>>) = {}
    BY <2>1 DEF IsInjective, ToSet
  <2> QED BY <2>1, <2>2, ListsAreInjectiveSequences
<1>4. CASE a = [items |-> Window, partial |-> FALSE, total |-> Len(matching)]
  BY <1>1, <1>4
<1>5. CASE \E found \in Parts(Window) :
             a = [items |-> found, partial |-> TRUE, total |-> Len(matching)]
  BY <1>2, <1>5
<1>6. CASE a = [items |-> <<>>, partial |-> FALSE, total |-> None]
  BY <1>3, <1>6
<1> QED BY <1>4, <1>5, <1>6 DEF Answers

\* The page's new repositories come after the ones collected, none twice.
LEMMA NewIsAList ==
  ASSUME candidates \in Lists, NEW items \in Lists, NEW c \in New(items)
  PROVE  c \in Lists /\ ToSet(c) = ToSet(candidates) \union ToSet(items)
<1>0. PICK o \in Parts(items) : ToSet(o) = ToSet(items) \ ToSet(candidates) /\ c = candidates \o o
  BY DEF New
<1>1. /\ candidates \in Seq(Repos) /\ IsInjective(candidates)
      /\ items \in Seq(Repos) /\ IsInjective(items) /\ ToSet(items) \subseteq Repos
  BY ListsAreInjectiveSequences
<1>2. o \in Seq(Repos) /\ ToSet(o) = ToSet(items) \ ToSet(candidates) /\ IsInjective(o)
  BY <1>0, PartsAreLists, ListsAreInjectiveSequences
<1>3. /\ c \in Seq(Repos) /\ Len(c) = Len(candidates) + Len(o)
      /\ \A i \in 1 .. Len(candidates) + Len(o) :
           c[i] = IF i <= Len(candidates) THEN candidates[i] ELSE o[i - Len(candidates)]
  BY <1>0, <1>1, <1>2, ConcatProperties
<1>4. /\ DOMAIN candidates = 1 .. Len(candidates) /\ Len(candidates) \in Nat
      /\ DOMAIN o = 1 .. Len(o) /\ Len(o) \in Nat
      /\ DOMAIN c = 1 .. Len(candidates) + Len(o)
  BY <1>1, <1>2, <1>3
<1>5. \A i \in DOMAIN c :
        \/ i \in DOMAIN candidates /\ c[i] = candidates[i]
        \/ i > Len(candidates) /\ i - Len(candidates) \in DOMAIN o /\ c[i] = o[i - Len(candidates)]
  BY <1>3, <1>4
<1>6. \A i \in DOMAIN candidates : i \in DOMAIN c /\ c[i] = candidates[i]
  BY <1>3, <1>4
<1>7. \A i \in DOMAIN o : i + Len(candidates) \in DOMAIN c /\ c[i + Len(candidates)] = o[i]
  BY <1>3, <1>4
<1>8. \A i \in DOMAIN candidates : \A k \in DOMAIN o : candidates[i] # o[k]
  BY <1>2 DEF ToSet
<1>9. IsInjective(c)
  <2> SUFFICES ASSUME NEW i \in DOMAIN c, NEW k \in DOMAIN c, c[i] = c[k]
               PROVE  i = k
    BY DEF IsInjective
  <2> DEFINE n == Len(candidates)
  <2>1. CASE i \in DOMAIN candidates /\ k \in DOMAIN candidates
    BY <1>1, <1>6, <2>1 DEF IsInjective
  <2>2. CASE i - n \in DOMAIN o /\ k - n \in DOMAIN o /\ c[i] = o[i - n] /\ c[k] = o[k - n]
    <3>1. i - n = k - n
      BY <1>2, <2>2 DEF IsInjective
    <3> QED BY <1>4, <3>1
  <2>3. ~(i \in DOMAIN candidates /\ k - n \in DOMAIN o /\ c[k] = o[k - n])
    BY <1>6, <1>8
  <2>4. ~(k \in DOMAIN candidates /\ i - n \in DOMAIN o /\ c[i] = o[i - n])
    BY <1>6, <1>8
  <2> HIDE DEF n
  <2> QED BY <1>5, <2>1, <2>2, <2>3, <2>4 DEF n
<1>10. ToSet(c) = ToSet(candidates) \union ToSet(o)
  <2>1. ToSet(c) \subseteq ToSet(candidates) \union ToSet(o)
    BY <1>5 DEF ToSet
  <2>2. ToSet(candidates) \subseteq ToSet(c)
    BY <1>6 DEF ToSet
  <2>3. ToSet(o) \subseteq ToSet(c)
    BY <1>7 DEF ToSet
  <2> QED BY <2>1, <2>2, <2>3
<1>11. ToSet(candidates) \union ToSet(o) = ToSet(candidates) \union ToSet(items)
  BY <1>1, <1>2
<1> QED BY <1>3, <1>9, <1>10, <1>11, ListsAreInjectiveSequences

\* The cut to the limit drops repositories and adds none.
LEMMA CutIsAList ==
  ASSUME limit \in Limits, NEW s \in Lists
  PROVE  Cut(s) \in Lists /\ ToSet(Cut(s)) \subseteq ToSet(s)
<1> DEFINE n == IF limit < Len(s) THEN limit ELSE Len(s)
<1>1. limit \in Nat /\ Len(s) \in Nat
  BY PagesArePositive, ListsAreInjectiveSequences
<1>2. n \in Nat /\ n <= Len(s) /\ 1 \in Nat \ {0}
  BY <1>1
<1> HIDE DEF n
<1> QED BY <1>2, PiecesAreLists DEF Cut, n

-----------------------------------------------------------------------------
(* Lemmas about waits and refusals. *)

\* Every refusal is of a kind that is a reason.
LEMMA ClassesAreReasons ==
  ASSUME NEW status, NEW h
  PROVE  Classify(status, h) \in Reasons
BY DEF Classify, Reasons

\* A wait that follows the headers is neither zero nor endless, and lasts as
\* long as they ask for.
LEMMA HeadersAreFollowed ==
  ASSUME NEW h \in Headers, NEW now \in Times, slept' = Wait(h, now)
  PROVE  WaitsAreRespected'
<1> DEFINE secs == SecondsUntilReset(h, now)
           sec  == Capped(secs)
           over(t) == now + sec >= t \/ sec = MaxWait
<1>1. /\ now \in Int /\ Fallback \in Nat \ {0} /\ MaxWait \in Nat \ {0}
      /\ h \in [remaining : Number, retry : RetryAfter \union {None}, reset : Number]
  BY TimesAreIntegers, WaitsArePositive, HeadersAreTyped
<1>2. /\ h.retry # None => /\ h.retry.unit \in {"seconds", "date"} /\ h.retry.value \in Int
                           /\ h.retry = [unit |-> h.retry.unit, value |-> h.retry.value]
      /\ h.reset # None => h.reset \in Int
  BY <1>1 DEF Number, RetryAfter
<1>3. \A d \in Int : (IF d <= 0 THEN Fallback ELSE d) \in Nat \ {0}
                     /\ (IF d <= 0 THEN Fallback ELSE d) >= d
  BY <1>1
<1>4. /\ secs \in Nat \ {0}
      /\ h.retry # None /\ h.retry.unit = "date"    => secs >= h.retry.value - now
      /\ h.retry # None /\ h.retry.unit = "seconds" => secs >= h.retry.value
      /\ h.retry = None /\ h.reset # None           => secs >= h.reset - now
  <2>1. CASE h.retry # None /\ h.retry.unit = "seconds"
    <3>1. CASE h.retry.value > 0
      BY <1>1, <1>2, <2>1, <3>1 DEF SecondsUntilReset
    <3>2. CASE ~(h.retry.value > 0)
      <4>1. h.reset # None => h.reset - now \in Int
        BY <1>1, <1>2
      <4>2. secs \in Nat \ {0}
        BY <1>1, <1>2, <1>3, <2>1, <3>2, <4>1 DEF SecondsUntilReset
      <4> HIDE DEF secs
      <4>3. secs >= h.retry.value
        BY <1>2, <2>1, <3>2, <4>2
      <4> QED BY <2>1, <4>2, <4>3
    <3> QED BY <3>1, <3>2
  <2>2. CASE h.retry # None /\ h.retry.unit = "date"
    BY <1>1, <1>2, <2>2 DEF SecondsUntilReset
  <2>3. CASE h.retry = None
    BY <1>1, <1>2, <2>3 DEF SecondsUntilReset
  <2> QED BY <1>2, <2>1, <2>2, <2>3
<1>5. /\ sec \in 1 .. MaxWait
      /\ \A t \in Int : secs >= t => sec >= t \/ sec = MaxWait
  <2> HIDE DEF secs
  <2> QED BY <1>1, <1>4 DEF Capped
<1> HIDE DEF secs, sec
<1>6. /\ h.retry # None /\ h.retry.unit = "date"    => over(h.retry.value)
      /\ h.retry # None /\ h.retry.unit = "seconds" => over(now + h.retry.value)
      /\ h.retry = None /\ h.reset # None           => over(h.reset)
  <2>1. ASSUME NEW t \in Int, secs >= t - now
        PROVE  over(t)
    <3>1. sec >= t - now \/ sec = MaxWait
      BY <1>1, <1>5, <2>1
    <3>2. sec \in Int
      BY <1>1, <1>5
    <3> QED BY <1>1, <3>1, <3>2
  <2>2. ASSUME h.retry # None, h.retry.unit = "seconds"
        PROVE  over(now + h.retry.value)
    <3>1. (now + h.retry.value) - now = h.retry.value /\ now + h.retry.value \in Int
      BY <1>1, <1>2, <2>2
    <3>2. secs >= (now + h.retry.value) - now
      BY <1>4, <2>2, <3>1
    <3> QED BY <2>1, <3>1, <3>2
  <2> QED BY <1>2, <1>4, <2>1, <2>2
<1>7. slept' = [headers |-> h, now |-> now, seconds |-> sec]
  BY DEF Wait, sec, secs
<1>8. slept'.headers = h /\ slept'.now = now /\ slept'.seconds = sec
  BY <1>7
<1> QED BY <1>5, <1>6, <1>8 DEF WaitsAreRespected

\* One more refusal while the search is asking: the API is still heeded, and
\* the other refusals are what they were.
LEMMA OneMoreRefusal ==
  ASSUME CInv, Asking, NEW kind \in Reasons, Refused(kind)
  PROVE  /\ refusals' \in Seq([page : Nat, kind : Reasons])
         /\ Len(refusals) \in Nat /\ Len(refusals') = Len(refusals) + 1
         /\ \A k \in 1 .. Len(refusals) : refusals'[k] = refusals[k]
         /\ refusals'[Len(refusals) + 1] = [page |-> page, kind |-> kind]
         /\ RefusalsAreHeeded'
<1> DEFINE n == Len(refusals)
           R == [page : Nat, kind : Reasons]
           e == [page |-> page, kind |-> kind]
<1>1. /\ refusals \in Seq(R) /\ n \in Nat /\ DOMAIN refusals = 1 .. n
      /\ page \in Nat /\ e \in R
  <2>1. refusals \in Seq(R) /\ limit \in Limits /\ page \in 1 .. Pages
    BY DEF CInv, TypeOK, RefusedSoFar
  <2>2. page \in Nat
    BY <2>1
  <2> QED BY <2>1, <2>2
<1>2. /\ refusals' = Append(refusals, e)
  BY DEF Refused
<1> HIDE DEF e, R
<1>3. /\ refusals' \in Seq(R) /\ Len(refusals') = n + 1
      /\ \A k \in 1 .. n : refusals'[k] = refusals[k]
      /\ refusals'[n + 1] = e
  <2>1. refusals \in Seq(R) /\ e \in R
    BY <1>1
  <2> QED BY <1>2, <2>1, AppendProperties
<1>4. DOMAIN refusals' = 1 .. n + 1
  BY <1>1, <1>3
<1>5. e.page = page /\ e.kind = kind
  BY DEF e
<1>6. /\ \A k \in 1 .. n - 2 : refusals[k].page < refusals[k + 2].page
      /\ \A k \in 1 .. n : refusals[k].kind = "rate-limited"
      /\ \A k \in 1 .. n - 1 : refusals[k].page < page
  <2>1. /\ \A k \in 1 .. n - 2 : refusals[k].page < refusals[k + 2].page
        /\ \A k \in 1 .. n : refusals[k].kind = "rate-limited"
    BY <1>1 DEF CInv, RefusalsAreHeeded, RefusedSoFar
  <2>2. CASE pc = "get"
    <3>1. \A k \in 1 .. n : refusals[k].page < page
      BY <1>1, <2>2 DEF CInv, RefusedSoFar
    <3>2. 1 .. n - 1 \subseteq 1 .. n
      BY <1>1
    <3> QED BY <2>1, <3>1, <3>2
  <2>3. CASE pc = "retry"
    BY <1>1, <2>1, <2>3 DEF CInv, RefusedSoFar
  <2> QED BY <2>2, <2>3 DEF Asking
<1>10. n \in Nat
  BY <1>1
<1>11. Len(refusals') = n + 1
  BY <1>3
<1> HIDE DEF n
<1>7. \A k \in 1 .. (n + 1) - 2 : refusals'[k].page < refusals'[k + 2].page
  <2>0. (n + 1) - 2 = n - 1
    BY <1>10
  <2> SUFFICES ASSUME NEW k \in 1 .. n - 1
               PROVE  refusals'[k].page < refusals'[k + 2].page
    BY <2>0
  <2>1. refusals'[k] = refusals[k]
    BY <1>1, <1>3
  <2>2. CASE k = n - 1
    <3>1. k + 2 = n + 1
      BY <1>1, <2>2
    <3> QED BY <1>3, <1>5, <1>6, <2>1, <3>1
  <2>3. CASE k # n - 1
    <3>1. k \in 1 .. n - 2 /\ k + 2 \in 1 .. n
      BY <1>10, <2>3
    <3> QED BY <1>3, <1>6, <2>1, <3>1
  <2> QED BY <2>2, <2>3
<1>8. \A k \in 1 .. n + 1 : refusals'[k].kind # "rate-limited" => k = n + 1
  <2> SUFFICES ASSUME NEW k \in 1 .. n + 1, k # n + 1
               PROVE  refusals'[k].kind = "rate-limited"
    OBVIOUS
  <2>1. k \in 1 .. n
    BY <1>1
  <2> QED BY <1>3, <1>6, <2>1
<1>9. RefusalsAreHeeded'
  BY <1>4, <1>7, <1>8, <1>11 DEF RefusalsAreHeeded
<1> QED BY <1>1, <1>3, <1>9 DEF e, R, n

-----------------------------------------------------------------------------
(* The inductive invariant. *)

\* A search starts with nothing collected, counted or refused.
LEMMA InitCInv == Init => CInv
<1> SUFFICES ASSUME Init PROVE CInv
  OBVIOUS
<1>1. limit \in Limits /\ Pages \in Nat \ {0}
  BY PagesArePositive DEF Init
<1>2. <<>> \in Lists /\ ToSet(<<>>) = {}
  <2>1. <<>> \in Seq(Repos) /\ DOMAIN <<>> = {}
    OBVIOUS
  <2>2. IsInjective(<<>>) /\ ToSet(<<>>) = {}
    BY <2>1 DEF IsInjective, ToSet
  <2> QED BY <2>1, <2>2, ListsAreInjectiveSequences
<1>3. TypeOK
  <2>1. 1 \in 1 .. Pages /\ 0 \in 0 .. Pages
    BY <1>1
  <2>2. {} \subseteq Repos
    OBVIOUS
  <2> QED BY <1>2, <2>1, <2>2 DEF Init, TypeOK
<1>4. FetchedSoFar
  <2>1. 0 <= Pages /\ 0 = 1 - 1
    BY <1>1
  <2> QED BY <2>1 DEF Init, FetchedSoFar
<1>5. CountedStillMatches
  BY <1>2 DEF Init, CountedStillMatches
<1>6. refusals = <<>> /\ complete = TRUE /\ slept = None /\ pc = "get"
  BY DEF Init
<1>7. Len(refusals) = 0 /\ DOMAIN refusals = {} /\ refusals \in Seq([page : Nat, kind : Reasons])
  BY <1>6
<1>8. RefusalsExplain /\ RefusedSoFar /\ WaitsAreRespected
  BY <1>6, <1>7 DEF RefusalsExplain, RefusedSoFar, WaitsAreRespected
<1>9. RefusalsAreHeeded
  <2>1. 1 .. Len(refusals) - 2 = {}
    BY <1>7
  <2> QED BY <1>7, <2>1 DEF RefusalsAreHeeded
<1> QED BY <1>3, <1>4, <1>5, <1>8, <1>9 DEF CInv

\* A page keeps the invariant, whether it is the first answer or the retry's.
LEMMA TakePageKeepsCInv ==
  ASSUME CInv, Asking, TakePage
  PROVE  CInv'
<1>1. /\ limit \in Limits /\ wait \in BOOLEAN /\ matching \in Lists /\ shrunk \in BOOLEAN
      /\ page \in 1 .. Pages /\ candidates \in Lists
      /\ complete \in BOOLEAN /\ partial \in BOOLEAN /\ reason \in Reasons \union {None}
      /\ total \in Nat \union {None} /\ answered \subseteq Repos
  BY DEF CInv, TypeOK
<1>0. PICK a \in Answers : \E collected \in New(a.items) :
        LET last == Len(a.items) < PerPage \/ page = Pages
        IN /\ candidates' = IF last THEN Cut(collected) ELSE collected
           /\ fetched' = fetched + 1
           /\ partial' = (partial \/ a.partial)
           /\ total' = IF a.total = None THEN total ELSE a.total
           /\ answered' = IF a.total = None THEN answered ELSE ToSet(matching)
           /\ pc' = IF last THEN "done" ELSE "get"
           /\ page' = IF last THEN page ELSE page + 1
           /\ slept' = None
           /\ UNCHANGED <<arguments, world, complete, reason, refusals>>
  BY DEF TakePage
<1>2. PICK collected \in New(a.items) :
        LET last == Len(a.items) < PerPage \/ page = Pages
        IN /\ candidates' = IF last THEN Cut(collected) ELSE collected
           /\ fetched' = fetched + 1
           /\ partial' = (partial \/ a.partial)
           /\ total' = IF a.total = None THEN total ELSE a.total
           /\ answered' = IF a.total = None THEN answered ELSE ToSet(matching)
           /\ pc' = IF last THEN "done" ELSE "get"
           /\ page' = IF last THEN page ELSE page + 1
           /\ slept' = None
           /\ UNCHANGED <<arguments, world, complete, reason, refusals>>
  BY <1>0
<1> DEFINE last == Len(a.items) < PerPage \/ page = Pages
<1>3. /\ Pages \in Nat \ {0} /\ page \in Nat /\ 1 <= page /\ page <= Pages
  BY <1>1, PagesArePositive
<1>4. UNCHANGED <<limit, wait, matching, shrunk, complete, reason, refusals>> /\ Pages' = Pages
  BY <1>2 DEF arguments, world, Pages
<1>5. /\ a.items \in Lists /\ ToSet(a.items) \subseteq ToSet(matching)
      /\ a.partial \in BOOLEAN
      /\ a.total = Len(matching) \/ (a.total = None /\ a.items = <<>>)
  BY <1>1, <1>3, AnswersAreOfTheList
<1>6. /\ candidates' \in Lists
      /\ ToSet(candidates') \subseteq ToSet(candidates) \union ToSet(a.items)
  <2>1. collected \in Lists /\ ToSet(collected) = ToSet(candidates) \union ToSet(a.items)
    BY <1>1, <1>5, NewIsAList
  <2>2. Cut(collected) \in Lists /\ ToSet(Cut(collected)) \subseteq ToSet(collected)
    BY <1>1, <2>1, CutIsAList
  <2> QED BY <1>2, <2>1, <2>2
<1>7. /\ Len(matching) \in Nat /\ Len(matching) = Cardinality(ToSet(matching))
      /\ ToSet(matching) \subseteq Repos
  BY <1>1, ListsAreInjectiveSequences
<1>8. fetched = page - 1 /\ fetched \in Nat
  BY <1>3 DEF CInv, TypeOK, FetchedSoFar
<1>9. /\ pc' \in {"done", "get"}
      /\ pc' = "get" => page' = page + 1 /\ page + 1 <= Pages
      /\ pc' = "done" => page' = page
      /\ fetched' = page
  <2>1. fetched' = page
    BY <1>2, <1>3, <1>8
  <2>2. page # Pages => page + 1 <= Pages
    BY <1>3
  <2>3. CASE last
    BY <1>2, <2>1, <2>3
  <2>4. CASE ~last
    BY <1>2, <2>1, <2>2, <2>4
  <2> QED BY <2>3, <2>4
<1>10. page' \in 1 .. Pages /\ fetched' \in 0 .. Pages /\ page' \in Nat /\ page <= page'
  BY <1>3, <1>9
<1>11. total' \in Nat \union {None} /\ answered' \subseteq Repos
  BY <1>1, <1>2, <1>5, <1>7
<1>12. TypeOK'
  <2>1. partial' \in BOOLEAN
    BY <1>1, <1>2, <1>5
  <2> QED BY <1>1, <1>4, <1>6, <1>9, <1>10, <1>11, <2>1 DEF TypeOK
<1>13. FetchedSoFar'
  <2>1. pc' = "get" => fetched' = page' - 1
    BY <1>3, <1>9
  <2>2. fetched' <= Pages /\ pc' # "retry"
    BY <1>3, <1>9
  <2> QED BY <1>4, <2>1, <2>2 DEF FetchedSoFar, Asking
<1>14. CountedStillMatches'
  <2>1. /\ ~shrunk => ToSet(candidates) \subseteq answered /\ answered \subseteq ToSet(matching)
        /\ IF total = None THEN answered = {} ELSE total = Cardinality(answered)
    BY DEF CInv, CountedStillMatches
  <2>2. CASE a.total = None
    <3>1. a.items = <<>> /\ total' = total /\ answered' = answered
      <4>1. Len(matching) # None
        BY <1>7, NoneIsNothing
      <4> QED BY <1>2, <1>5, <2>2, <4>1
    <3>2. ToSet(a.items) = {}
      BY <3>1 DEF ToSet
    <3> QED BY <1>4, <1>6, <2>1, <3>1, <3>2 DEF CountedStillMatches
  <2>3. CASE a.total # None
    <3>1. a.total = Len(matching) /\ total' = Len(matching) /\ answered' = ToSet(matching)
      BY <1>2, <1>5, <2>3
    <3>2. total' # None /\ total' = Cardinality(answered')
      BY <1>7, <2>3, <3>1
    <3> QED BY <1>4, <1>5, <1>6, <2>1, <3>1, <3>2 DEF CountedStillMatches
  <2> QED BY <2>2, <2>3
<1>15. RefusalsExplain'
  BY <1>4 DEF CInv, RefusalsExplain
<1>16. RefusedSoFar'
  <2>1. /\ refusals \in Seq([page : Nat, kind : Reasons])
        /\ \A k \in DOMAIN refusals : refusals[k].page <= page /\ refusals[k].kind = "rate-limited"
        /\ \A k \in DOMAIN refusals : refusals[k].page \in Nat
    <3> DEFINE R == [page : Nat, kind : Reasons]
    <3>1. refusals \in Seq(R)
      BY DEF CInv, RefusedSoFar
    <3>2. \A k \in DOMAIN refusals : refusals[k].page <= page /\ refusals[k].kind = "rate-limited"
      BY DEF CInv, RefusedSoFar
    <3>3. \A r \in R : r.page \in Nat
      OBVIOUS
    <3> HIDE DEF R
    <3>4. \A k \in DOMAIN refusals : refusals[k] \in R
      BY <3>1
    <3> QED BY <3>1, <3>2, <3>3, <3>4 DEF R
  <2>2. \A k \in DOMAIN refusals : refusals[k].page <= page'
                                   /\ (pc' = "get" => refusals[k].page < page')
    <3> SUFFICES ASSUME NEW k \in DOMAIN refusals
                 PROVE  refusals[k].page <= page' /\ (pc' = "get" => refusals[k].page < page')
      OBVIOUS
    <3> DEFINE p == refusals[k].page
    <3>1. p \in Nat /\ p <= page
      BY <2>1
    <3> HIDE DEF p
    <3>2. p <= page' /\ (pc' = "get" => p < page')
      BY <1>3, <1>9, <1>10, <3>1
    <3> QED BY <3>2 DEF p
  <2> QED BY <1>4, <1>9, <2>1, <2>2 DEF RefusedSoFar
<1>17. RefusalsAreHeeded'
  BY <1>4 DEF CInv, RefusalsAreHeeded
<1>18. WaitsAreRespected'
  BY <1>2 DEF WaitsAreRespected
<1> QED BY <1>12, <1>13, <1>14, <1>15, <1>16, <1>17, <1>18 DEF CInv

\* A search that stops at a refusal keeps the invariant.
LEMMA StopKeepsCInv ==
  ASSUME CInv, Asking, NEW kind \in Reasons, NEW why \in Reasons, Refused(kind), Stop(why)
  PROVE  CInv'
<1>1. /\ limit \in Limits /\ candidates \in Lists
  BY DEF CInv, TypeOK
<1>2. /\ pc' = "done" /\ slept' = None /\ candidates' = Cut(candidates)
      /\ complete' = FALSE /\ reason' = why
      /\ UNCHANGED <<limit, wait, matching, shrunk, page, fetched, total, partial, answered>>
  BY DEF Stop, arguments, world
<1>3. candidates' \in Lists /\ ToSet(candidates') \subseteq ToSet(candidates) /\ Pages' = Pages
  BY <1>1, <1>2, CutIsAList DEF Pages
<1>4. TypeOK'
  <2>1. why \in Reasons \union {None} /\ complete' \in BOOLEAN
    BY <1>2
  <2> QED BY <1>2, <1>3, <2>1 DEF CInv, TypeOK
<1>5. FetchedSoFar' /\ WaitsAreRespected'
  BY <1>2, <1>3 DEF CInv, FetchedSoFar, WaitsAreRespected, Asking
<1>6. CountedStillMatches'
  BY <1>2, <1>3 DEF CInv, CountedStillMatches
<1>7. RefusalsExplain'
  BY <1>2, NoneIsNothing DEF RefusalsExplain
<1>8. RefusedSoFar' /\ RefusalsAreHeeded'
  BY <1>2, OneMoreRefusal DEF RefusedSoFar, Asking
<1> QED BY <1>4, <1>5, <1>6, <1>7, <1>8 DEF CInv

\* A sleep keeps the invariant.
LEMMA SleepKeepsCInv ==
  ASSUME CInv, Sleep
  PROVE  CInv'
<1>1. PICK status \in {403, 429}, h \in Headers, now \in Times :
        /\ pc = "get" /\ wait
        /\ Refused("rate-limited")
        /\ reason' = "rate-limited"
        /\ slept' = Wait(h, now)
        /\ pc' = "retry"
        /\ UNCHANGED <<arguments, world, page, candidates, complete, fetched, total, partial, answered>>
  BY DEF Sleep
<1>2. /\ Asking /\ "rate-limited" \in Reasons
      /\ UNCHANGED <<limit, wait, matching, shrunk, page, candidates, complete, fetched, total, partial, answered>>
      /\ Pages' = Pages
  BY <1>1 DEF Asking, Reasons, arguments, world, Pages
<1> DEFINE n == Len(refusals)
           R == [page : Nat, kind : Reasons]
           e == [page |-> page, kind |-> "rate-limited"]
<1>3. /\ refusals' \in Seq(R)
      /\ n \in Nat /\ Len(refusals') = n + 1
      /\ \A k \in 1 .. n : refusals'[k] = refusals[k]
      /\ refusals'[n + 1] = e
      /\ RefusalsAreHeeded'
  BY <1>1, <1>2, OneMoreRefusal
<1>4. e.page = page /\ e.kind = "rate-limited"
  OBVIOUS
<1>5. /\ refusals \in Seq(R) /\ page \in 1 .. Pages
      /\ \A k \in DOMAIN refusals : refusals[k].page < page /\ refusals[k].page <= page
                                    /\ refusals[k].kind = "rate-limited"
  BY <1>1, <1>2 DEF CInv, TypeOK, RefusedSoFar
<1>6. DOMAIN refusals = 1 .. n /\ DOMAIN refusals' = 1 .. n + 1 /\ page \in Nat
  BY <1>3, <1>5
<1> HIDE DEF n, e, R
<1>7. \A k \in 1 .. n + 1 : k \in 1 .. n \/ k = n + 1
  BY <1>3
<1>8. \A k \in 1 .. n + 1 : refusals'[k].page <= page /\ refusals'[k].kind = "rate-limited"
  <2>1. page <= page
    BY <1>6
  <2> QED BY <1>3, <1>4, <1>5, <1>6, <1>7, <2>1
<1>9. TypeOK'
  <2>1. reason' \in Reasons \union {None} /\ pc' \in {"get", "retry", "done", "raised"}
    BY <1>1, <1>2
  <2>2. TypeOK
    BY DEF CInv
  <2> QED BY <1>2, <2>1, <2>2 DEF TypeOK
<1>10. FetchedSoFar' /\ CountedStillMatches'
  BY <1>2 DEF CInv, FetchedSoFar, CountedStillMatches, Asking
<1>11. RefusalsExplain'
  <2>1. reason' # None
    BY <1>1, <1>2, NoneIsNothing
  <2>2. \A k \in DOMAIN refusals' : refusals'[k].kind = "rate-limited" /\ wait'
    BY <1>1, <1>2, <1>6, <1>8
  <2> QED BY <2>1, <2>2 DEF RefusalsExplain
<1>12. RefusedSoFar'
  <2>1. Len(refusals') - 1 = n
    BY <1>3
  <2>2. \A k \in 1 .. Len(refusals') - 1 : refusals'[k].page < page
    BY <1>3, <1>5, <1>6, <2>1
  <2> QED BY <1>1, <1>2, <1>3, <1>6, <1>8, <2>2 DEF RefusedSoFar, R
<1>13. WaitsAreRespected'
  BY <1>1, HeadersAreFollowed
<1> QED BY <1>3, <1>9, <1>10, <1>11, <1>12, <1>13 DEF CInv

\* The list moving keeps the invariant.
LEMMA MoveKeepsCInv ==
  ASSUME CInv, Move
  PROVE  CInv'
<1>1. /\ matching' \in Lists
      /\ shrunk' = (shrunk \/ ~(ToSet(matching) \subseteq ToSet(matching')))
      /\ UNCHANGED <<limit, wait, pc, page, candidates, complete, reason, fetched, total,
                     partial, answered, refusals, slept>>
      /\ Pages' = Pages
  BY DEF Move, arguments, result, history, Pages
<1>2. TypeOK'
  <2>1. shrunk' \in BOOLEAN
    BY <1>1
  <2> QED BY <1>1, <2>1 DEF CInv, TypeOK
<1>3. CountedStillMatches'
  <2>1. ~shrunk' => ~shrunk /\ ToSet(matching) \subseteq ToSet(matching')
    BY <1>1
  <2> QED BY <1>1, <2>1 DEF CInv, CountedStillMatches
<1>4. FetchedSoFar' /\ RefusalsExplain' /\ RefusalsAreHeeded' /\ WaitsAreRespected'
  BY <1>1 DEF CInv, FetchedSoFar, RefusalsExplain, RefusalsAreHeeded, WaitsAreRespected, Asking
<1>5. RefusedSoFar'
  BY <1>1 DEF CInv, RefusedSoFar, Asking
<1> QED BY <1>2, <1>3, <1>4, <1>5 DEF CInv

\* An exception keeps the invariant: nothing is asked after it.
LEMMA RaiseKeepsCInv ==
  ASSUME CInv, Raise
  PROVE  CInv'
<1>1. /\ pc' = "raised" /\ slept' = None
      /\ UNCHANGED <<limit, wait, matching, shrunk, page, candidates, complete, reason, fetched, total,
                     partial, answered, refusals>>
      /\ Pages' = Pages
  BY DEF Raise, arguments, world, result, Pages
<1>2. TypeOK' /\ CountedStillMatches'
  BY <1>1 DEF CInv, TypeOK, CountedStillMatches
<1>3. FetchedSoFar' /\ RefusalsExplain' /\ RefusalsAreHeeded' /\ WaitsAreRespected'
  BY <1>1 DEF CInv, FetchedSoFar, RefusalsExplain, RefusalsAreHeeded, WaitsAreRespected, Asking
<1>4. RefusedSoFar'
  BY <1>1 DEF CInv, RefusedSoFar, Asking
<1> QED BY <1>2, <1>3, <1>4 DEF CInv

\* Every step of a search keeps the invariant.
LEMMA NextCInv == CInv /\ [Next]_vars => CInv'
<1> SUFFICES ASSUME CInv, [Next]_vars PROVE CInv'
  OBVIOUS
<1>1. CASE GetPage
  BY <1>1, TakePageKeepsCInv DEF GetPage, Asking
<1>2. CASE GiveUp
  <2>1. PICK status \in {403, 404, 429, 500}, h \in Headers :
          pc = "get" /\ Refused(Classify(status, h)) /\ Stop(Classify(status, h))
    BY <1>2 DEF GiveUp
  <2>2. Classify(status, h) \in Reasons /\ Asking
    BY <2>1, ClassesAreReasons DEF Asking
  <2> QED BY <2>1, <2>2, StopKeepsCInv
<1>3. CASE Sleep
  BY <1>3, SleepKeepsCInv
<1>4. CASE RetryPage
  BY <1>4, TakePageKeepsCInv DEF RetryPage, Asking
<1>5. CASE RetryRefused
  <2>1. PICK status \in {403, 404, 429, 500}, h \in Headers :
          /\ pc = "retry"
          /\ Refused(Classify(status, h))
          /\ Stop("still rate limited")
    BY <1>5, Zenon DEF RetryRefused
  <2>2. Classify(status, h) \in Reasons /\ Asking /\ "still rate limited" \in Reasons
    BY <2>1, ClassesAreReasons DEF Asking, Reasons
  <2> QED BY <2>1, <2>2, StopKeepsCInv
<1>6. CASE Raise
  BY <1>6, RaiseKeepsCInv
<1>7. CASE Move
  BY <1>7, MoveKeepsCInv
<1>8. CASE UNCHANGED vars
  <2>1. /\ UNCHANGED <<limit, wait, matching, shrunk, pc, page, candidates, complete, reason, fetched,
                       total, partial, answered, refusals, slept>>
        /\ Pages' = Pages
    BY <1>8 DEF vars, arguments, world, result, history, Pages
  <2>2. TypeOK' /\ CountedStillMatches'
    BY <2>1 DEF CInv, TypeOK, CountedStillMatches
  <2>3. FetchedSoFar' /\ RefusalsExplain' /\ RefusalsAreHeeded' /\ WaitsAreRespected'
    BY <2>1 DEF CInv, FetchedSoFar, RefusalsExplain, RefusalsAreHeeded, WaitsAreRespected, Asking
  <2>4. RefusedSoFar'
    BY <2>1 DEF CInv, RefusedSoFar, Asking
  <2> QED BY <2>2, <2>3, <2>4 DEF CInv
<1> QED BY <1>1, <1>2, <1>3, <1>4, <1>5, <1>6, <1>7, <1>8 DEF Next, Walk

-----------------------------------------------------------------------------
(* Theorems. *)

\* The inductive invariant holds in every state of a search.
THEOREM SearchInvariant == Spec => []CInv
<1>1. Init => CInv
  BY InitCInv
<1>2. CInv /\ [Next]_vars => CInv'
  BY NextCInv
<1> QED BY <1>1, <1>2, PTL DEF Spec

\* Every variable of a search has the values collect gives it: no page past the
\* last, no candidate twice, no more fetches than pages.
THEOREM TypeCorrect == Spec => []TypeOK
<1>1. CInv => TypeOK
  BY DEF CInv
<1> QED BY <1>1, SearchInvariant, PTL

\* A search that calls itself complete misses nothing that matched when it was
\* counted last and matches still: it has as many candidates as were counted,
\* each once and each counted.
LEMMA CompleteMissesNothingFollows == CInv => CompleteMissesNothing
<1> SUFFICES ASSUME CInv, CompleteForSearch, ~shrunk, total # None
             PROVE  answered \subseteq ToSet(candidates)
  BY DEF CompleteMissesNothing
<1>1. Len(candidates) >= total /\ total = Cardinality(answered) /\ ToSet(candidates) \subseteq answered
  BY DEF CompleteForSearch, CInv, CountedStillMatches
<1>2. IsFiniteSet(answered)
  BY ReposAreFinite, FS_Subset DEF CInv, TypeOK
<1>3. Len(candidates) \in Nat /\ Len(candidates) = Cardinality(ToSet(candidates))
  BY ListsAreInjectiveSequences DEF CInv, TypeOK
<1>4. Cardinality(answered) \in Nat
  BY <1>2, FS_CardinalityType
<1>5. Cardinality(ToSet(candidates)) <= Cardinality(answered)
  BY <1>1, <1>2, FS_Subset
<1>6. Cardinality(ToSet(candidates)) = Cardinality(answered)
  BY <1>1, <1>3, <1>4, <1>5
<1> QED BY <1>1, <1>2, <1>6, FS_Subset

\* collect calls its result complete only when it is, whatever moves under the
\* walk, and a search that was cut off says why.
THEOREM CompleteEarned == Spec => []CompleteIsEarned
<1>1. CInv => CompleteIsEarned
  <2> SUFFICES ASSUME CInv PROVE CutOffIsSaid
    BY CompleteMissesNothingFollows DEF CompleteIsEarned
  <2> QED BY DEF CInv, RefusalsExplain, CutOffIsSaid
<1> QED BY <1>1, SearchInvariant, PTL

\* collect waits as long as it is told to, never for nothing and never without
\* end, asks at most twice for a page, and gives up when it is told to.
THEOREM ServerRespected == Spec => []ServerIsRespected
<1>1. CInv => ServerIsRespected
  BY DEF CInv, ServerIsRespected
<1> QED BY <1>1, SearchInvariant, PTL

-----------------------------------------------------------------------------
(* A search ends: the requests it has left. *)

\* The requests the walk may still make, each counted twice: once for the page
\* and once for the retry after a wait.
RequestsLeft ==
  IF pc = "get" THEN 2 * (Pages - page) + 2
  ELSE IF pc = "retry" THEN 2 * (Pages - page) + 1
  ELSE 0

\* The walk gets shorter with each step of collect, however long the list grows
\* and whatever GitHub answers; nothing outside makes it longer.
WalkGetsShorter ==
  [][/\ RequestsLeft' \in Nat /\ RequestsLeft' <= RequestsLeft
     /\ Walk => RequestsLeft' < RequestsLeft]_vars

\* A page leads to the next one or to the end.
LEMMA PagesRunOut ==
  ASSUME CInv, TakePage, pc \in {"get", "retry"}
  PROVE  RequestsLeft' \in Nat /\ RequestsLeft' < RequestsLeft
<1>1. Pages \in Nat /\ page \in 1 .. Pages /\ Pages' = Pages
  BY PagesArePositive DEF CInv, TypeOK, TakePage, arguments, Pages
<1>2. \/ pc' = "done" /\ page' = page
      \/ pc' = "get" /\ page' = page + 1 /\ page # Pages
  BY DEF TakePage
<1> QED BY <1>1, <1>2 DEF RequestsLeft

\* A search comes to an end for any repositories, page size, limit and headers:
\* each step of collect leaves it fewer requests, and there are never less than none.
THEOREM WalkIsFinite == Spec => WalkGetsShorter
<1>1. ASSUME CInv, [Next]_vars
      PROVE  [/\ RequestsLeft' \in Nat /\ RequestsLeft' <= RequestsLeft
              /\ Walk => RequestsLeft' < RequestsLeft]_vars
  <2> SUFFICES ASSUME Next
               PROVE  /\ RequestsLeft' \in Nat /\ RequestsLeft' <= RequestsLeft
                      /\ Walk => RequestsLeft' < RequestsLeft
    BY <1>1
  <2>1. Pages \in Nat /\ page \in 1 .. Pages
    BY <1>1, PagesArePositive DEF CInv, TypeOK
  <2>2. CASE GetPage \/ RetryPage
    BY <1>1, <2>1, <2>2, PagesRunOut DEF GetPage, RetryPage, RequestsLeft
  <2>3. CASE GiveUp \/ RetryRefused \/ Raise
    <3>1. pc \in {"get", "retry"} /\ pc' \in {"done", "raised"}
      BY <2>3 DEF GiveUp, RetryRefused, Raise, Stop
    <3>2. RequestsLeft' = 0 /\ RequestsLeft \in Nat /\ RequestsLeft > 0
      BY <2>1, <3>1 DEF RequestsLeft
    <3> QED BY <3>2
  <2>4. CASE Sleep
    BY <2>1, <2>4 DEF Sleep, arguments, Pages, RequestsLeft
  <2>5. CASE Move /\ ~Walk
    BY <2>1, <2>5 DEF Move, arguments, Pages, RequestsLeft
  <2> QED BY <2>2, <2>3, <2>4, <2>5 DEF Next, Walk
<1> QED BY <1>1, SearchInvariant, PTL DEF Spec, WalkGetsShorter
=============================================================================
