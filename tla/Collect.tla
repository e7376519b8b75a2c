------------------------------ MODULE Collect ------------------------------
(***************************************************************************)
(* One search (gitseed/collect/search.py collect, collect/ratelimit.py,    *)
(* and the limit GitHubRepository.search puts on it): pages are fetched    *)
(* one by one while repositories are pushed, created and deleted, so the   *)
(* list the pages are cut from moves between two requests.  GitHub may     *)
(* give up on a page (incomplete_results), refuse for budget or for        *)
(* permission, or fail; a rate limit is waited for once per page.          *)
(***************************************************************************)
EXTENDS Naturals, Integers, Sequences, FiniteSets, SequencesExt

CONSTANTS Repos,     \* repositories that can match the query
          Limits,    \* the --limit values
          PageCap,   \* the most a page can hold (100)
          Fallback,  \* FALLBACK_WAIT_SECONDS (60)
          MaxWait,   \* MAX_WAIT_SECONDS (3600)
          Times,     \* what the clock can say when a rate limit arrives
          Headers,   \* rate limit headers of a refusal
          None       \* a header, a count or a reason that is not there

ASSUME ReposAreFinite    == IsFiniteSet(Repos)
ASSUME LimitsArePositive == Limits \subseteq Nat \ {0}
ASSUME PageCapIsPositive == PageCap \in Nat \ {0}
ASSUME WaitsArePositive  == Fallback \in Nat \ {0} /\ MaxWait \in Nat \ {0}
ASSUME TimesAreIntegers  == Times \subseteq Int

\* What an integer header, a Retry-After and a reason for stopping can be.
Number     == Int \union {None}
RetryAfter == [unit : {"seconds", "date"}, value : Int]
Reasons    == {"rate-limited", "forbidden", "error", "still rate limited"}

ASSUME NoneIsNothing   == None \notin Int /\ None \notin RetryAfter /\ None \notin Reasons
ASSUME HeadersAreTyped ==
  Headers \subseteq [remaining : Number, retry : RetryAfter \union {None}, reset : Number]

VARIABLES
  limit, wait,  \* the arguments of the search
  matching,     \* what matches the query now, in the order GitHub sorts it
  pc,           \* "get", "retry" after a wait, "done", or "raised"
  page,         \* the page asked for
  candidates,   \* the candidates collected, in order
  complete, reason, fetched, total, partial,  \* the fields of CollectResult
  shrunk,       \* history: something stopped matching during the search
  answered,     \* history: what matched when GitHub last counted
  refusals,     \* history: the requests that were not answered with a page
  slept         \* history: the wait before a retry, with the refusal it answers

arguments == <<limit, wait>>
result    == <<candidates, complete, reason, fetched, total, partial>>
world     == <<matching, shrunk>>
history   == <<answered, refusals, slept>>
vars      == <<arguments, world, pc, page, result, history>>

\* What GitHubRepository.search asks collect for.
Pages   == (limit + PageCap - 1) \div PageCap
PerPage == IF limit < PageCap THEN limit ELSE PageCap

Lists == {s \in UNION {[1 .. n -> Repos] : n \in 0 .. Cardinality(Repos)} : IsInjective(s)}

Init ==
  /\ limit \in Limits /\ wait \in BOOLEAN
  /\ matching \in Lists /\ shrunk = FALSE
  /\ pc = "get" /\ page = 1
  /\ candidates = <<>> /\ complete = TRUE /\ reason = None
  /\ fetched = 0 /\ total = None /\ partial = FALSE
  /\ answered = {} /\ refusals = <<>> /\ slept = None

-----------------------------------------------------------------------------
(* ratelimit.py *)

\* 403 is both "no budget", with an empty budget or a Retry-After, and "no
\* permission".
Classify(status, h) ==
  CASE status = 429 -> "rate-limited"
    [] status = 403 -> IF (h.remaining # None /\ h.remaining <= 0) \/ h.retry # None THEN "rate-limited" ELSE "forbidden"
    [] OTHER        -> "error"

\* Mutant: a reset in the past is slept for as it is.
SecondsUntilPastReset(h, now) ==
  LET delay == IF h.retry # None /\ h.retry.unit = "seconds" THEN h.retry.value
               ELSE IF h.retry # None THEN h.retry.value - now
               ELSE IF h.reset # None THEN h.reset - now ELSE Fallback
  IN IF delay < 0 THEN 0 ELSE delay

\* Retry-After as seconds or as a date, else X-RateLimit-Reset; a Retry-After
\* that is not positive says no time.  A wait of nothing, or one that is over,
\* is replaced by the fallback.
SecondsUntilReset(h, now) ==
  LET delay ==
        CASE h.retry # None /\ h.retry.unit = "seconds" /\ h.retry.value > 0 -> h.retry.value
          [] h.retry # None /\ h.retry.unit = "date"                         -> h.retry.value - now
          [] (h.retry = None \/ (h.retry.unit = "seconds" /\ h.retry.value <= 0))
               /\ h.reset # None                                             -> h.reset - now
          [] OTHER                                                           -> Fallback
  IN IF delay <= 0 THEN Fallback ELSE delay

Capped(seconds) == IF seconds > MaxWait THEN MaxWait ELSE seconds

Wait(h, now) == [headers |-> h, now |-> now, seconds |-> Capped(SecondsUntilReset(h, now))]

-----------------------------------------------------------------------------
(* search.py *)

Window == SubSeq(matching, (page - 1) * PerPage + 1,
                 IF page * PerPage < Len(matching) THEN page * PerPage ELSE Len(matching))

\* What can be left of a list, in its order.
Parts(s) == {p \in Lists : \A i, k \in DOMAIN p :
  i <= k => \E a, b \in DOMAIN s : a <= b /\ s[a] = p[i] /\ s[b] = p[k]}

\* The pages GitHub can answer with: the window of the list as it is now, or
\* what a search that timed out had found of it, or a body that is no object.
Answers ==
  {[items |-> Window, partial |-> FALSE, total |-> Len(matching)]} \union
  {[items |-> found, partial |-> TRUE, total |-> Len(matching)] : found \in Parts(Window)} \union
  {[items |-> <<>>, partial |-> FALSE, total |-> None]}

\* Mutant: what another page already had is collected again.
Collected(items) == {candidates \o items}

\* What is collected once a page is added: the items that were not seen, in order.
New(items) ==
  {candidates \o new : new \in {p \in Parts(items) : ToSet(p) = ToSet(items) \ ToSet(candidates)}}

\* GitHubRepository.search: candidates[:limit].
Cut(s) == SubSeq(s, 1, IF limit < Len(s) THEN limit ELSE Len(s))

\* A page: short pages and the last one asked for end the walk.
TakePage == \E a \in Answers : \E collected \in New(a.items) :
  LET last == Len(a.items) < PerPage \/ page = Pages
  IN /\ candidates' = IF last THEN Cut(collected) ELSE collected
     /\ fetched' = fetched + 1
     /\ partial' = (partial \/ a.partial)
     /\ total' = IF a.total = None THEN total ELSE a.total
     /\ answered' = IF a.total = None THEN answered ELSE ToSet(matching)
     /\ pc' = IF last THEN "done" ELSE "get"
     /\ page' = IF last THEN page ELSE page + 1
     /\ slept' = None
     /\ UNCHANGED <<arguments, world, complete, reason, refusals>>

\* Mutant: a refusal ends the walk as a short page does.
StopQuietly(why) ==
  /\ pc' = "done" /\ slept' = None
  /\ candidates' = Cut(candidates)
  /\ reason' = why
  /\ UNCHANGED <<arguments, world, page, complete, fetched, total, partial, answered>>

Stop(why) ==
  /\ pc' = "done" /\ slept' = None
  /\ candidates' = Cut(candidates)
  /\ complete' = FALSE /\ reason' = why
  /\ UNCHANGED <<arguments, world, page, fetched, total, partial, answered>>

Refused(kind) == refusals' = Append(refusals, [page |-> page, kind |-> kind])

GetPage == pc = "get" /\ TakePage

\* Refused for good: no permission, an unexpected status, or a budget that the
\* caller did not want to wait for.
GiveUp == \E status \in {403, 404, 429, 500}, h \in Headers :
  LET kind == Classify(status, h)
  IN /\ pc = "get"
     /\ kind = "rate-limited" => ~wait
     /\ Refused(kind)
     /\ Stop(kind)

\* Mutant: after the wait the walk starts over with the request it made first.
SleepAndAskAgain == \E status \in {403, 429}, h \in Headers, now \in Times :
  /\ pc = "get" /\ wait
  /\ Classify(status, h) = "rate-limited"
  /\ Refused("rate-limited")
  /\ reason' = "rate-limited"
  /\ Len(refusals) < 2 * Pages
  /\ slept' = Wait(h, now)
  /\ UNCHANGED <<arguments, world, pc, page, candidates, complete, fetched, total, partial, answered>>

\* Out of budget: sleep, then ask once more.
Sleep == \E status \in {403, 429}, h \in Headers, now \in Times :
  /\ pc = "get" /\ wait
  /\ Classify(status, h) = "rate-limited"
  /\ Refused("rate-limited")
  /\ reason' = "rate-limited"
  /\ slept' = Wait(h, now)
  /\ pc' = "retry"
  /\ UNCHANGED <<arguments, world, page, candidates, complete, fetched, total, partial, answered>>

RetryPage == pc = "retry" /\ TakePage

\* Mutant: a retry that is refused for budget waits again.
RetryUntilAnswered == \E h \in Headers, now \in Times :
  /\ pc = "retry"
  /\ Classify(429, h) = "rate-limited"
  /\ slept' = Wait(h, now)
  /\ UNCHANGED <<arguments, world, pc, page, result, answered, refusals>>

\* Any refusal of the retry counts as the rate limit going on.
RetryRefused == \E status \in {403, 404, 429, 500}, h \in Headers :
  /\ pc = "retry"
  /\ Refused(Classify(status, h))
  /\ Stop("still rate limited")

\* The connection fails, the request times out, or the body is no JSON: the
\* exception leaves collect, and what was collected is lost with it.
Raise ==
  /\ pc \in {"get", "retry"}
  /\ pc' = "raised" /\ slept' = None
  /\ UNCHANGED <<arguments, world, page, result, answered, refusals>>

\* Repositories are pushed to, appear and disappear meanwhile.
Move ==
  /\ pc \in {"get", "retry"}
  /\ matching' \in Lists
  /\ shrunk' = (shrunk \/ ~(ToSet(matching) \subseteq ToSet(matching')))
  /\ UNCHANGED <<arguments, pc, page, result, history>>

Walk == GetPage \/ GiveUp \/ Sleep \/ RetryPage \/ RetryRefused \/ Raise

Next == Walk \/ Move

\* GitHub answers every request or it times out, and a sleep ends.
Spec == Init /\ [][Next]_vars /\ WF_vars(Walk)

-----------------------------------------------------------------------------
(* Properties. *)

\* CollectResult.complete_for_search, which the candidate list is headed with.
CompleteForSearch == complete /\ ~partial /\ (total # None => Len(candidates) >= total)

\* Every variable has the values collect gives it.
TypeOK ==
  /\ limit \in Limits /\ wait \in BOOLEAN
  /\ matching \in Lists /\ shrunk \in BOOLEAN
  /\ pc \in {"get", "retry", "done", "raised"} /\ page \in 1 .. Pages
  /\ candidates \in Lists
  /\ complete \in BOOLEAN /\ partial \in BOOLEAN
  /\ reason \in Reasons \union {None}
  /\ fetched \in 0 .. Pages /\ total \in Nat \union {None}
  /\ answered \subseteq Repos

\* A search that calls itself complete misses nothing that matched when its
\* last page was cut, however the list was reordered or grew under the walk -
\* as long as nothing stopped matching meanwhile.
CompleteMissesNothing ==
  pc = "done" /\ CompleteForSearch /\ ~shrunk /\ total # None => answered \subseteq ToSet(candidates)

\* A search that was cut off never passes for one that found no more, and says
\* a reason; only a refusal that a retry got past is forgiven.
CutOffIsSaid ==
  pc = "done" /\ refusals # <<>> =>
    IF complete THEN \A k \in DOMAIN refusals : refusals[k].kind = "rate-limited" /\ wait
                ELSE reason # None

\* A wait is never skipped or endless: it lasts as long as the server asked,
\* up to the cap, and a date that is already over does not make it zero.
WaitsAreRespected == slept # None =>
  LET h       == slept.headers
      over(t) == slept.now + slept.seconds >= t \/ slept.seconds = MaxWait
  IN /\ slept.seconds \in 1 .. MaxWait
     /\ h.retry # None /\ h.retry.unit = "date"    => over(h.retry.value)
     /\ h.retry # None /\ h.retry.unit = "seconds" => over(slept.now + h.retry.value)
     /\ h.retry = None /\ h.reset # None            => over(h.reset)

\* An API that refuses is asked at most twice for one page, and never again
\* after it refused for another reason than the budget.
RefusalsAreHeeded ==
  /\ \A k \in 1 .. Len(refusals) - 2 : refusals[k].page < refusals[k + 2].page
  /\ \A k \in DOMAIN refusals : refusals[k].kind # "rate-limited" => k = Len(refusals)

\* collect calls its result complete only when it is, and otherwise says why
\* it is not.
CompleteIsEarned == CompleteMissesNothing /\ CutOffIsSaid

\* collect waits as long as it is told to and gives up when it is told to.
ServerIsRespected == WaitsAreRespected /\ RefusalsAreHeeded

\* Every search ends.
SearchEnds == <>(pc \in {"done", "raised"})

=============================================================================
