------------------------------ MODULE Scoring ------------------------------
(***************************************************************************)
(* From what GitHub answers about a repository to its place in the queue:  *)
(* the metadata requests (adapters.py GitHubRepository.metadata), the      *)
(* score and its coverage (scoring.py), the recommendation, its record in  *)
(* an artifact and the explanation drawn from it (artifact.py, cli.py      *)
(* _explain), and the ranking (cli.py rank_review_items).  Any request may *)
(* be refused or raise.                                                    *)
(***************************************************************************)
EXTENDS Integers, FiniteSets, SequencesExt

CONSTANTS Repos,     \* the repositories, as numbers: their alphabetical order
          Truths,    \* what GitHub knows of one: [commits, contributors, licensed]
          PageSize,  \* per_page (100)
          Weights,   \* WEIGHTS: a number for every feature
          None       \* absent

Features == {"commit_cadence_30d", "contributor_count", "has_license"}

ASSUME ReposAreNumbered == Repos \subseteq Nat /\ IsFiniteSet(Repos)
ASSUME TruthsAreTruths == Truths \subseteq [commits : Nat, contributors : Nat, licensed : BOOLEAN]
ASSUME PagesHoldSomething == PageSize \in Nat \ {0}
ASSUME WeightsArePositive == Weights \in [Features -> Nat \ {0}]

Risks == {"high", "low", "none", "none-found-in-scanned-files", "unknown"}

\* Three observations, which of them were made, and the older form.
Inputs ==
  [commits : Nat \union {None}, contributors : Nat \union {None}, license : {"a license", None},
   observed : SUBSET Features, legacy : [Features -> BOOLEAN \union {None}]]

ASSUME NoneIsNothing == None \notin Nat \union BOOLEAN \union {"a license"} /\ None \notin Inputs

VARIABLES
  fixture,  \* metadata comes from a fixture file, not from GitHub
  clock,    \* the run has a started_at
  pc,       \* "next", a request of metadata, "score" or "done"
  repo,     \* the candidate in hand
  truth,    \* what GitHub knows of it
  risk,     \* what the screening said of it
  total,    \* _count_metadata: what the pages read so far hold
  inputs,   \* its ScoreInputs, None if there is no metadata
  refused,  \* the failed requests: incomplete_because of its metadata
  reasons,  \* the candidates the run is called incomplete for
  items,    \* the candidates that have been scored, as they came
  queue     \* rank_review_items

candidate == <<repo, truth, risk, total, inputs, refused>>
vars      == <<fixture, clock, pc, candidate, reasons, items, queue>>

-----------------------------------------------------------------------------
(* ScoreInputs: observations with their basis, and the older form of plain   *)
(* booleans that fixtures and old artifacts have.                            *)

NoLegacy == [f \in Features |-> None]

Unobserved ==
  [commits |-> None, contributors |-> None, license |-> None,
   observed |-> {}, legacy |-> NoLegacy]

\* A count may be known to be small, a licence may be known to be missing.
Value(in, f) ==
  IF f \notin in.observed THEN in.legacy[f]
  ELSE CASE f = "commit_cadence_30d" -> in.commits # None /\ in.commits >= 4
         [] f = "contributor_count"  -> in.contributors # None /\ in.contributors >= 2
         [] f = "has_license"        -> in.license # None

\* to_dict
Stored(in) ==
  IF in.legacy # NoLegacy THEN [form |-> "legacy", legacy |-> in.legacy]
  ELSE [form |-> "observed", commits |-> in.commits, contributors |-> in.contributors,
        license |-> in.license, observed |-> in.observed]

\* Mutant: what has no value was not observed.
LoadedByValue(record) ==
  IF record.form = "legacy" THEN [Unobserved EXCEPT !.legacy = record.legacy]
  ELSE [commits |-> record.commits, contributors |-> record.contributors, license |-> record.license,
        observed |-> {f \in Features :
                        CASE f = "commit_cadence_30d" -> record.commits # None
                          [] f = "contributor_count"  -> record.contributors # None
                          [] f = "has_license"        -> record.license # None},
        legacy |-> NoLegacy]

\* from_dict
Loaded(record) ==
  IF record.form = "legacy" THEN [Unobserved EXCEPT !.legacy = record.legacy]
  ELSE [commits |-> record.commits, contributors |-> record.contributors, license |-> record.license,
        observed |-> record.observed, legacy |-> NoLegacy]

-----------------------------------------------------------------------------
(* The score, the recommendation and the ranking. *)

\* What each of some features adds, added up.
Total(points, features) ==
  LET of(f) == IF f \in features THEN points[f] ELSE 0
  IN of("commit_cadence_30d") + of("contributor_count") + of("has_license")

\* score: what was seen to hold counts, what was not seen is not covered.
Score(in) ==
  [value    |-> Total(Weights, {f \in Features : Value(in, f) = TRUE}),
   coverage |-> {f \in Features : Value(in, f) # None}]

\* Mutant: one feature is evidence enough.
StatusOfSome(score, verdict) ==
  IF verdict = "high" THEN "blocked"
  ELSE IF score.coverage = {} \/ verdict \in {"unknown", "none-found-in-scanned-files"}
  THEN "insufficient-evidence"
  ELSE IF score.value > 0 THEN "review" ELSE "not-priority"

\* Recommendation.status
Status(score, verdict) ==
  IF verdict = "high" THEN "blocked"
  ELSE IF score.coverage # Features \/ verdict \in {"unknown", "none-found-in-scanned-files"}
  THEN "insufficient-evidence"
  ELSE IF score.value > 0 THEN "review" ELSE "not-priority"

StatusOf(item) == Status(item.score, item.risk)

\* REVIEW_STATUS_ORDER
Place(status) ==
  CASE status = "review"                -> 0
    [] status = "insufficient-evidence" -> 1
    [] status = "not-priority"          -> 2
    [] status = "blocked"               -> 3

\* Mutant: repositories with the same score stay in the order they came in.
BeforeByScore(x, y) ==
  \/ Place(StatusOf(x)) < Place(StatusOf(y))
  \/ Place(StatusOf(x)) = Place(StatusOf(y)) /\ x.score.value > y.score.value

\* The key of rank_review_items: the status, the score, the name.
Before(x, y) ==
  \/ Place(StatusOf(x)) < Place(StatusOf(y))
  \/ /\ Place(StatusOf(x)) = Place(StatusOf(y))
     /\ x.score.value > y.score.value \/ (x.score.value = y.score.value /\ x.repo < y.repo)

\* sorted is stable: what the key does not tell apart stays as it was.
InsertInto(sorted, item) ==
  LET after == {k \in DOMAIN sorted : Before(item, sorted[k])}
      at    == IF after = {} THEN Len(sorted) + 1 ELSE Min(after)
  IN InsertAt(sorted, at, item)

Rank(sequence) ==
  LET ranked[n \in 0 .. Len(sequence)] ==
        IF n = 0 THEN <<>> ELSE InsertInto(ranked[n - 1], sequence[n])
  IN ranked[Len(sequence)]

-----------------------------------------------------------------------------
(* The candidates of a run, one by one, in any order. *)

Requests == <<"commits", "contributors", "license">>

Init ==
  /\ fixture \in BOOLEAN /\ clock \in BOOLEAN
  /\ pc = "next" /\ repo = None /\ truth = None /\ risk = None
  /\ total = 0 /\ inputs = None /\ refused = {}
  /\ reasons = {} /\ items = <<>> /\ queue = None

Scored == {items[k].repo : k \in DOMAIN items}

\* Mutant: a repository that was found twice is a candidate twice.
ScreenAgain == \E c \in Repos, t \in (IF fixture THEN {None} ELSE Truths), r \in Risks :
  /\ pc = "next"
  /\ repo' = c /\ truth' = t /\ risk' = r
  /\ total' = 0 /\ refused' = {}
  /\ IF r = "high" \/ ~clock THEN pc' = "score" /\ inputs' = None
     ELSE pc' = "commits" /\ inputs' = Unobserved
  /\ UNCHANGED <<fixture, clock, reasons, items, queue>>

\* observe_metadata is called for what the screening let pass, if there is a
\* clock.
Screen == \E c \in Repos \ Scored, t \in (IF fixture THEN {None} ELSE Truths), r \in Risks :
  /\ pc = "next"
  /\ repo' = c /\ truth' = t /\ risk' = r
  /\ total' = 0 /\ refused' = {}
  /\ IF r = "high" \/ ~clock THEN pc' = "score" /\ inputs' = None
     ELSE pc' = "commits" /\ inputs' = Unobserved
  /\ UNCHANGED <<fixture, clock, reasons, items, queue>>

\* The request after one of GitHub's.
NextRequest == CASE pc = "commits" -> "contributors" [] pc = "contributors" -> "license" [] OTHER -> "score"

FeatureOf == CASE pc = "commits" -> "commit_cadence_30d"
               [] pc = "contributors" -> "contributor_count"
               [] OTHER -> "has_license"

Counting == ~fixture /\ pc \in {"commits", "contributors"}

\* What the next page holds.
OnPage == IF truth[pc] - total < PageSize THEN truth[pc] - total ELSE PageSize

\* A page with a link to the next one.
CountPage ==
  /\ Counting /\ total + OnPage < truth[pc]
  /\ total' = total + OnPage
  /\ UNCHANGED <<fixture, clock, pc, repo, truth, risk, inputs, refused, reasons, items, queue>>

CountLastPage ==
  /\ Counting /\ total + OnPage = truth[pc]
  /\ total' = 0
  /\ inputs' = [inputs EXCEPT ![pc] = truth[pc], !.observed = @ \union {FeatureOf}]
  /\ pc' = NextRequest
  /\ UNCHANGED <<fixture, clock, repo, truth, risk, refused, reasons, items, queue>>

\* Mutant: what was counted before the refusal is kept.
CountWhatThereIs ==
  /\ Counting
  /\ total' = 0
  /\ inputs' = [inputs EXCEPT ![pc] = total, !.observed = @ \union {FeatureOf}]
  /\ refused' = refused \union {pc}
  /\ pc' = NextRequest
  /\ UNCHANGED <<fixture, clock, repo, truth, risk, reasons, items, queue>>

\* A page is refused: the pages before it do not count.
CountRefused ==
  /\ Counting
  /\ total' = 0
  /\ refused' = refused \union {pc}
  /\ pc' = NextRequest
  /\ UNCHANGED <<fixture, clock, repo, truth, risk, inputs, reasons, items, queue>>

\* A licence, or 404: there is none.
AnswerLicense ==
  /\ ~fixture /\ pc = "license"
  /\ inputs' = [inputs EXCEPT !.license = IF truth.licensed THEN "a license" ELSE None,
                              !.observed = @ \union {FeatureOf}]
  /\ pc' = NextRequest
  /\ UNCHANGED <<fixture, clock, repo, truth, risk, total, refused, reasons, items, queue>>

LicenseRefused ==
  /\ ~fixture /\ pc = "license"
  /\ refused' = refused \union {pc}
  /\ pc' = NextRequest
  /\ UNCHANGED <<fixture, clock, repo, truth, risk, total, inputs, reasons, items, queue>>

\* The connection fails, or an answer is no JSON: there is no metadata.
MetadataRaises ==
  /\ pc \in ToSet(Requests)
  /\ inputs' = None /\ refused' = {"metadata"} /\ total' = 0
  /\ pc' = "score"
  /\ UNCHANGED <<fixture, clock, repo, truth, risk, reasons, items, queue>>

\* A fixture says true, false or nothing of a feature.
ReadFixture == \E legacy \in [Features -> BOOLEAN \union {None}] :
  /\ fixture /\ pc = "commits"
  /\ inputs' = [Unobserved EXCEPT !.legacy = legacy]
  /\ pc' = "score"
  /\ UNCHANGED <<fixture, clock, repo, truth, risk, total, refused, reasons, items, queue>>

\* Without metadata a candidate is scored with nothing observed.
ScoreInputs == IF inputs = None THEN Unobserved ELSE inputs

\* Mutant: a count that was refused leaves the run complete if another was read.
SayIfAllRefused ==
  reasons' = IF Cardinality(refused) > 1 THEN reasons \union {repo} ELSE reasons

SayRefused ==
  reasons' = IF refused # {} THEN reasons \union {repo} ELSE reasons

\* The artifact keeps the inputs, the score and the risk.
ScoreCandidate ==
  /\ pc = "score" /\ pc' = "next"
  /\ items' = Append(items, [repo |-> repo, score |-> Score(ScoreInputs), risk |-> risk])
  /\ SayRefused
  /\ repo' = None /\ truth' = None /\ risk' = None /\ inputs' = None /\ refused' = {}
  /\ UNCHANGED <<fixture, clock, total, queue>>

RankItems ==
  /\ pc = "next" /\ pc' = "done"
  /\ queue' = Rank(items)
  /\ UNCHANGED <<fixture, clock, candidate, reasons, items>>

Next ==
  \/ Screen \/ CountPage \/ CountLastPage \/ CountRefused \/ AnswerLicense \/ LicenseRefused
  \/ MetadataRaises \/ ReadFixture \/ ScoreCandidate \/ RankItems

Spec == Init /\ [][Next]_vars

-----------------------------------------------------------------------------
(* Properties. *)

\* Every variable has the values the code gives it.
TypeOK ==
  /\ fixture \in BOOLEAN /\ clock \in BOOLEAN
  /\ pc \in ToSet(Requests) \union {"next", "score", "done"}
  /\ repo \in Repos \union {None} /\ truth \in Truths \union {None} /\ risk \in Risks \union {None}
  /\ total \in Nat /\ refused \subseteq ToSet(Requests) \union {"metadata"}
  /\ inputs \in Inputs \union {None} /\ reasons \subseteq Repos
  /\ items \in Seq([repo : Repos, score : [value : Nat, coverage : SUBSET Features], risk : Risks])
  /\ \A j, k \in DOMAIN items : items[j].repo = items[k].repo => j = k
  /\ queue # None => ToSet(queue) = ToSet(items) /\ Len(queue) = Len(items)

Judged == pc = "score"

\* What GitHub knows of the candidate in hand, had it all been answered.
Full ==
  [commits |-> truth.commits, contributors |-> truth.contributors,
   license |-> IF truth.licensed THEN "a license" ELSE None,
   observed |-> Features, legacy |-> NoLegacy]

\* A feature that was refused, on whichever page, is neither there nor missing:
\* what the score does cover is what GitHub knows.
CoveredIsTrue == Judged /\ ~fixture =>
  \A f \in Score(ScoreInputs).coverage : Value(ScoreInputs, f) = Value(Full, f)

\* "sufficient evidence": a candidate is called worth a review, or not a
\* priority, only if the answers that were refused could not change that.
StatusIsFinal == Judged /\ ~fixture =>
  LET status == Status(Score(ScoreInputs), risk)
  IN status \in {"review", "not-priority"} => status = Status(Score(Full), risk)

\* In a run over GitHub that has a clock, a candidate the screening let pass
\* whose score is not complete makes the run incomplete, and a complete score
\* does not.  (A fixture's candidates are scored on what the file says and give
\* no reason; without a clock the run names every candidate.)
IncompleteIsSaid == pc = "next" /\ ~fixture /\ clock =>
  reasons = {items[k].repo : k \in {k \in DOMAIN items :
               items[k].risk # "high" /\ items[k].score.coverage # Features}}

\* A request to GitHub that was refused misleads nobody: not the score, not the
\* recommendation, not (given a clock) the exit code of the run.
RefusalsDoNotMislead == CoveredIsTrue /\ StatusIsFinal /\ IncompleteIsSaid

\* The lines of _explain: what each feature adds, or that it is unavailable.
Contribution(in, f) ==
  IF Value(in, f) = None THEN None ELSE IF Value(in, f) THEN Weights[f] ELSE 0

\* An explanation drawn from the artifact accounts for the recorded score: its
\* lines add up to it, and what it calls unavailable is what it does not cover.
ExplanationAddsUp == Judged /\ inputs # None =>
  LET loaded == Loaded(Stored(inputs))
      told   == {f \in Features : Contribution(loaded, f) # None}
  IN /\ told = Score(inputs).coverage
     /\ Total([f \in Features |-> Contribution(loaded, f)], told) = Score(inputs).value

\* The queue of rank_review_items is a matter of the candidates alone: it does
\* not tell in what order they were found.  What it is ordered by, the status before
\* the score, is what the code does and not what ADR-0009 decides.
QueueForgetsArrival == pc = "done" => queue = Rank(Reverse(items))
=============================================================================
