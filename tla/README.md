# gitseed in TLA+

gitseed searches GitHub, screens and grades what it finds, lets a person decide
on a terminal, records every decision as a git commit, stars and follows on the
person's behalf, and keeps every run in a SQLite file. This directory models
the parts of it whose correctness depends on order, failure and concurrency:
TLA+ modules, TLC configurations that check them on small instances, and TLAPS
proofs for all instances. Source paths below are relative to `gitseed/` in the
repository.

    tlc -workers 2 -config MCGitHead.cfg MCGitHead.tla
    tlapm GitHead_proofs.tla

`PROJECT.json` lists the components, the runs, the code lines every definition
models, the hazards each property is for, the plausible bugs ("mutants") that
each property catches, and the theorems. Properties that answer one question are
named apart, with a comment and a mutant each, and checked as one conjunction
(`DigestIsTrue`, say). A definition whose
comment starts with "Mutant:" is such a bug; no specification uses it.

## 1. Inventory

| component | state it keeps | operations | what is hard |
|---|---|---|---|
| **Search** `collect/search.py`, `collect/ratelimit.py` | candidates, `seen`, `complete`, `stopped_because`, `pages_fetched`, `total_count` | `collect`: page walk, one wait for a rate limit, one retry; `classify`, `parse`, `seconds_until_reset` | the result set moves between pages; the retry can answer anything; a shortened list must say so |
| **Run** `pipeline/run.py`, `application.py` | per candidate: metadata, files, grade, failures; `incomplete_because`, `rate_limited` | `execute`: clock, search, smoke gate, per candidate read, screen, observe, grade; category evidence | every port can fail at every candidate; a failure must reach the result, and may not stop the others |
| **Replay** `application.py`, `artifact.py` | the recorded artifact | `render`, `replay`, `re_evaluate`, port answers taken from the artifact | replaying must take every branch the recorded run took, failures included |
| **Model input** `pipeline/run.py` `_digest` | the content budget, the sizes included of each file | sampling of files, sharing the budget out, cutting to whole characters, shrinking the budget until the digest fits | termination, since the numbers in the digest change its size; accounting that matches the bytes sent; no file crowding out another |
| **Source selection** `cli.py` `GitHubClient.fetch_files`, `screen/*` | bytes and files read, skipped paths, coverage | tree walk with caps, screening, severity | caps must surface as incomplete coverage |
| **Smoke gate, grading** `grade/smoke.py`, `grade/types.py`, `cli.py` `OllamaGrader` | the answers of the model so far, the smoke result | `run_smoke`, `evaluate`, `flags_malicious` | a model that fails, or changes its mind, at any call must not grade |
| **GitHub metadata** `adapters.py` | the pages counted so far, the requests that were refused | `metadata`, `_count_metadata` | a count cut short must not pass for a small count |
| **Scoring, ranking** `scoring.py`, `evidence.py`, `cli.py` `rank_review_items`, `_explain` | what was observed of each feature, and how | `score`, `Recommendation.status`, `to_dict`/`from_dict`, sorting | missing data must not count as absence, nor make the queue depend on the order of arrival |
| **Categories** `category.py` | none | reading evidence from the files, matching the packs | the evidence must survive the selection of files, and a refused file must not become a denial |
| **Review session** `cli.py` `main`, `review/approval.py`, `review/actions.py` | approvals, performed actions, exit code | ask, bulk answer, split into actions, commit intent, act, record outcome, skip, compensate, store | a call or a commit fails, is lost or arrives late at each step; process death; exit code |
| **Decision commits** `review/commit.py` | the repository: branches, commits | `commit` as `rev-parse`, `rev-parse ^{tree}`/`mktree`, `commit-tree`, `update-ref` | four processes, no lock, other committers, branch switches, unborn branches |
| **Decision record** `review/trailers.py`, `review/commit.py`, `review/approval.py` | none | the lines of an intent, collapsing bulk groups, cutting the prompt, "Undo" of an outcome | two limits that must agree; a record that counts every decision once; "easy" said of a call whose answer never came |
| **Run store** `storage.py`, `storage_schema.py` | the SQLite file: version, tables, triggers, rows | open and migrate, `save`, `load`, `history` | migration outside a transaction, other openers, statement failure, death inside a script |
| **Commands** `cli.py` `render`, `replay`, `explain`, `export`, `history` | none of their own | read an artifact, print it | printing only |
| **Measurement scripts** `m0.py`, `scripts/` | none | offline reports | not part of a run |

How they meet: `main` runs `execute`, which calls the ports (search, files,
metadata, model, clock) synchronously; the artifact it returns is ranked and
shown; the review session asks, calls `record_decisions` (one commit of the
intent), then per action calls GitHub and `record_outcome` (one commit each);
last the run store saves the artifact. Nothing in one process runs
concurrently. Concurrency is between processes: several gitseed sessions, the
user's own git, GitHub applying a request later than gitseed waits for it, and
several openers of one SQLite file.

## 2. Modules

| module | models | composed with |
|---|---|---|
| `DecisionLog` | abstract: an append-only log that says "committed" only of what it holds | implemented by `GitHead` |
| `GitHead` | `SubprocessGitCommitter.commit`, one action per git process, several gitseeds and other committers | |
| `ApprovedWrites` | abstract: one durable grant, only granted actions touch the account | implemented by `ReviewCycle` |
| `ReviewCycle` | `main` from the queue to the exit code | uses the commit as one step, which `GitHead` justifies |
| `RunStore` | `SQLiteRunStore`, one action per SQL statement that matters | |
| `Collect` | `collect` page by page over a list that moves, the rate limit, the wait | |
| `DecisionRecord` | what the commits of a session say | extends `ReviewCycle`; checked on its states |
| `RunPorts` | `execute` and `run` over their ports, then `re_evaluate` from an artifact of each source mode | takes the result of a search as one answer |
| `SourceSelection` | `fetch_files`, the coverage and what severity may be said | the files port, which `RunPorts` takes as one answer |
| `Category` | the evidence and the category packs | extends `SourceSelection`: classifies the files it selected and read |
| `Digest` | the helpers of `_digest`: sampling, sharing, cutting, the size of a rendering | functions only, used by `Grading` |
| `Grading` | `run_smoke`, then `_digest` as the loop it is, then the question to the model | the smoke and model ports of `RunPorts` |
| `Scoring` | `metadata` page by page, the score, its artifact form, the recommendation, the queue | the metadata port of `RunPorts`; its queue is `Ranked` of `ReviewCycle` |
| `MC*` | the instances TLC checks | |
| `*_proofs` | theorems of the module of that name, checked by TLAPS; each states its inductive invariant | `ReviewCycle_proofs` also proves about `DecisionRecord`, `Grading_proofs` about `Digest`, `Category_proofs` about `SourceSelection` |

### GitHead and DecisionLog

State: the branch `HEAD` names, the tip of each branch, the commit objects with
their tree and ancestors; and per gitseed process the local variables of
`commit` (`parent`, `tree`, `sha`) and which git process is next. `ReadHead`
may answer `Unborn` although there are commits, because the code reads every
failure of `rev-parse` that way (`review/commit.py:69`). `UpdateRef` is git's
compare-and-swap on whatever branch `HEAD` names *at that moment*. `Abandon` is
a failing git process (`CommitFailed`) or the death of gitseed; from `return`
it is a git killed after it moved the ref. `ExternalCommit`, `ExternalSwitch`
and `ExternalOrphan` are the user's own git, between any two steps.

The run `git_head` asks: do four processes without a lock still behave like one
atomic append? It checks that a reported record stays in the history
(`ReportedStaysReachable`, INV-006), that no branch ever loses a commit
(`NoCommitDropped`), that a record changes nobody's files
(`RecordLeavesTreeAlone`), and that the module implements `DecisionLog`
(`ImplementsLog`). The answer is yes: the expected value given to `update-ref`
makes all three of parent, tree and branch current, even across a switch,
because objects never change.

Bounds: two gitseed processes, two branches, two trees, four commits. Two
processes and an outside committer give every pair of racing writers, two
branches every switch, and four commits a behaviour in which each writer
commits, loses a race and commits on top. Symmetry in processes, commits and
branches is sound, since the checked properties are all safety properties and
the configuration treats the values alike.

### ReviewCycle and ApprovedWrites

State: `pc` is the line `main` is at, `approvals`, `performed`, `failedAt`
(`failed_at`), `code` are its variables; `intent`, `outcomes` are what the
git history says; `told` is what stderr named to the operator ("action failed",
"compensation failed", before the outcome is committed), and `pending` that it said
"outcome commit failed; intent remains pending", which names neither the action nor
its outcome; `remote` is the account and `late` the requests gitseed gave up that GitHub may
still apply. One action per call the code makes, each with its failing twin.
`CallFails` has the three outcomes a timed-out request can have: nothing,
applied, or applied later (`LandLate`). `Unheard = TRUE` lets a commit git
reports as failed have landed.

The run `review_cycle` checks one session over two repositories of one owner:

* `OnlyWhatWasAnswered`: a new star or follow was answered for;
* `ExitCodeIsHonest`: exit code 0 means all of it is in effect and recorded in the
  history (`CleanExitMeansAllDone`), and what a failed session leaves behind is noted
  as a failed call or a failed compensation (`FailureIsAccountedFor`). The converse
  is not true of the code, as section 3 says;
* `OutcomesCanBeBelieved`: what the history says of an action is so
  (`OutcomesAreTrue`), never contradicts itself (`OutcomesAreConsistent`), and after a
  failure no action is without an outcome unless the operator was told that one is
  not recorded (`EachHasAnOutcome`);
* `IntentIsComplete`, `EasyMeansReversible`: see `DecisionRecord`;
* `ImplementsApprovedWrites`: nothing touches the account before the grant;
* `ReviewEnds`: a session that has its answers ends.

Fairness is `WF_vars(Work)`, the code's own straight-line progress: `main` takes
its next step when the call it waits for is over. Requests to GitHub have a
timeout (`UrllibTransport`, 30 seconds). The git processes have none; they are
local and ask nothing, so the model assumes that each of them ends. Nothing is assumed about the person, who may never answer, nor
about `LandLate` and `Die`.

Two repositories are enough for every position of a failure (first, middle with
"both", last), and one owner makes two approvals name the same follow, which is
where compensation twice can go wrong. The account already holds the star
of the second repository, which a session may ask for again, call or leave
unattempted; the other star and the follow are new to it. The theorems are for
every account.

### DecisionRecord

What the commits of a session say, as operators over the states of
`ReviewCycle`: `IntentLines` is `render_decisions` with
`_collapse_large_bulk_groups`, `Omitted` the cut of the prompt in
`_bounded_listing`, `UndoOf` the "Undo" of `render_outcome`. A line is a decision
with its target or with a count. It stands in the place of the approval it is
written for, and `Speakers` are the approvals that have one: `IntentLines` is a
function of those places, whose order is the order of the lines. `Ways` is whether the answers may have been one
answer to the whole queue (`--approve-all`), which gives every approval the same
prompt, answer and time, and so the same key. The run `review_cycle` checks on
every state of a session:

* `IntentIsComplete`: whatever is collapsed, each decision is in the intent once,
  by its target or in the count of its kind (`IntentCountsEveryDecision`); and
  the prompt leaves rows out exactly when the intent leaves targets unnamed, and
  counts the same ones (`WhatIsOmittedIsCounted`). The two limits are one
  constant used in two ways: the listing has a header, the group has not;
* `EasyMeansReversible`: when all that is said of an action by name is "Undo: easy",
  it is at the end as was said and no request about it is under way. One case is
  otherwise, and the property has it as an alternative (`TakenBackUnsaid`): the
  star was recorded as "succeeded, Undo: easy", another action failed, the star was
  taken back, and the commit of "compensated" failed. The log then goes on saying
  "succeeded, Undo: easy" of a star that is gone; all the operator heard is that
  some outcome is not recorded.

Bounds: limits of 1, 2 and 3 with a queue of two: collapsed, just not, and far
from it. An answer of "both" gives two approvals for a row of the listing, so its
four approvals are two groups of two.

### RunStore

State: the file (`version`, `schema`, rows) and per process the stage of
`__init__`/`save`, the version it read, and the next statement of the script.
`executescript` commits each statement on its own and the version is read
outside any transaction, so each is a step. The run `run_store` has three
processes on a new, version 1, current, foreign or newer file, with statement
failures and deaths everywhere:

* `NoHalfMigration`: races alone never leave a half-made schema (a script that
  was cut short does);
* `RowsAreGuarded`: no row without the triggers that make it immutable;
* `VersionNeverGoesBack`: a stale reader never lowers the version;
* `ToldIsTrue`: "stored" and the warning about observations are both true.

Why it holds: the first statement of each script is a `CREATE TABLE` without
`IF NOT EXISTS`, and works as a lock. The four runs that can be stored cover a
repeated id, a correction, a run that corrects itself, and a run without
observations. Three processes: one migrates, one is stale, one arrives late.

### Collect

State: the arguments, the page asked for, the fields of `CollectResult`, and
outside the code the list GitHub cuts its pages from, which `Move` may replace
by any other between two requests. Histories hold what matched at the last
count (`answered`), whether anything stopped matching (`shrunk`), the refusals and
the wait. A search that timed out at GitHub answers with any part of the page, in
its order (`Parts`), and of a page the items that were not seen before are added in
theirs (`New`). `GetPage`, `Sleep`, `RetryPage`, `RetryRefused`, `GiveUp`, `Raise` are the
ways an iteration of the loop can go.

The run `collect` checks:

* `CompleteIsEarned`: a search that calls itself complete has everything that
  matched when the last page was counted, provided nothing stopped matching
  meanwhile (else a candidate that is gone makes up, in the count, for one the
  walk slid past) (`CompleteMissesNothing`); and a refusal never passes for a
  short last page (`CutOffIsSaid`);
* `ServerIsRespected`: a wait lasts as long as the server asked, up to the cap,
  and is never zero (`WaitsAreRespected`); there are at most two requests for a
  page, and none after a refusal for another reason than the budget
  (`RefusalsAreHeeded`);
* `SearchEnds`, under `WF_vars(Walk)`: a request is answered or times out and a
  sleep is finite because it is capped.

Bounds: three repositories, a limit of one (one page of one) and of three (two
pages of at most two), so there is a page boundary to slide over and a cut by
the limit. Eight header sets cover each branch of `seconds_until_reset`, with
resets before the clock, near, and beyond the cap. `wait=True` is what a caller
of the library may ask for; the command line never does. The total that GitHub
counts is taken to be right at the moment it is given.

### RunPorts

State: `trace` is what the artifact will hold of every port's answer,
`reviewed`, `reasons` (`incomplete_because`) and `limited` (`rate_limited`) the
result. One action per port call, whose answer is any of the port's answers in a
live run and the recorded one in a replay (`Only` is what a loop over a list keeps
of it): the same actions run twice, the
second time with `source` for ports, as `re_evaluate` does. Between the two the
run becomes an artifact under one of the three source modes (`Artifact`): only
`full-source` keeps the text of the files, and `Replayable` is the guard of
`_require_full_source`, which lets an artifact of another mode through if no file
was read in the run.

The run `run_ports` checks:

* `FailuresAreReported`: exit code 0 if and only if nothing failed at the clock, the
  search, the files, the metadata or the model (`CompleteMeansWhole`); a quota that
  runs out for files or metadata sets the flag, and nothing else does
  (`QuotaIsReported`). The fifth port, the reader of category evidence, is asked
  when the result is made (`ReadEvidence`): what it raises is a `PortFailure` of the
  artifact and reaches neither the reasons nor the flag, as a test asks for
  (`tests/test_seam.py:368`);
* `MaliciousIsLeftAlone`: no metadata request and no model for a repository that
  scans as malicious;
* `ReplayIsFaithful`: the replay of any run that may be replayed, whatever failed
  in it, asks only what was recorded (`ReplayFindsEveryAnswer`) and comes to the
  same outcome (`ReplayReproduces`), but for one wording. The category evidence is
  no part of that: a replay asks the reader again.

Two candidates with every content, every failure and every metadata answer: what
one leaves behind (a reason already said, the flag) meets the other. A whole
run and its replay terminate, so deadlock is not checked.

### SourceSelection

State: the repository (`tree`) and how much of it GitHub listed (`listed`), and
the local variables of `fetch_files`: `selected`, `bytes` (`total_bytes`), `regular`
(`regular_selected`), `files`, `skipped` (`skipped_policy`), `errors`
(`skipped_error`), `limited`. `pc` is the loop it is in and `ahead` what that loop
has still to look at, in the order of the tree (`IsNext`). `ListTree` is the request
for the tree and the loop that sorts it into the two lists (`Candidates`); each
round of the loop over the manifests is a `PickPriority`, each round of the loop
over the sources a `PickRegular`. Every request after that is a step and may be
refused (`BlobRefused`) or raise (`Raise`), which loses what was read.

The run `source_selection` checks:

* `NoneMissesNothing`: a repository is called "none" only if no eligible file has
  a finding, read or not, provided GitHub listed them all;
* `OmissionsAreDue`: each file is read, or skipped for one reason
  (`EveryFileIsAccountedFor`); whatever sources come first in the tree, a
  manifest is left out for its own size or for other manifests only
  (`PaddingCannotHideManifests`); the caps hold together and each omission is due
  to one (`CapsHoldAndAreUsed`);
* `CategoriesAreEarned`: see `Category`.

Bounds: every repository of at most three entries, of each kind, of 0 to 3 bytes,
under a cap of 2 bytes a file, 3 bytes together and one source. A size of 3 is
over the first cap and on the second, two files of 2 are over the second, and
three entries give a manifest after two sources, the smallest tree in which
padding could matter. That makes 357446 states. A finding is there or not; "low" is not told from none.
`fetch_files` returns or raises, so deadlock is not checked.

### Category

Extends `SourceSelection`: an entry of the tree has a role (`AGENTS.md`, one of the
manifests `_manifest` reads, any other) and says some of the words the evidence
looks for. `Evidence` is `FileEvidenceReader.read_evidence` over the files that
were read; `Basis` is what `execute` and the reader make of a failure: one refused
file and the evidence is absent. `Classify` is `classify` for the three built-in
packs. `CategoriesAreEarned` says that a category is said of a repository only for
a word in the place the pack asks for (`MatchIsThere`), and denied only if no
chosen file, read or refused, would have made it (`DenialIsEarned`). The trees are
those of `SourceSelection`, with every entry small that has something to say: a
manifest with each word, a priority file that is no manifest (a word in the wrong
place), sources with one word and with two, and an `AGENTS.md`.

### Digest and Grading

`Digest` has the functions: a file is the length of its path and the offsets at
which its text may be cut (the boundaries of its characters), a rendering is the
number of its bytes, including the decimal digits of the sizes it states.
`Grading` has the state: the answers of the model so far (`repeats`, `flags`), the
verdict, then for one candidate the sample, the `content_budget`, the
`included_sizes` and the step `_digest` is at, then the outcome. One action per call
of the model, which may fail (`CallFails`, `Ask`), and one per step of the loop:
`Share`, then `SendCut` or `CutMore`.

The run `grading` checks:

* `OnlyATrustedModelGrades`: no file of a candidate reaches a model that did not
  pass every call of every check;
* `DigestIsTrue`: a digest is within its cap, and its prompt too (`DigestFits`);
  what it says it includes ends where a character ends (`SaidIsIncluded`); one
  that says it was cut leaves something out, a file or some content
  (`CutMeansCut`);
* `DigestIsFair`: of a file that was cut there is as much as of any other, but for
  a character and the byte of the remainder (`NoFileCrowdsOut`); the sample has
  both ends and even gaps (`SampleIsSpread`);
* `OnlyNumbersCostContent`: the loop gives away no more of the cap than the
  numbers in the digest may grow by; a loop that halved the budget would end
  too, and would break this;
* `GradingEnds`, under `WF_vars(Next)`.

The fairness is the code's straight line: a call of the model returns or runs into
the timeout of `OllamaGrader`, and nothing else waits.

Bounds: every repository of one to three files out of six, and of four out of
five. A sample of three makes four files the first case in which one is left out
and the gaps differ. A cap of 90
with a frame of 10 and markers of 4 (plus their numbers) puts the point at which
the loop goes round again within reach: files of 9, 12 and 32 bytes have one digit
or two, characters of 1, 3 and 4 bytes are cut inside, a path of 80 makes a
structure that is too large, or, with an empty file, a repository that is too large
without a byte of content. Three grades and two clean samples tell "each call"
from "the first call" and "the last call"; the prompt has 5 bytes around the digest.

### Scoring

State: the candidate in hand with what GitHub knows of it (`truth`), the request
that is next and the pages counted so far (`total`), its `ScoreInputs`, the refused
requests; then the items as they came and the queue. `truth` is no variable of the
code: the properties compare with it. Actions: one per page of a count, its end,
its refusal, the licence and its refusal, an exception (`MetadataRaises`), a
fixture's booleans, the score, the ranking.

The run `scoring` checks:

* `RefusalsDoNotMislead`: what a score covers is what GitHub knows, whichever page
  was refused (`CoveredIsTrue`); a candidate is called "review" or "not-priority"
  only if the missing answers could not change that (`StatusIsFinal`); in a run on
  GitHub with a clock, an incomplete score makes the run incomplete
  (`IncompleteIsSaid`): a fixture's scores and a run that failed for want of a clock
  are not spoken of;
* `ExplanationAddsUp`: what `explain` prints from the artifact, read back, adds up
  to the recorded score and covers what it covers;
* `QueueForgetsArrival`: the queue does not depend on the order of arrival. By what
  it is ordered is a matter of section 3.

Bounds: two repositories, so that any two items meet in the queue in both orders;
counts on both sides of the thresholds of 4 commits and 2 contributors; pages of 2
for the 100 of the code, so that a count has one to three pages and a refusal can
come on the last. The weights are those of the code, in millionths. `Rank` inserts
each item where it belongs, which is the one order `sorted` can give, since the key
ends with the name of the repository.

## 3. Where the code does not do what the repository says

Each of these is a run expected to end in a counterexample:

* `review_undo`: compensation removes a star the account had before.
* `store_older`: a file another gitseed is migrating, or died migrating, is
  refused as "older"; in the second case for good.
* `tree_listed`: a tree GitHub lists only in part passes for the whole
  repository; "complete" and "none" are said of files nobody listed.
* `category_dead`: no live run can find a repository to be of the category
  `coding-agents`, which asks for an `AGENTS.md`: `fetch_files` never selects one.

And these were met while modelling and have no run of their own:

* A session that did and recorded all that was approved exits with 1 and prints "run
  failed" when the run cannot be stored: `main` calls `_store_run` inside the `try`
  whose handler returns 1 (`cli.py:1040`, `cli.py:1073`). HANDOFF.md says that "a store
  that is broken, missing or unwritable must never [...] fail a run the user approved
  and that succeeded" (line 50). The model does as the code does (`StoreFails`), and
  `ExitCodeIsHonest` has only the direction that holds: 0 means that all was done,
  1 does not mean that something was not.
* The queue is ordered by status before score (`cli.py:606`): a candidate with an
  incomplete score is asked about after a complete one with a lower score. ADR-0009,
  accepted, says that "the deterministic score is the only ranking key, everywhere a
  run's candidates are ordered", `--approve-all` and the prompt included (line 34).
  `Before` of `Scoring` is the order of the code; no property says that it is right.
* A search cut off by the rate limit leaves `rate_limited` false: `run` takes only its
  reason (`pipeline/run.py:167`). The comment at line 85 takes it that the token
  guidance fires for a search-phase limit. `QuotaIsReported` says what the flag does
  mean: a quota that ran out on a candidate's files or metadata, and nothing else.
* "intent remains pending" is printed about an action whose success may be in
  the history (`cli.py:1070`; the commit was reported as failed and had landed).
* A file failure without a reason is replayed as another exception than the one
  raised (`application.py:318`), and its review reads differently; `Reworded` of
  `RunPorts` allows for it.
* After a failed commit of "compensated" nothing tells the operator which record is
  out of date (`cli.py:1070`): `TakenBackUnsaid` of `DecisionRecord`.
* `run_smoke` has no early return between the checks (`grade/smoke.py:129`), but an
  exception discards the failures found before it: `CallFails` of `Grading`.
* A digest that says it was cut may leave out nothing but an empty file that was
  not sampled: every byte of content is in it, and only the list of paths was too
  long (`pipeline/run.py` `_digest`). `CutMeansCut` counts such a file as left out.
* The evidence for a category is "deterministic" although the caps left files
  out: `DenialIsEarned` speaks of the chosen files, not of the repository.

## 4. What is proved

The theorems hold for every number of processes, commits, branches,
repositories, files, pages, runs and approvals, and for every cap, limit, weight
and model. The assumptions are the named `ASSUME`s of each module, which TLC
evaluates in the runs: constants have the right shape (`NoneIsNothing`: the value
that stands for Python's `None` is none of the others), page sizes and waits are
positive, a repository that is graded has files (`RepositoriesHaveFiles`), the
prompt has room for a digest (`QuestionFits`), as in the code.

Each safety property is proved from an inductive invariant, which TLC checked on
the instance of the run before it was proved. Where a module has two or three, the
later ones contain the earlier. A proof has one lemma for each part of the invariant
or each action, whichever is shorter.

* **`GitHead_proofs`.** `IInv` says that objects, once made, do not change
  (`TipsExist`), and that what a call holds in its local variables still
  describes them (`CallsAreCurrent`): at `update-ref`, the ancestors of `sha`
  are `sha` and the history of `parent`, and its tree is the parent's. Neither
  reported reachability nor the action properties are inductive without that.
  From it: `TypeCorrect`, `ReportedRecordsAreDurable`, `HistoryIsNeverDropped`,
  `RecordsCarryNoContent`, `GitImplementsDecisionLog`.

* **`ReviewCycle_proofs`.** `IInv` adds to types that the approvals are exactly the
  consent (`ConsentIsExact`), that no approval changes once the intent is
  committed and no call precedes it (`IntentFirst`), that everything put, still
  in flight or to be undone is authorised (`WritesAreAuthorised`), and that the
  loops stay in bounds. From it: `TypeCorrect`, `WritesWereAnswered`,
  `SessionImplementsApprovedWrites`.

  `AInv` is the accounting of the account. At every step each star or follow that
  is new to it is in the list of what is still to be undone, or is noted as a failed
  call or a failed compensation, or belongs to the call whose failure is being
  recorded (`PutIsExplained`); a call that may still land is one noted as failed
  (`LateCallsFailed`); and which outcomes an approval can have follows from its
  place before, at or after the one that failed (`OutcomesFit`). What failed was
  named to the operator before its outcome is committed (`ToldFits`), so what the
  loops have passed has an outcome, in the log or told, unless the operator knows
  that the log lacks one (`PassedHaveOutcomes`). What makes the accounting hold is that every approval is called once and in order (`PerformedInOrder`), so that
  the undo loop, counting down, meets each one once. From it: `ExitCodeTrusted`
  and `OutcomesBelieved`.

  `EInv` adds that each attempt to undo is noted before the next, or else the operator
  knows that an outcome is missing and the action is gone (`UndoIsNoted`), that a
  call that may still take something back was named to the operator
  (`LateUndosAreTold`), and that the account loses nothing but what the session had
  performed (`OnlyPerformedIsLost`). From it: `EasyIsReversible`, of
  `DecisionRecord`. After a failure, an action of which only "Undo: easy" was said was
  either not attempted, and nobody touched it, or it was taken back and its
  "compensated" is what the log lacks.

  `RInv` adds to `IInv` that there are as many approvals of each kind as answers that
  ask for it, "both" asking for two (`EveryAnswerCounts`); for an answer to the whole
  queue that is shown by pairing each repository with its approvals. So after one
  answer a group of approvals with the same key is as large as the queue, which is
  what ties the limit of the prompt to the limit of the lines. That the lines count
  every decision once needs no invariant but types: an approval that is not
  collapsed pairs with its own line, and the first of a collapsed group, which
  exists because numbers are well-founded, with all of them. From both:
  `IntentSaysItAll`, for every limit, every queue and every mix of answers.

  `SessionGetsShorter` is about the end of a session: from `intent` on, each step of
  `Work` brings down a bound (`StepsLeft`: five steps for an approval still to come
  to and two for one performed, less as the stage goes on), and neither a late call
  nor a death raises it. The bounds of the loops in `IInv` make it hold. From it:
  `SessionIsFinite`.

* **`RunStore_proofs`.** `IInv` says that at most one process is inside a script
  and that the schema is exactly what its statements so far make
  (`MigrationIsExclusive`), that users hold a current schema
  (`UsersAreCurrent`), and what the file holds per version (`FileIsReadable`).
  The key lemma is `FirstCreate`: whoever gets the first `CREATE` of a script
  through found an intact file nobody is migrating, at the version it read.
  From it: `TypeCorrect`, `RacesLeaveNoHalfMigration`, `RowsAreAlwaysGuarded`,
  `VersionsOnlyGrow`. `SInv` adds that a run id is stored once, and that of a run
  whose observations are about to be saved nothing has been observed or said, nor
  does another process save them (`RunsAreSavedOnce`). From it: `ReportsAreTrue`.

* **`Collect_proofs`.** `CInv` says that every page before this one was fetched
  (`FetchedSoFar`); that, while nothing stops matching, what is collected was
  counted and what was counted still matches (`CountedStillMatches`: a search that
  has as many as were counted then has the same ones, by a count of finite sets);
  and what was refused before the next request (`RefusedSoFar`). From it:
  `TypeCorrect`, `CompleteEarned`, `ServerRespected`; and `WalkIsFinite`: each step of
  `collect` lowers the number of requests it has left, whatever GitHub answers and
  however the list moves meanwhile.

* **`RunPorts_proofs`.** `PInv` says that what a run concluded is a function of what
  it recorded, at every stage: its reviews (`ReviewsFollow`), its reasons in their
  order (`ReasonsFollow`, with the reasons after each candidate as a witness), its
  limit (`LossesSoFar`), and which records there are at all (`RecordsSoFar`). A
  replay has recorded what the run did, as far as it got (`ReplayAgrees`), so at its
  end the same function of the same records gives the same outcome. From it:
  `TypeCorrect`, `FailuresReported`, `MaliciousLeftAlone`, `ReplayFaithful`.

* **`Category_proofs`.** `SInv` is the bookkeeping of `fetch_files` while it goes on: a
  loop has only its own list ahead of it (`LoopsLookAhead`); each listed file is
  selected, skipped or still to come, and one of them only (`FilesAreInOnePlace`);
  `bytes` and `regular` are what the selected files add up to (`TotalsAreKept`, where
  up to the end of the first loop those are manifests); a skipped file is over a cap
  as things stand, and stays so because the totals only grow (`SkipsAreDue`); and
  the files read and refused are the selected ones up to where the reading is
  (`ReadInOrder`). `OmissionsDue` is that at the end. For `NothingIsMissed`: a screening
  that read as many files as are eligible read all of them, by a count of finite
  sets. `CategoriesEarned` needs that files are read from the tree and refusals
  are among the selected. And `TypeCorrect`.

* **`Grading_proofs`.** First the helpers of a digest, for all inputs: what sums of sequences add up
  to and how they compare part by part, that a greater number has as many digits or
  more, that a prefix fits and misses what was asked by less than a character, that
  what the files get adds up to no more than the budget, how the places of a sample
  are spread, that a digest grows with what it includes.
  `GInv` says that a candidate is there only behind the gate (`GateIsShut`) and what
  each step of `_digest` finds (`Stages`), in particular that the budget and what the
  numbers may grow by make up for what the structure leaves of the cap. From it:
  `TypeCorrect`, `OnlyTrustedModelsGrade`, `DigestsAreTrue`, `DigestsAreFair`,
  `OnlyNumbersCost`; and `RoundsGiveLess`: each round of the loop that does not fit
  leaves less to share out, the reason why the loop ends.

* **`Scoring_proofs`.** Three parts. What a score says depends on the observed features
  alone, and the lines of its artifact form add up to it. `Before` is a strict total order on the items, inserting keeps
  a sequence sorted, and two sorted sequences of the same items are equal
  (`OneSortedForm`), so that the queue forgets the order of arrival. `SInv` says that
  what is observed of a candidate is what GitHub answered, and true (`Asked`,
  `Counted`), and that the reasons of the run are the candidates whose score misses
  something (`Reasoned`). From it: `TypeCorrect`, `NobodyIsMisled`,
  `ExplanationsAddUp`, `TheQueueForgets`.

`SumOf`, `Digits`, `Bytes` and `Rank` are recursive functions. What they compute is
proved by induction on a number in first-order form: `Descent` and `Ascent`, stated
in each module that needs them, say it of a set of numbers and rest on the
well-foundedness of `<`; a recursive function is a `CHOOSE`, so each such proof shows
first that a function with the recursion's equations exists.

What the attempts at a proof changed in the models: `CutMeansCut` had been stated as
"some content is left out", which is false for an unsampled empty file with a long
path (TLC finds it once the instance has such a file, which it now does); the sets of
`Scoring` and `RunPorts` that were constants of the instance became definitions;
`None` got its assumptions; the two loops of `fetch_files` that had been one step with
a fold became the steps they are, since the invariant of a loop is about the middle
of it; and a filter of a list is described by what it keeps (`Parts`, `Speakers`)
where it had been computed.

Only model-checked, of the properties the runs check:

* `ReviewEnds`, `SearchEnds`, `GradingEnds`: liveness under fairness is beyond the
  prover. What is proved is their safety half, a number that every step brings down
  and nothing raises (`SessionIsFinite`, `WalkIsFinite`) or, for the digest, that each
  round of its loop shares out less (`RoundsGiveLess`). What TLC adds is that, under
  fairness, no stage but the last is one where nothing can be done.

Every invariant, action property and refinement of a passing run has a theorem.

## 5. Not modelled, and why

* The index and the working tree: `commit` never reads them. A user who rewrites
  history deletes the record on purpose. A detached `HEAD` is a branch without
  a name.
* The wording of a commit message, of an artifact and of what is printed, and
  the check of the values in a trailer: text, no state. The older schemas of an
  artifact, and the versions of engines and schema, which are constants of a
  running program and only refuse an artifact.
* `load` and `render` only read. `SchemaVersionError` leaving `main` is part of
  `Die`.
* The parsing of a search item, GitHub's own limit of 1000 results.
* Signals and prompts: functions of text whose results `RunPorts`,
  `SourceSelection` and `Grading` take as given. `Grading` has any model.
* Two sessions on one account: nothing in the code tells whose star it is, so
  there is no promise to check.
* A run that corrects itself is refused by nothing but is stored as any other:
  one of the stored runs of `RunStore` is such a run. The order of the reasons
  found after the candidates (`application.py:117`) is kept by `RunPorts`, and no
  document asks for another.
* `m0.py` and the scripts are offline measurements.

## 6. Plan

Done: every component of the inventory that decides something has a module, a
run and, where it promises something abstract, a refinement; every safety property
that a run checks has its theorem. What remains would widen the models:

1. `Artifact`: the migration of the older schemas, once one of them means something
   else than the current one.
2. Two sessions on one account, once the code says whose star it is.
3. `Screening`: "low" told from none, once a category or a score depends on it.
