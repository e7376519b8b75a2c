------------------------------ MODULE Grading ------------------------------
(***************************************************************************)
(* A model is asked to grade a repository: the smoke gate that decides     *)
(* whether it may be asked at all (grade/smoke.py run_smoke), then the     *)
(* digest (pipeline/run.py _digest, step by step, because it is a loop),   *)
(* then the question itself (cli.py OllamaGrader).  Every call of the      *)
(* model may fail.                                                         *)
(***************************************************************************)
EXTENDS Digest

CONSTANTS Grades,       \* what evaluate may return: [idea, skill, warns]
          Repositories, \* the files of a repository: sequences of [path, cuts]
          Repeats,      \* max(DETERMINISM_RUNS, CLEAN_SAMPLES) (5)
          Samples,      \* CLEAN_SAMPLES (5)
          Question,     \* the bytes of a prompt around its digest
          PromptCap,    \* MODEL_PROMPT_BYTE_CAP (24000)
          None          \* not yet there

ASSUME GradesAreGrades ==
  Grades \subseteq [idea : 1 .. 10, skill : 1 .. 10, warns : BOOLEAN]
ASSUME RepositoriesHaveFiles ==
  /\ Repositories \subseteq Seq([path : Nat, cuts : SUBSET Nat])
  /\ \A repository \in Repositories :
       Len(repository) > 0 /\ \A k \in DOMAIN repository : IsText(repository[k].cuts)
ASSUME CountsArePositive == Repeats \in Nat \ {0} /\ Samples \in Nat \ {0}
ASSUME NoneIsNoOutcome == None \notin {"graded", "failed", "model unavailable"}
ASSUME QuestionFits == Question \in Nat /\ PromptCap \in Nat /\ DigestCap + Question <= PromptCap

VARIABLES
  pc,        \* "smoke", or the step of _digest, or "over"
  repeats,   \* run_smoke's repeats
  flags,     \* what flags_malicious said: of the clean digest, then of the other
  verdict,   \* SmokeResult.failures
  files,     \* the files of the candidate
  sample,    \* the files of it that the digest shows
  budget,    \* content_budget
  included,  \* included_sizes
  cut,       \* describe_files: the digest says what it leaves out
  outcome    \* "graded", "failed", or "model unavailable"

gate   == <<repeats, flags, verdict>>
digest == <<sample, budget, included, cut>>
vars   == <<pc, gate, files, digest, outcome>>

Init ==
  /\ pc = "smoke"
  /\ repeats = <<>> /\ flags = <<>> /\ verdict = None
  /\ files = None /\ sample = None /\ budget = None /\ included = None /\ cut = FALSE
  /\ outcome = None

-----------------------------------------------------------------------------
(* The smoke gate: grades of a clean digest, then flags, then the verdict. *)

Evaluate == \E grade \in Grades :
  /\ pc = "smoke" /\ Len(repeats) < Repeats
  /\ repeats' = Append(repeats, grade)
  /\ UNCHANGED <<pc, flags, verdict, files, digest, outcome>>

\* Mutant: the malicious digest is asked about like a clean one, once too often.
FlagOnceMore == \E flagged \in BOOLEAN :
  /\ pc = "smoke" /\ Len(repeats) = Repeats /\ Len(flags) <= Samples + 1
  /\ flags' = Append(flags, flagged)
  /\ UNCHANGED <<pc, repeats, verdict, files, digest, outcome>>

\* Samples questions about the clean digest, one about the malicious one.
Flag == \E flagged \in BOOLEAN :
  /\ pc = "smoke" /\ Len(repeats) = Repeats /\ Len(flags) <= Samples
  /\ flags' = Append(flags, flagged)
  /\ UNCHANGED <<pc, repeats, verdict, files, digest, outcome>>

\* An exception is the verdict, in place of whatever had been found.
CallFails ==
  /\ pc = "smoke" /\ Len(flags) <= Samples
  /\ verdict' = {IF Len(repeats) < Repeats THEN "no grade at all" ELSE "checks not completed"}
  /\ pc' = "over" /\ outcome' = "model unavailable"
  /\ UNCHANGED <<repeats, flags, files, digest>>

Failures == {"clean", "malicious", "description", "determinism"}

\* Mutant: one answer about the clean digest and one grade are looked at.
ChecksOnce ==
  [clean       |-> ~flags[1],
   malicious   |-> flags[Samples + 1],
   description |-> ~repeats[1].warns,
   determinism |-> TRUE]

\* The four checks.  Determinism is of the two scores, not of the description.
Checks ==
  [clean       |-> \A k \in 1 .. Samples : ~flags[k],
   malicious   |-> flags[Samples + 1],
   description |-> \A k \in 1 .. Repeats : ~repeats[k].warns,
   determinism |-> \A k \in 1 .. Repeats : /\ repeats[k].idea = repeats[1].idea
                                           /\ repeats[k].skill = repeats[1].skill]

\* A model that fails switches grading off; one that passes is asked.
Judge ==
  /\ pc = "smoke" /\ Len(flags) = Samples + 1
  /\ verdict' = {check \in Failures : ~Checks[check]}
  /\ IF verdict' = {} THEN pc' = "candidate" /\ UNCHANGED outcome
                      ELSE pc' = "over" /\ outcome' = "model unavailable"
  /\ UNCHANGED <<repeats, flags, files, digest>>

-----------------------------------------------------------------------------
(* The digest of a candidate that was screened. *)

Read ==
  /\ pc = "candidate" /\ pc' = "digest"
  /\ files' \in Repositories
  /\ UNCHANGED <<gate, digest, outcome>>

SendWhole ==
  /\ pc = "digest" /\ WholeSize(files) <= DigestCap
  /\ pc' = "ask"
  /\ sample' = files /\ included' = [k \in DOMAIN files |-> Size(files[k])]
  /\ UNCHANGED <<gate, files, budget, cut, outcome>>

\* Mutant: a small repository is sampled and shared out like a large one.
SampleAlways ==
  /\ pc = "digest"
  /\ pc' = "structure"
  /\ sample' = Sampled(files) /\ cut' = TRUE
  /\ UNCHANGED <<gate, files, budget, included, outcome>>

Sample ==
  /\ pc = "digest" /\ WholeSize(files) > DigestCap
  /\ pc' = "structure"
  /\ sample' = Sampled(files) /\ cut' = TRUE
  /\ UNCHANGED <<gate, files, budget, included, outcome>>

\* ModelInputTooLarge: this candidate is not graded.
TooLarge ==
  /\ pc = "structure" /\ StructureSize(files, sample) > DigestCap
  /\ pc' = "over" /\ outcome' = "failed"
  /\ UNCHANGED <<gate, files, digest>>

\* Mutant: a structure that is too large is cut like any other.
CutAnyway ==
  /\ pc = "structure"
  /\ budget' = IF StructureSize(files, sample) > DigestCap THEN 0
               ELSE DigestCap - StructureSize(files, sample)
  /\ pc' = "share"
  /\ UNCHANGED <<gate, files, sample, included, cut, outcome>>

StartCutting ==
  /\ pc = "structure" /\ StructureSize(files, sample) <= DigestCap
  /\ budget' = DigestCap - StructureSize(files, sample)
  /\ pc' = "share"
  /\ UNCHANGED <<gate, files, sample, included, cut, outcome>>

\* The loop: share the budget out, render, and take the excess off the budget.
Share ==
  /\ pc = "share" /\ pc' = "render"
  /\ included' = Included(sample, budget)
  /\ UNCHANGED <<gate, files, sample, budget, cut, outcome>>

Rendered == CutSize(files, sample, included)

\* Mutant: the text is measured, not the digest with its markers.
SendIfTextFits ==
  /\ pc = "render" /\ SumOf(included) <= DigestCap
  /\ pc' = "ask"
  /\ UNCHANGED <<gate, files, digest, outcome>>

SendCut ==
  /\ pc = "render" /\ Rendered <= DigestCap
  /\ pc' = "ask"
  /\ UNCHANGED <<gate, files, digest, outcome>>

\* Mutant: the budget is halved until the digest fits.
LessByHalf == budget \div 2

\* max(0, content_budget - excess)
Less ==
  LET excess == Rendered - DigestCap IN IF budget > excess THEN budget - excess ELSE 0

CutMore ==
  /\ pc = "render" /\ Rendered > DigestCap
  /\ pc' = "share"
  /\ budget' = Less
  /\ UNCHANGED <<gate, files, sample, included, cut, outcome>>

-----------------------------------------------------------------------------
(* The question. *)

DigestSize == RenderedSize(files, sample, included, cut)

\* A grade, or an exception: no answer, no JSON, no grade in it, or a prompt
\* over its cap, which is not sent.
Ask == \E answer \in {"graded", "failed"} :
  /\ pc = "ask"
  /\ answer = "graded" => DigestSize + Question <= PromptCap
  /\ pc' = "over" /\ outcome' = answer
  /\ UNCHANGED <<gate, files, digest>>

Next ==
  \/ Evaluate \/ Flag \/ CallFails \/ Judge \/ Read
  \/ SendWhole \/ Sample \/ TooLarge \/ StartCutting \/ Share \/ SendCut \/ CutMore \/ Ask

\* A call of the model returns or runs into its timeout, and nothing else waits.
Spec == Init /\ [][Next]_vars /\ WF_vars(Next)

-----------------------------------------------------------------------------
(* Properties. *)

Sent == outcome = "graded" \/ pc = "ask"

\* Every variable has the values the code gives it.
TypeOK ==
  /\ pc \in {"smoke", "candidate", "digest", "structure", "share", "render", "ask", "over"}
  /\ repeats \in Seq(Grades) /\ Len(repeats) <= Repeats
  /\ flags \in Seq(BOOLEAN) /\ Len(flags) <= Samples + 1
  /\ verdict = None \/ verdict \subseteq Failures \union {"no grade at all", "checks not completed"}
  /\ files \in Repositories \union {None}
  /\ budget \in Nat \union {None}
  /\ cut \in BOOLEAN
  /\ sample # None => included = None \/ DOMAIN included = DOMAIN sample
  /\ outcome \in {None, "graded", "failed", "model unavailable"}

\* A candidate's files reach the model only if, over all the calls of the gate,
\* it called no clean sample malicious, found the malicious one, scored the same
\* input the same each time, and kept warnings out of its descriptions.
OnlyATrustedModelGrades == files # None =>
  /\ Len(repeats) = Repeats /\ Len(flags) = Samples + 1
  /\ \A k \in 1 .. Samples + 1 : flags[k] = (k > Samples)
  /\ \A j, k \in 1 .. Repeats : repeats[j].idea = repeats[k].idea /\ repeats[j].skill = repeats[k].skill
  /\ ~\E k \in 1 .. Repeats : repeats[k].warns

\* A digest that is sent is within its cap, and so no prompt is refused for
\* being over its own.
DigestFits == Sent => DigestSize <= DigestCap /\ DigestSize + Question <= PromptCap

\* What a digest says it includes of a file is what is there of it: it ends
\* where a character of the file ends, even if the share of the file does not.
SaidIsIncluded == Sent =>
  DOMAIN included = DOMAIN sample /\ \A k \in DOMAIN sample : included[k] \in sample[k].cuts

\* A digest that says it was cut leaves a file out, or something of one.
CutMeansCut == Sent /\ cut =>
  Len(sample) < Len(files) \/ SumOf(included) < Selected(files)

\* The digest the model is sent is what it says it is, and no more than the
\* prompt has room for.
DigestIsTrue == DigestFits /\ SaidIsIncluded /\ CutMeansCut

\* "distribute a fixed UTF-8 byte budget across selected files rather than
\* allowing one large file": of a file that was cut short there is as much as
\* of any other, but for the byte of the remainder and the cut character.
NoFileCrowdsOut == Sent =>
  \A j, k \in DOMAIN sample :
    included[j] < Size(sample[j]) => included[k] <= included[j] + 4

\* The sample has the first file and the last, none twice, and no two
\* neighbours further apart than any others by more than one.
SampleIsSpread == pc = "structure" =>
  LET at   == EvenlySpaced(Len(files))
      gaps == {at[k + 1] - at[k] : k \in 1 .. Len(at) - 1}
  IN /\ at[1] = 1 /\ at[Len(at)] = Len(files)
     /\ \A g, h \in gaps : g > 0 /\ g <= h + 1

\* _digest is even-handed: between the files it samples, and in sampling them.
DigestIsFair == NoFileCrowdsOut /\ SampleIsSpread

\* How far the numbers of a structure can grow when its files are filled in.
Growth ==
  SumOf([k \in DOMAIN sample |-> Digits(Size(sample[k]))]) + Digits(Selected(files))

\* A file is cut for want of room only: the loop gives away no more of the
\* cap than the numbers in the digest may come to need.
OnlyNumbersCostContent ==
  pc \in {"share", "render"} => budget + Growth >= DigestCap - StructureSize(files, sample)

\* Whatever the model and the files are like, the candidate gets its outcome.
GradingEnds == <>(pc = "over")
=============================================================================
