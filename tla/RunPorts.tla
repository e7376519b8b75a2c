------------------------------ MODULE RunPorts ------------------------------
(***************************************************************************)
(* One run of the pipeline through its ports (application.py execute,      *)
(* pipeline/run.py run) and its replay from what the artifact recorded     *)
(* (application.py re_evaluate and the _Replay ports).  In a live run any  *)
(* port may answer anything, or raise; in a replay the answer is the       *)
(* recorded one, but for the category evidence, whose reader is asked      *)
(* again.  The steps are the same code.                                    *)
(***************************************************************************)
EXTENDS Naturals, Sequences, FiniteSets, SequencesExt

CONSTANTS Found,  \* the candidates a whole search returns, in order
          None    \* nothing recorded, no grade, not withheld

ASSUME FoundOnce == Found \in Seq(ToSet(Found)) /\ IsInjective(Found)

VARIABLES
  live,        \* the ports are the network, not an artifact
  pc,          \* the step of execute
  candidates,  \* collected.candidates; the one in progress follows the reviewed
  fetched,     \* its files, or the exception in hand
  trace,       \* what is recorded of each port's answer
  reviewed,    \* PipelineResult.reviewed
  reasons,     \* PipelineResult.incomplete_because
  limited,     \* PipelineResult.rate_limited
  evidence,    \* what came of reading each candidate's category evidence, in order
  missing,     \* history: a replay asked for an answer that was not recorded
  source       \* what the artifact that is replayed has of the run

outcome == <<candidates, trace, reviewed, reasons, limited, evidence>>
vars    == <<live, pc, fetched, outcome, missing, source>>

Repos == ToSet(Found)

-----------------------------------------------------------------------------
(* What the ports can answer. *)

SearchFails == [fails |-> TRUE, found |-> <<>>, complete |-> FALSE, quota |-> FALSE]

Searches ==
  {SearchFails} \union
  {[fails |-> FALSE, found |-> SubSeq(Found, 1, n), complete |-> FALSE, quota |-> q] :
     n \in 0 .. Len(Found), q \in BOOLEAN} \union
  {[fails |-> FALSE, found |-> Found, complete |-> TRUE, quota |-> FALSE]}

\* The files of a repository: none, with a high signal, harmless, or harmless
\* and of a structure that does not fit a digest; whether all could be read.
Contents == {"nothing", "malicious", "harmless", "too large"}

Failed(kind, quota) == [kind |-> kind, content |-> None, complete |-> FALSE, quota |-> quota]

\* An answer for want of quota says so and sets rate_limited; no other
\* refusal does either (cli.py _github_response_error).
FetchedFiles ==
  {f \in [kind : {"files"}, content : Contents, complete : BOOLEAN, quota : BOOLEAN] :
     f.complete => ~f.quota}

Fetches ==
  FetchedFiles \union
  {Failed("FileFetchError", q) : q \in BOOLEAN} \union
  {Failed("Exception", FALSE)}

\* Metadata: all of it, some of it refused for want of quota or otherwise, or
\* an exception.
Observations == {"whole", "limited", "refused", "fails"}

\* What can be recorded of the files: PortFailure has no text and no class.
Records == FetchedFiles \union {Failed("failure", q) : q \in BOOLEAN}

\* What a review can say of a grade that is not there.
Excuses == {"files could not be read, and why", "files could not be read, so nothing was screened",
            "no readable source files", "screening found signals", "model unavailable",
            "grading failed"}

ASSUME NoneIsNothing ==
  /\ None \notin {"time", "fails", "grade"} /\ None \notin Contents /\ None \notin Observations
  /\ None \notin Excuses /\ None \notin BOOLEAN /\ None \notin Searches /\ None \notin Fetches /\ None \notin Records

-----------------------------------------------------------------------------
(* What is recorded, and what a replay makes of it. *)

\* Mutant: the artifact keeps the exception itself.
RecordedAsIs(fetch) == fetch

\* PortFailure keeps the reason and the limit of an exception, not its class.
Recorded(fetch) == IF fetch.kind = "files" THEN fetch ELSE Failed("failure", fetch.quota)

\* ArtifactFiles.to_fetched: files without their text raise.
ToFetched(record) == IF record.content = None THEN Failed("Exception", FALSE) ELSE record

\* Mutant: _ReplayFiles raises every recorded failure as an OSError.
ReplayedPlain(record) ==
  IF record.kind = "files" THEN record ELSE Failed("Exception", FALSE)

\* _ReplayFiles.read: a failure with a reason or a limit was a FileFetchError.
Replayed(record) ==
  IF record.kind = "files" THEN ToFetched(record)
  ELSE IF record.quota THEN Failed("FileFetchError", TRUE) ELSE Failed("Exception", FALSE)

\* The answer of a port: anything in a live run, else what was recorded.  An
\* answer that is not there raises MissingPortResponse.
Answers(all, record, raised) ==
  IF live THEN all ELSE {IF record = None THEN raised ELSE record}

\* The three values of --source-mode: only one of them keeps what files say.
SourceModes == {"metadata-only", "digest", "full-source"}

\* ArtifactFiles.from_fetched: the artifact has the paths and sizes of files in
\* every mode.
Kept(fetch, mode) ==
  IF fetch = None \/ fetch.kind = "failure" \/ mode = "full-source" THEN fetch
  ELSE [fetch EXCEPT !.content = None]

FileAnswers(c) ==
  LET record == source.trace.files[c]
  IN Answers(Fetches, IF record = None THEN None ELSE Replayed(record), Failed("Exception", FALSE))

\* Every step that asks a port notes a record that is not there.
Asks(record) == missing' = (missing \/ (~live /\ record = None))

-----------------------------------------------------------------------------
(* execute, up to the candidates *)

Reason(what, repo) == [what |-> what, repo |-> repo]

\* mark_incomplete: a line per reason, said once.
With(said, reason) == IF reason \in ToSet(said) THEN said ELSE Append(said, reason)
Mark(reason)       == reasons' = With(reasons, reason)

NothingYet == [clock |-> None, search |-> None, smoke |-> None,
               files |-> [c \in Repos |-> None], metadata |-> [c \in Repos |-> None],
               grades |-> [c \in Repos |-> None]]

NoOutcome == [trace |-> NothingYet, reviewed |-> <<>>, reasons |-> <<>>, limited |-> FALSE]

Init ==
  /\ live = TRUE /\ source = NoOutcome /\ missing = FALSE
  /\ pc = "clock" /\ candidates = <<>> /\ fetched = None
  /\ trace = NothingYet /\ reviewed = <<>> /\ reasons = <<>> /\ limited = FALSE
  /\ evidence = <<>>

\* started_at; that there is none is reported at the end of the run.
ReadClock == \E a \in Answers({"time", "fails"}, source.trace.clock, "fails") :
  /\ pc = "clock" /\ pc' = "search"
  /\ Asks(source.trace.clock)
  /\ trace' = [trace EXCEPT !.clock = a]
  /\ UNCHANGED <<live, candidates, fetched, reviewed, reasons, limited, source, evidence>>

\* A search that raises counts as one that was cut off with nothing found.
Search == \E a \in Answers(Searches, source.trace.search, SearchFails) :
  /\ pc = "search" /\ pc' = "smoke"
  /\ Asks(source.trace.search)
  /\ candidates' = a.found
  /\ trace' = [trace EXCEPT !.search = a]
  /\ IF a.complete THEN UNCHANGED reasons ELSE Mark(Reason("collection stopped", None))
  /\ UNCHANGED <<live, fetched, reviewed, limited, source, evidence>>

\* run_smoke; a replay is given the recorded verdict.
Smoke == \E passed \in Answers(BOOLEAN, source.trace.smoke, FALSE) :
  /\ pc = "smoke" /\ pc' = "read"
  /\ Asks(source.trace.smoke)
  /\ trace' = [trace EXCEPT !.smoke = passed]
  /\ UNCHANGED <<live, candidates, fetched, reviewed, reasons, limited, source, evidence>>

-----------------------------------------------------------------------------
(* run, candidate by candidate *)

Current == candidates[Len(reviewed) + 1]

\* A quota is one reason for the whole run; other failures name the repository.
FetchReason(fetch, c) ==
  IF fetch.quota THEN Reason("quota", None)
  ELSE Reason(IF fetch.kind = "files" THEN "files skipped" ELSE "files unread", c)

\* Mutant: a candidate is observed before it is screened.
ObserveFirst(fetch) == "observe"

\* What scans as malicious goes no further: no metadata is read, no model asked.
Screened(fetch) == IF fetch.content = "malicious" THEN "withhold" ELSE "observe"

\* The files of the next candidate.
Read ==
  /\ pc = "read" /\ Len(reviewed) < Len(candidates)
  /\ \E a \in FileAnswers(Current) :
       /\ pc' = Screened(a)
       /\ fetched' = a
       /\ trace' = [trace EXCEPT !.files[Current] = Recorded(a)]
       /\ limited' = (limited \/ a.quota)
       /\ IF a.complete THEN UNCHANGED reasons ELSE Mark(FetchReason(a, Current))
  /\ Asks(source.trace.files[Current])
  /\ UNCHANGED <<live, candidates, reviewed, source, evidence>>

\* There is something to grade and a model that passed its smoke test.
Gradeable == trace.smoke /\ fetched.content \in {"harmless", "too large"}

\* observe_metadata: score inputs need the time the run started.
Observe ==
  /\ pc = "observe" /\ pc' = IF Gradeable THEN "grade" ELSE "withhold"
  /\ \E a \in IF trace.clock = "fails" THEN {None}
              ELSE Answers(Observations, source.trace.metadata[Current], "fails") :
       /\ trace' = [trace EXCEPT !.metadata[Current] = a]
  /\ IF trace.clock = "fails" THEN UNCHANGED missing ELSE Asks(source.trace.metadata[Current])
  /\ UNCHANGED <<live, candidates, fetched, reviewed, reasons, limited, source, evidence>>

Review(grade, withheld) ==
  /\ pc' = "read"
  /\ fetched' = None
  /\ reviewed' = Append(reviewed, [repo |-> Current, content |-> fetched.content,
                                   grade |-> grade, withheld |-> withheld])

\* Why a candidate is reviewed without a grade.
Withholding ==
  CASE fetched.kind = "FileFetchError"   -> "files could not be read, and why"
    [] fetched.kind = "Exception"        -> "files could not be read, so nothing was screened"
    [] fetched.content = "nothing"       -> "no readable source files"
    [] fetched.content = "malicious"     -> "screening found signals"
    [] OTHER                             -> "model unavailable"

Withhold ==
  /\ pc = "withhold"
  /\ Review(None, Withholding)
  /\ UNCHANGED <<live, candidates, trace, reasons, limited, missing, source, evidence>>

\* A structure that does not fit raises before the model is asked.
GradeTooLarge ==
  /\ pc = "grade" /\ fetched.content = "too large"
  /\ Mark(Reason("grading failed", Current))
  /\ Review(None, "grading failed")
  /\ UNCHANGED <<live, candidates, trace, limited, missing, source, evidence>>

Grade ==
  /\ pc = "grade" /\ fetched.content = "harmless"
  /\ "grade" \in Answers({"grade", "fails"}, source.trace.grades[Current], "fails")
  /\ Asks(source.trace.grades[Current])
  /\ trace' = [trace EXCEPT !.grades[Current] = "grade"]
  /\ Review("grade", None)
  /\ UNCHANGED <<live, candidates, reasons, limited, source, evidence>>

\* Mutant: only answers of the model are recorded.
GradeFailsUnrecorded ==
  /\ pc = "grade" /\ fetched.content = "harmless"
  /\ "fails" \in Answers({"grade", "fails"}, source.trace.grades[Current], "fails")
  /\ Asks(source.trace.grades[Current])
  /\ Mark(Reason("grading failed", Current))
  /\ Review(None, "grading failed")
  /\ UNCHANGED <<live, candidates, trace, limited, source, evidence>>

GradeFails ==
  /\ pc = "grade" /\ fetched.content = "harmless"
  /\ "fails" \in Answers({"grade", "fails"}, source.trace.grades[Current], "fails")
  /\ Asks(source.trace.grades[Current])
  /\ trace' = [trace EXCEPT !.grades[Current] = "fails"]
  /\ Mark(Reason("grading failed", Current))
  /\ Review(None, "grading failed")
  /\ UNCHANGED <<live, candidates, limited, source, evidence>>

-----------------------------------------------------------------------------
(* The end of execute, and a replay *)

\* What of s is in S, in the order of s: the n-th is the one that n elements of
\* S, itself included, lead up to.
Only(s, S) ==
  LET P == {i \in DOMAIN s : s[i] \in S}
  IN [n \in 1 .. Cardinality(P) |-> s[CHOOSE i \in P : Cardinality({j \in P : j <= i}) = n]]

\* The candidates of the run that left trace t whose metadata was read in one of
\* the ways of how, in the order they were found.
Observed(t, how) == Only(t.search.found, {c \in Repos : t.metadata[c] \in how})

\* Mutant: metadata that could not be read at all is left to the score.
LateReasonsSaid(t) ==
  (IF t.smoke THEN <<>> ELSE <<Reason("smoke gate failed", None)>>) \o
  (IF t.clock = "fails" THEN <<Reason("clock failed", None)>> ELSE <<>>) \o
  LET told == Observed(t, {"limited", "refused"})
  IN [k \in DOMAIN told |-> Reason(t.metadata[told[k]], told[k])]

\* with_incomplete: the model, the clock, and the metadata of each candidate.
LateReasons(t) ==
  (IF t.smoke THEN <<>> ELSE <<Reason("smoke gate failed", None)>>) \o
  (IF t.clock = "fails" THEN <<Reason("clock failed", None)>> ELSE <<>>) \o
  LET told == Observed(t, {"limited", "refused", "fails"})
  IN [k \in DOMAIN told |-> Reason(t.metadata[told[k]], told[k])]

\* Mutant: a quota that ran out while metadata was read stays a reason.
FinishUnlimited ==
  /\ pc = "read" /\ Len(reviewed) = Len(candidates)
  /\ pc' = "evidence"
  /\ reasons' = reasons \o LateReasons(trace)
  /\ UNCHANGED <<live, candidates, fetched, trace, reviewed, limited, missing, source, evidence>>

Finish ==
  /\ pc = "read" /\ Len(reviewed) = Len(candidates)
  /\ pc' = "evidence"
  /\ reasons' = reasons \o LateReasons(trace)
  /\ limited' = (limited \/ Observed(trace, {"limited"}) # <<>>)
  /\ UNCHANGED <<live, candidates, fetched, trace, reviewed, missing, source, evidence>>

\* What is known of the files of the candidate whose evidence is next.
Examined == trace.files[candidates[Len(evidence) + 1]]

\* Mutant: a category reader that raises makes the run incomplete, as the other
\* ports do.
ReadEvidenceLoudly ==
  /\ pc = "evidence" /\ Len(evidence) < Len(candidates)
  /\ \E e \in IF Examined.kind = "files" THEN {"read", "fails"} ELSE {"absent"} :
       /\ evidence' = Append(evidence, e)
       /\ IF e = "fails" THEN Mark(Reason("fails", candidates[Len(evidence) + 1])) ELSE UNCHANGED reasons
  /\ UNCHANGED <<live, pc, candidates, fetched, trace, reviewed, limited, missing, source>>

\* ports.evidence.read_evidence, of a candidate whose files were fetched.  What
\* it raises becomes a PortFailure and the evidence is absent; the result of the
\* run is made already and is left as it is.  A replay asks the reader again.
ReadEvidence ==
  /\ pc = "evidence" /\ Len(evidence) < Len(candidates)
  /\ \E e \in IF Examined.kind = "files" THEN {"read", "fails"} ELSE {"absent"} :
       evidence' = Append(evidence, e)
  /\ UNCHANGED <<live, pc, candidates, fetched, trace, reviewed, reasons, limited, missing, source>>

MakeArtifact ==
  /\ pc = "evidence" /\ Len(evidence) = Len(candidates)
  /\ pc' = "done"
  /\ UNCHANGED <<live, candidates, fetched, trace, reviewed, reasons, limited, missing, source, evidence>>

\* The artifact of the run, as execute makes it under a source mode.
Artifact(mode) ==
  [trace |-> [trace EXCEPT !.files = [c \in Repos |-> Kept(trace.files[c], mode)]],
   reviewed |-> reviewed, reasons |-> reasons, limited |-> limited]

\* _require_full_source: a run that could read no files at all can be replayed
\* from any mode.
Replayable(mode) ==
  mode = "full-source" \/ {c \in Repos : trace.files[c] # None /\ trace.files[c].kind = "files"} = {}

\* Mutant: what the artifact has of the files is taken for the files.
ReplayAnyway == \E mode \in SourceModes :
  /\ pc = "done" /\ live
  /\ live' = FALSE
  /\ source' = Artifact(mode)
  /\ pc' = "clock" /\ candidates' = <<>> /\ fetched' = None
  /\ trace' = NothingYet /\ reviewed' = <<>> /\ reasons' = <<>> /\ limited' = FALSE
  /\ evidence' = <<>>
  /\ UNCHANGED missing

\* re_evaluate: the same code, with the recorded answers for ports.
Replay == \E mode \in SourceModes :
  /\ pc = "done" /\ live /\ Replayable(mode)
  /\ live' = FALSE
  /\ source' = Artifact(mode)
  /\ pc' = "clock" /\ candidates' = <<>> /\ fetched' = None
  /\ trace' = NothingYet /\ reviewed' = <<>> /\ reasons' = <<>> /\ limited' = FALSE
  /\ evidence' = <<>>
  /\ UNCHANGED missing

Next ==
  \/ ReadClock \/ Search \/ Smoke \/ Read \/ Observe \/ Withhold
  \/ GradeTooLarge \/ Grade \/ GradeFails \/ Finish \/ ReadEvidence \/ MakeArtifact \/ Replay

Spec == Init /\ [][Next]_vars

-----------------------------------------------------------------------------
(* Properties. *)

\* The PipelineResult is made; the categories are all that is left.
Judged == pc \in {"evidence", "done"}

Reasons ==
  [what : {"collection stopped", "quota", "files skipped", "files unread", "grading failed",
           "smoke gate failed", "clock failed"} \union Observations,
   repo : Repos \union {None}]

Reviews == [repo : Repos, content : Contents \union {None}, grade : {"grade", None},
            withheld : Excuses \union {None}]

\* What can be recorded of the ports.
Traces == [clock    : {"time", "fails", None},
           search   : Searches \union {None},
           smoke    : BOOLEAN \union {None},
           files    : [Repos -> Records \union {None}],
           metadata : [Repos -> Observations \union {None}],
           grades   : [Repos -> {"grade", "fails", None}]]

\* Every variable has the values execute gives it.
TypeOK ==
  /\ live \in BOOLEAN /\ limited \in BOOLEAN /\ missing \in BOOLEAN
  /\ pc \in {"clock", "search", "smoke", "read", "observe", "grade", "withhold", "evidence", "done"}
  /\ candidates \in Prefixes(Found) /\ fetched \in Fetches \union {None}
  /\ trace \in Traces
  /\ reviewed \in Seq(Reviews) /\ Len(reviewed) <= Len(candidates)
  /\ \A k \in DOMAIN reviewed : reviewed[k].repo = candidates[k]
  /\ reasons \in Seq(Reasons)
  /\ evidence \in Seq({"read", "absent", "fails"})

\* A run is complete, with exit code 0, if and only if nothing was lost on the
\* way: no search cut short, no file unread, no metadata missing, no survivor
\* of the screening left ungraded.
CompleteMeansWhole == Judged => ((reasons = <<>>) <=>
  /\ trace.search.complete /\ trace.clock = "time" /\ trace.smoke
  /\ \A c \in ToSet(candidates) :
       /\ trace.files[c].complete
       /\ trace.files[c].content = "malicious" \/ trace.metadata[c] = "whole"
       /\ trace.files[c].content \in {"malicious", "nothing"} \/ trace.grades[c] = "grade")

\* What the screening found malicious reaches neither the metadata requests nor
\* the model, in a live run and in a replay.
MaliciousIsLeftAlone == \A c \in Repos :
  trace.files[c] # None /\ trace.files[c].content = "malicious" =>
    trace.metadata[c] = None /\ trace.grades[c] = None

\* A quota that ran out while files or metadata were read, of whichever
\* candidate, reaches rate_limited, and nothing else does: in particular not a
\* quota that ran out during the search, of which run keeps only the words.
QuotaIsReported == Judged => (limited <=> \E c \in ToSet(candidates) :
                                          trace.files[c].quota \/ trace.metadata[c] = "limited")

\* What failed at the clock, the repository, the files or the model, and every
\* quota that ran out on a candidate, is in the result that decides the exit
\* code and the guidance; nothing else is.  A category reader that raises is a
\* PortFailure of the artifact and changes neither.
FailuresAreReported == CompleteMeansWhole /\ QuotaIsReported

\* A replay never asks a port for an answer that the run did not record.
ReplayFindsEveryAnswer == ~missing

\* The two lines execute has for files it could not read.
Rewording(excuse) == IF excuse = "files could not be read, so nothing was screened"
                     THEN "files could not be read, and why" ELSE excuse

Reworded(review) == [review EXCEPT !.withheld = Rewording(@)]

\* A replay comes to the reviews, the reasons, the limit and the record of the
\* run it replays, whatever failed in it; only the wording of a review whose
\* files could not be read may differ.  The category evidence is no part of
\* this: a replay does not take it from the artifact but asks the reader again.
ReplayReproduces == Judged /\ ~live =>
  /\ trace = source.trace /\ reasons = source.reasons /\ limited = source.limited
  /\ Len(reviewed) = Len(source.reviewed)
  /\ \A k \in DOMAIN reviewed : Reworded(reviewed[k]) = Reworded(source.reviewed[k])

\* re_evaluate reproduces the run from what the artifact keeps of it, whichever
\* way the sources are kept, or refuses to.
ReplayIsFaithful == ReplayFindsEveryAnswer /\ ReplayReproduces

=============================================================================
