-------------------------- MODULE SourceSelection --------------------------
(***************************************************************************)
(* Which files of a repository are read and screened, and what is claimed  *)
(* about the rest: GitHubClient.fetch_files in cli.py, SourceCoverage in   *)
(* screen/coverage.py, risk_of in screen/verdict.py.  GitHub lists the     *)
(* tree, possibly cut short; the files to read are chosen one by one under *)
(* three caps and read one by one, each request possibly refused.          *)
(***************************************************************************)
EXTENDS Naturals, FiniteSets, Sequences, SequencesExt

CONSTANTS Trees,     \* the repositories: sequences of [kind, size, finding]
          FileCap,   \* SOURCE_FILE_BYTE_CAP (100000)
          TotalCap,  \* SOURCE_TOTAL_BYTE_CAP (500000)
          CountCap   \* SOURCE_FILE_COUNT_CAP (20)

\* A file is a manifest, a source, or neither; other entries are no blobs.
Kinds == {"priority", "source", "other", "directory"}

ASSUME TreesAreTrees ==
  \A t \in Trees : /\ Len(t) \in Nat /\ DOMAIN t = 1 .. Len(t)
                   /\ \A i \in DOMAIN t : t[i].kind \in Kinds /\ t[i].size \in Nat /\ t[i].finding \in BOOLEAN
ASSUME CapsAreNaturals == FileCap \in Nat /\ TotalCap \in Nat /\ CountCap \in Nat

VARIABLES
  tree,      \* the repository
  listed,    \* how many of its entries GitHub listed
  pc,        \* "tree", the loop "priority", "regular" or "read", "done", or "raised"
  ahead,     \* what the loop over the candidates has still to look at
  selected,  \* the files to read, in order, as indices of the tree
  bytes,     \* total_bytes
  regular,   \* regular_selected
  skipped,   \* skipped_policy
  files,     \* the files read, in order
  errors,    \* skipped_error
  limited    \* rate_limited of FetchedFiles or of the exception

repository == <<tree, listed>>
choice     == <<selected, bytes, regular, skipped>>
reading    == <<files, errors, limited>>
vars       == <<repository, pc, ahead, choice, reading>>

Listing == 1 .. listed

Blobs      == {i \in Listing : tree[i].kind # "directory"}
Eligible   == {i \in Listing : tree[i].kind \in {"priority", "source"}}

\* Mutant: a manifest is in both lists, as a source too.
CandidatesTwice(kind) ==
  {i \in Listing : tree[i].kind \in {"priority", kind} /\ tree[i].size <= FileCap}

\* Mutant: one list for all, in the order of the tree.
CandidatesInTreeOrder(kind) ==
  {i \in Eligible : kind = "priority" /\ tree[i].size <= FileCap}

\* priority_candidates and regular_candidates
Candidates(kind) == {i \in Listing : tree[i].kind = kind /\ tree[i].size <= FileCap}

Init ==
  /\ tree \in Trees /\ listed \in 0 .. Len(tree)
  /\ pc = "tree" /\ ahead = {}
  /\ selected = <<>> /\ bytes = 0 /\ regular = 0 /\ skipped = {}
  /\ files = <<>> /\ errors = {} /\ limited = FALSE

\* The first loop sorts the listing out.
ListTree ==
  /\ pc = "tree" /\ pc' = "priority"
  /\ ahead' = Candidates("priority")
  /\ skipped' = (Blobs \ Eligible) \union {i \in Eligible : tree[i].size > FileCap}
  /\ UNCHANGED <<repository, selected, bytes, regular, reading>>

\* Any refusal of the listing is raised as a FileFetchError.
ListingRefused == \E quota \in BOOLEAN :
  /\ pc = "tree" /\ pc' = "raised"
  /\ limited' = quota
  /\ UNCHANGED <<repository, ahead, choice, files, errors>>

-----------------------------------------------------------------------------
(* The choice: manifests first, under the byte budget alone. *)

Fits(i) == bytes + tree[i].size <= TotalCap

IsNext(i) == i \in ahead /\ \A k \in ahead : i <= k

Select(i) ==
  /\ selected' = Append(selected, i) /\ bytes' = bytes + tree[i].size
  /\ UNCHANGED skipped

Skip(i) == skipped' = skipped \union {i} /\ UNCHANGED <<selected, bytes, regular>>

PickPriority == \E i \in ahead :
  /\ pc = "priority" /\ IsNext(i)
  /\ ahead' = ahead \ {i}
  /\ IF Fits(i) THEN Select(i) /\ UNCHANGED regular ELSE Skip(i)
  /\ UNCHANGED <<repository, pc, reading>>

ToRegular ==
  /\ pc = "priority" /\ ahead = {}
  /\ pc' = "regular" /\ ahead' = Candidates("source")
  /\ UNCHANGED <<repository, choice, reading>>

\* Mutant: a file that is passed over for its size uses up a place.
PickOrCount == \E i \in ahead :
  /\ pc = "regular" /\ IsNext(i)
  /\ ahead' = ahead \ {i}
  /\ IF regular = CountCap THEN Skip(i)
     ELSE /\ regular' = regular + 1
          /\ IF Fits(i) THEN Select(i) ELSE skipped' = skipped \union {i} /\ UNCHANGED <<selected, bytes>>
  /\ UNCHANGED <<repository, pc, reading>>

\* Mutant: files past the count are not mentioned.
PickOrForget == \E i \in ahead :
  /\ pc = "regular" /\ IsNext(i)
  /\ ahead' = ahead \ {i}
  /\ IF regular = CountCap THEN UNCHANGED choice
     ELSE IF Fits(i) THEN Select(i) /\ regular' = regular + 1 ELSE Skip(i)
  /\ UNCHANGED <<repository, pc, reading>>

PickRegular == \E i \in ahead :
  /\ pc = "regular" /\ IsNext(i)
  /\ ahead' = ahead \ {i}
  /\ IF regular < CountCap /\ Fits(i) THEN Select(i) /\ regular' = regular + 1 ELSE Skip(i)
  /\ UNCHANGED <<repository, pc, reading>>

ToRead ==
  /\ pc = "regular" /\ ahead = {}
  /\ pc' = "read"
  /\ UNCHANGED <<repository, ahead, choice, reading>>

-----------------------------------------------------------------------------
(* Reading what was chosen. *)

NextFile == selected[Len(files) + Cardinality(errors) + 1]

Reading == pc = "read" /\ Len(files) + Cardinality(errors) < Len(selected)

ReadBlob ==
  /\ Reading
  /\ files' = Append(files, NextFile)
  /\ UNCHANGED <<repository, pc, ahead, choice, errors, limited>>

BlobRefused == \E quota \in BOOLEAN :
  /\ Reading
  /\ errors' = errors \union {NextFile}
  /\ limited' = (limited \/ quota)
  /\ UNCHANGED <<repository, pc, ahead, choice, files>>

\* The connection fails or a body is no JSON: what was read is lost.
Raise ==
  /\ pc = "tree" \/ Reading
  /\ pc' = "raised"
  /\ limited' = FALSE
  /\ UNCHANGED <<repository, ahead, choice, files, errors>>

Return ==
  /\ pc = "read" /\ ~Reading
  /\ pc' = "done"
  /\ UNCHANGED <<repository, ahead, choice, reading>>

Next ==
  \/ ListTree \/ ListingRefused
  \/ PickPriority \/ ToRegular \/ PickRegular \/ ToRead
  \/ ReadBlob \/ BlobRefused \/ Raise \/ Return

Spec == Init /\ [][Next]_vars

-----------------------------------------------------------------------------
(* What is claimed of the repository. *)

\* Mutant: a file left out by a cap does not make the screening incomplete.
CompleteButForErrors == errors = {}

\* SourceCoverage.complete_for_policy
CompleteForPolicy == Len(files) >= Cardinality(Eligible) /\ errors = {}

\* SourceCoverage.complete_for_repository
CompleteForRepository == CompleteForPolicy /\ Cardinality(Eligible) >= Cardinality(Blobs)

\* run and risk_of
Severity ==
  IF files = <<>> THEN "unknown"
  ELSE IF \E i \in ToSet(files) : tree[i].finding THEN "high"
  ELSE IF CompleteForPolicy THEN "none" ELSE "none-found-in-scanned-files"

-----------------------------------------------------------------------------
(* Properties. *)

Weight(t, i, kinds) == IF t[i].kind \in kinds THEN t[i].size ELSE 0

\* The size of the files s of the tree t that are of one of the kinds.
Bytes(t, s, kinds) ==
  LET upTo[n \in 0 .. Len(s)] == IF n = 0 THEN 0 ELSE upTo[n - 1] + Weight(t, s[n], kinds)
  IN upTo[Len(s)]

Sources == {i \in ToSet(selected) : tree[i].kind = "source"}

\* Every variable has the values fetch_files gives it.
TypeOK ==
  /\ tree \in Trees /\ listed \in 0 .. Len(tree)
  /\ pc \in {"tree", "priority", "regular", "read", "done", "raised"}
  /\ selected \in Seq(Eligible) /\ IsInjective(selected)
  /\ bytes \in 0 .. TotalCap /\ regular \in 0 .. CountCap
  /\ ahead \subseteq Eligible /\ skipped \subseteq Blobs
  /\ files \in Seq(ToSet(selected)) /\ errors \subseteq ToSet(selected)
  /\ limited \in BOOLEAN

\* "none" is said of a repository only if no file the policy calls eligible has
\* a finding, however the caps and the refusals fell - if GitHub listed it all.
NoneMissesNothing ==
  pc = "done" /\ Severity = "none" /\ listed = Len(tree) => \A i \in Eligible : ~tree[i].finding

\* Each listed file is read, skipped for a cap, or skipped for an error, and
\* one of them only: no file goes unmentioned.
EveryFileIsAccountedFor == pc = "done" =>
  /\ Blobs = ToSet(files) \union skipped \union errors
  /\ Cardinality(Blobs) = Len(files) + Cardinality(skipped) + Cardinality(errors)

\* A manifest is left out for its own size or for other manifests, never
\* because sources come before it in the tree.
PaddingCannotHideManifests == pc \in {"read", "done"} =>
  \A i \in Eligible : tree[i].kind = "priority" /\ i \notin ToSet(selected) =>
    tree[i].size > FileCap \/ Bytes(tree, selected, {"priority"}) + tree[i].size > TotalCap

\* The caps hold for the files together, and what they left out would break
\* one of them.
CapsHoldAndAreUsed == pc \in {"read", "done"} =>
  /\ Bytes(tree, selected, Kinds) <= TotalCap
  /\ Cardinality(Sources) <= CountCap
  /\ \A i \in Eligible \ ToSet(selected) :
       \/ tree[i].size > FileCap
       \/ Bytes(tree, selected, Kinds) + tree[i].size > TotalCap
       \/ tree[i].kind = "source" /\ Cardinality(Sources) = CountCap

\* What fetch_files does not read is left out for one of its caps or for a
\* refusal, and mentioned as what it is.
OmissionsAreDue == EveryFileIsAccountedFor /\ PaddingCannotHideManifests /\ CapsHoldAndAreUsed

-----------------------------------------------------------------------------
(* What the repository says and the code does not do. *)

\* complete_for_repository: "Nothing in the repository -- including
\* extension-excluded files -- was left unexamined."
CompleteForRepositoryIsSo ==
  pc = "done" /\ CompleteForRepository =>
    \A i \in DOMAIN tree : tree[i].kind # "directory" => i \in ToSet(files)
=============================================================================
