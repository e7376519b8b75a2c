------------------------------ MODULE Category ------------------------------
(***************************************************************************)
(* What category a repository is said to have, from the files that were    *)
(* selected and read: category.py, and the part of application.py that     *)
(* asks it.  An entry of a tree also has a role and says some words.       *)
(***************************************************************************)
EXTENDS SourceSelection

\* The words the evidence looks for; "tool" is a planner or an executor too.
Words == {"mcp", "ollama", "agent", "tool"}

\* AGENTS.md, one of the five manifests _manifest reads, or any other file.
Roles == {"AGENTS.md", "manifest", "plain"}

ASSUME EntriesSay ==
  \A t \in Trees : \A i \in DOMAIN t :
    /\ t[i].says \subseteq Words /\ t[i].role \in Roles
    /\ t[i].role = "manifest" => t[i].kind = "priority"

-----------------------------------------------------------------------------
(* FileEvidenceReader *)

Said(read, word) == \E i \in read : word \in tree[i].says

Manifests(read) == {i \in read : tree[i].role = "manifest"}

\* Mutant: a word in any file is an entry of a manifest.
EvidenceAnywhere(read) ==
  [files            |-> \E i \in read : tree[i].role = "AGENTS.md",
   manifest_entries |-> Said(read, "mcp"),
   dependencies     |-> Said(read, "ollama"),
   source           |-> Said(read, "agent") /\ Said(read, "tool")]

\* What AGENTS.md says does not count as source.
Evidence(read) ==
  [files            |-> \E i \in read : tree[i].role = "AGENTS.md",
   manifest_entries |-> Said(Manifests(read), "mcp"),
   dependencies     |-> Said(Manifests(read), "ollama"),
   source           |-> LET source == {i \in read : tree[i].role # "AGENTS.md"}
                        IN Said(source, "agent") /\ Said(source, "tool")]

\* Mutant: evidence is as good as the files that could be read.
BasisOfFiles == IF pc = "done" /\ files # <<>> THEN "deterministic" ELSE "absent"

\* The evidence is absent if a chosen file could not be read, or none was.
Basis == IF pc = "done" /\ errors = {} THEN "deterministic" ELSE "absent"

-----------------------------------------------------------------------------
(* CATEGORY_PACKS and classify *)

Packs ==
  [coding_agents |-> {"files", "source"}, mcp |-> {"manifest_entries"}, local_ai |-> {"dependencies"}]

Names == {"coding_agents", "mcp", "local_ai"}

Has(pack, read) == \A kind \in Packs[pack] : Evidence(read)[kind]

\* "match", "uncategorized", or "absent" when evidence is
Classify(pack) ==
  IF Basis = "absent" THEN "absent"
  ELSE IF Has(pack, ToSet(files)) THEN "match" ELSE "uncategorized"

-----------------------------------------------------------------------------
(* Properties. *)

\* A category is said of a repository only if what makes it one is in the
\* repository, in the place the pack asks for, however little of it was read.
MatchIsThere ==
  /\ Classify("mcp") = "match" =>
       \E i \in DOMAIN tree : tree[i].role = "manifest" /\ "mcp" \in tree[i].says
  /\ Classify("local_ai") = "match" =>
       \E i \in DOMAIN tree : tree[i].role = "manifest" /\ "ollama" \in tree[i].says
  /\ Classify("coding_agents") = "match" =>
       /\ \E i \in DOMAIN tree : tree[i].role = "AGENTS.md"
       /\ \E i \in DOMAIN tree : tree[i].role # "AGENTS.md" /\ "agent" \in tree[i].says

\* A category is denied only if no chosen file, read or refused, was missing
\* from the evidence: a refusal leaves the category open.
DenialIsEarned ==
  \A pack \in Names : Classify(pack) = "uncategorized" => ~Has(pack, ToSet(selected))

\* classify has a reason in the repository for what it says, and for what it
\* denies.
CategoriesAreEarned == MatchIsThere /\ DenialIsEarned

-----------------------------------------------------------------------------
(* What the repository says and the code does not do. *)

\* "The built-in coding-agents pack" is a repository with an AGENTS.md and an
\* independent sign of an agent runtime, when all that the policy calls eligible
\* was read.
CodingAgentsAreFound ==
  pc = "done" /\ CompleteForPolicy /\ listed = Len(tree) /\ Has("coding_agents", Blobs) =>
    Classify("coding_agents") = "match"
=============================================================================
