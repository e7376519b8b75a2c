--------------------------- MODULE DecisionRecord ---------------------------
(***************************************************************************)
(* What the commits of a review session say: the intent commit             *)
(* (review/commit.py render_decisions, review/trailers.py render_block)    *)
(* and the outcome commits (render_outcome).  An answer to the whole queue *)
(* gives as many approvals as the queue is long; beyond a limit the intent *)
(* counts them instead of naming them, and the prompt it quotes shows the  *)
(* beginning of the listing only (review/approval.py _bounded_listing).    *)
(***************************************************************************)
EXTENDS ReviewCycle, FiniteSets

CONSTANT Limits  \* the values tried for BULK_LISTING_ROW_LIMIT (20)

ASSUME LimitsArePositive == Limits \subseteq Nat \ {0}

\* Whether the answers may be one answer to the whole queue (--approve-all).
OneAnswer ==
  Len(answers) = Len(Ranked) /\ \A j, k \in DOMAIN answers : answers[j] = answers[k]

Ways == IF OneAnswer THEN BOOLEAN ELSE {FALSE}

-----------------------------------------------------------------------------
(* The prompt: the header and a row for each repository of the queue. *)

\* Mutant: the header is taken for a row.
RowsOnly(limit) == limit

LinesKept(limit) == limit + 1

\* The rows of the listing that the prompt leaves out, and counts.
Omitted(limit) ==
  LET listing == Len(Ranked) + 1
  IN IF listing <= LinesKept(limit) THEN 0 ELSE listing - LinesKept(limit)

-----------------------------------------------------------------------------
(* The lines of the intent. *)

\* Mutant: one answer is one decision.
SameAnswer(bulk, i, j) == bulk \/ i = j

\* The key of _collapse_large_bulk_groups: the prompt, the answer and the time
\* are those of the one answer, or of the item and its decision.
SameKey(bulk, i, j) == approvals[i].decision = approvals[j].decision /\ (bulk \/ i = j)

Group(bulk, i) == {j \in Indices : SameKey(bulk, i, j)}

Collapsed(bulk, limit, i) == bulk /\ Cardinality(Group(bulk, i)) > limit

\* What "Verified" or "Ruled-out" says: a target, or a number of targets.
Line(bulk, limit, i) ==
  IF Collapsed(bulk, limit, i)
  THEN [decision |-> approvals[i].decision, targets |-> {}, count |-> Cardinality(Group(bulk, i))]
  ELSE [decision |-> approvals[i].decision, targets |-> {approvals[i].target}, count |-> 1]

\* The approvals that have a line: of a collapsed group the first one only.
Speakers(bulk, limit) ==
  {i \in Indices : Collapsed(bulk, limit, i) => \A j \in Group(bulk, i) : i <= j}

\* render_decisions: the lines, each in the place of its approval.
IntentLines(bulk, limit) == [i \in Speakers(bulk, limit) |-> Line(bulk, limit, i)]

-----------------------------------------------------------------------------
(* The outcomes. *)

\* Mutant: how hard an action is to undo depends on the action alone.
UndoByAction(o) == IF approvals[o.approval].decision = "star" THEN "easy" ELSE "costly"

\* "Undo" of render_outcome
UndoOf(o) ==
  CASE o.status = "not attempted" -> "easy"
    [] o.status \in {"call failed", "compensated", "compensation failed"} -> "permanent"
    [] OTHER -> IF approvals[o.approval].decision = "star" THEN "easy" ELSE "costly"

-----------------------------------------------------------------------------
(* Properties. *)

\* The approvals with one decision, and the lines that speak of it.
Those(d)         == {i \in Indices : approvals[i].decision = d}
SaidIn(lines, d) == {l \in DOMAIN lines : lines[l].decision = d}

\* As many as the counts of some lines add up to.
Counted(lines, said) == UNION {{l} \X (1 .. lines[l].count) : l \in said}

\* render_block, "the log is the list of judgements, not of actions": whatever
\* was collapsed, the intent accounts for each decision of the session, the
\* rejections included, once: by its target or in the count of its kind.
IntentCountsEveryDecision == pc = "intent" =>
  \A bulk \in Ways : \A limit \in Limits : LET lines == IntentLines(bulk, limit) IN
    \A d \in Decisions :
      /\ Cardinality(Counted(lines, SaidIn(lines, d))) = Cardinality(Those(d))
      /\ \A i \in Those(d) :
           \E l \in SaidIn(lines, d) : lines[l].targets \in {{}, {approvals[i].target}}

\* The two limits agree: the prompt quoted in the intent leaves rows out if and
\* only if the intent leaves targets unnamed, and counts the same targets.
WhatIsOmittedIsCounted == pc = "intent" /\ OneAnswer =>
  \A limit \in Limits : \A k \in DOMAIN IntentLines(TRUE, limit) :
    LET line == IntentLines(TRUE, limit)[k] IN
      /\ Omitted(limit) > 0 <=> line.targets = {}
      /\ line.targets = {} => line.count = limit + Omitted(limit)

\* The intent that main() commits before the first call accounts for every
\* decision, and for the same ones in its lines and in the prompt it quotes.
IntentIsComplete == IntentCountsEveryDecision /\ WhatIsOmittedIsCounted

\* What the log and the terminal say of an approval by name.
SaidOf(i) == {o \in outcomes \union told : o.approval = i}

\* What is said of the approval is what became of it.
IsAsSaid(i) ==
  approvals[i] \in remote <=> approvals[i] \in before \/ Outcome(i, "succeeded") \in SaidOf(i)

\* It was taken back after its success had been recorded, and that it was is not
\* in the log; the operator was told that the log lacks something.
TakenBackUnsaid(i) ==
  pending /\ Outcome(i, "succeeded") \in outcomes /\ approvals[i] \notin remote

\* Where all that is said of an action is "Undo: easy", the end of the session
\* finds it as was said, or taken back if the operator was told that the log is
\* behind; and no call to GitHub about it is still under way - unless another
\* approval asked for the same thing.
EasyMeansReversible == pc \in {"store", "exit"} =>
  \A i \in Indices : SaidOf(i) # {} /\ (\A o \in SaidOf(i) : UndoOf(o) = "easy") =>
    \/ \E j \in Indices \ {i} : approvals[j] = approvals[i]
    \/ /\ IsAsSaid(i) \/ TakenBackUnsaid(i)
       /\ \A call \in late : call.effect # approvals[i]
=============================================================================
