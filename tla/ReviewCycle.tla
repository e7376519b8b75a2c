---------------------------- MODULE ReviewCycle ----------------------------
(***************************************************************************)
(* One `gitseed radar` review session, from the ranked queue to the exit   *)
(* code (gitseed/cli.py main, with review/approval.py, review/actions.py   *)
(* and review/commit.py): a person answers on a terminal, the intent is    *)
(* committed, each authorised star or follow is called and its outcome     *)
(* committed; after a failure the rest is recorded as not attempted and    *)
(* what was performed is compensated in reverse order; the run is stored.  *)
(*                                                                         *)
(* Calls to GitHub answer late or never: a call that failed for gitseed    *)
(* may have been applied, or may be applied after gitseed went on.  Any    *)
(* commit may fail, and the process may die at every step.  The commit is  *)
(* one step here; module GitHead shows why it may be.                      *)
(***************************************************************************)
EXTENDS Naturals, Sequences

CONSTANTS Ranked,      \* the review queue, best first
          Owner,       \* Owner[r]: the account that owns repository r
          Accounts,    \* the stars and follows the account may start with
          Unheard      \* TRUE: a commit git reports as failed may have landed

Repos   == {Ranked[k] : k \in DOMAIN Ranked}
Stars   == [decision : {"star"}, target : Repos]
Follows == [decision : {"follow"}, target : {Owner[r] : r \in Repos}]
Effects == Stars \union Follows

Decisions == {"star", "follow", "both", "reject"}
Statuses  == {"succeeded", "call failed", "not attempted", "compensated", "compensation failed"}
Failures  == {"call failed", "compensation failed"}
Stages    == {"start", "asking", "intent", "act", "record success", "record call failure",
              "skip", "undo", "record compensated", "record not compensated", "store",
              "exit", "dead"}

ASSUME RankedIsASeq  == Ranked \in Seq(Repos)
ASSUME AccountsHaveEffects == Accounts \subseteq SUBSET Effects
ASSUME UnheardIsBool == Unheard \in BOOLEAN

VARIABLES
  pc,         \* where main() is
  answers,    \* what the person answered, per queue position
  approvals,  \* the approvals derived from the answers, one per action
  next,       \* the loop variable of the loop main() is in
  performed,  \* indices into approvals whose call returned, in order
  failedAt,   \* the approval that stopped the loop; 0: none
  code,       \* the exit code main() is heading for
  stored,     \* the run is in the run store
  intent,     \* the intent commit is in the history
  outcomes,   \* the outcome commits in the history
  told,       \* the calls that failed, as the terminal named them to the operator
  pending,    \* the operator was told that an outcome, unnamed, is not recorded
  before,     \* history: the account before the session
  remote,     \* the stars and follows the account has
  late        \* calls given up by gitseed that GitHub may still apply

session == <<answers, approvals, performed, failedAt, code, stored>>
record  == <<intent, outcomes, told, pending>>
github  == <<before, remote, late>>
vars    == <<pc, next, session, record, github>>

IsAction(a) == a.decision # "reject"
Indices     == 1 .. Len(approvals)
Authorised  == {approvals[i] : i \in {j \in Indices : IsAction(approvals[j])}}

Init ==
  /\ pc = "start" /\ next = 1
  /\ answers = <<>> /\ approvals = <<>> /\ performed = <<>>
  /\ failedAt = 0 /\ code = 0 /\ stored = FALSE
  /\ intent = FALSE /\ outcomes = {} /\ told = {} /\ pending = FALSE
  /\ remote \in Accounts /\ before = remote /\ late = {}

Goto(from, to) == pc = from /\ pc' = to

-----------------------------------------------------------------------------
(* Asking: _approvals, collect_approval, collect_bulk_approval. *)

Star(r)   == [decision |-> "star", target |-> r]
Follow(r) == [decision |-> "follow", target |-> Owner[r]]
Reject(r) == [decision |-> "reject", target |-> r]

\* Mutant: a star is taken for "both".
StarMeansBoth(d, r) ==
  CASE d \in {"star", "both"} -> <<Star(r), Follow(r)>>
    [] d = "follow"           -> <<Follow(r)>>
    [] d = "reject"           -> <<Reject(r)>>

\* _action_approvals: one approval per action; a follow targets the owner.
ActionApprovals(d, r) ==
  CASE d = "star"   -> <<Star(r)>>
    [] d = "follow" -> <<Follow(r)>>
    [] d = "both"   -> <<Star(r), Follow(r)>>
    [] d = "reject" -> <<Reject(r)>>

\* Mutant: "both" is not split into its actions.
BulkUnsplit(d) ==
  [i \in DOMAIN Ranked |->
     IF d = "both" THEN [decision |-> "both", target |-> Ranked[i]] ELSE ActionApprovals(d, Ranked[i])[1]]

\* The same for one answer to the whole queue.
BulkApprovals(d) ==
  IF d = "both"
  THEN [i \in 1 .. 2 * Len(Ranked) |->
          ActionApprovals(d, Ranked[(i + 1) \div 2])[IF i % 2 = 1 THEN 1 ELSE 2]]
  ELSE [i \in DOMAIN Ranked |-> ActionApprovals(d, Ranked[i])[1]]

\* The run is incomplete, it is a dry run, or nobody is at a terminal.
NoReview ==
  /\ Goto("start", "store")
  /\ code' \in {2, 0} \/ (code' = 1 /\ Ranked # <<>>)
  /\ UNCHANGED <<next, answers, approvals, performed, failedAt, stored, record, github>>

Ask ==
  /\ Goto("start", IF Ranked = <<>> THEN "intent" ELSE "asking")
  /\ UNCHANGED <<next, session, record, github>>

Answer(d) ==
  /\ Goto("asking", IF Len(answers) + 1 = Len(Ranked) THEN "intent" ELSE "asking")
  /\ answers' = Append(answers, d)
  /\ approvals' = approvals \o ActionApprovals(d, Ranked[Len(answers) + 1])
  /\ UNCHANGED <<next, performed, failedAt, code, stored, record, github>>

AnswerAll(d) ==
  /\ Goto("asking", "intent")
  /\ answers = <<>>
  /\ answers' = [k \in DOMAIN Ranked |-> d]
  /\ approvals' = BulkApprovals(d)
  /\ UNCHANGED <<next, performed, failedAt, code, stored, record, github>>

\* `q` or end of input: the answers given so far stand.
Quit ==
  /\ Goto("asking", "intent")
  /\ UNCHANGED <<next, session, record, github>>

-----------------------------------------------------------------------------
(* Recording: record_decisions, record_outcome. *)

NothingDecided ==
  /\ approvals = <<>>
  /\ Goto("intent", "act")
  /\ UNCHANGED <<next, session, record, github>>

CommitIntent ==
  /\ approvals # <<>>
  /\ Goto("intent", "act")
  /\ intent' = TRUE
  /\ UNCHANGED <<next, session, outcomes, told, pending, github>>

\* Mutant: the actions go ahead without an intent.
IntentFailsQuietly ==
  /\ approvals # <<>>
  /\ Goto("intent", "act")
  /\ intent' \in {FALSE, Unheard}
  /\ UNCHANGED <<next, session, outcomes, told, pending, github>>

IntentFails ==
  /\ approvals # <<>>
  /\ Goto("intent", "store")
  /\ code' = 1
  /\ intent' \in {FALSE, Unheard}
  /\ UNCHANGED <<next, answers, approvals, performed, failedAt, stored, outcomes, told, pending, github>>

Outcome(i, status) == [approval |-> i, status |-> status]

OutcomeCommitted(i, status) ==
  /\ outcomes' = outcomes \union {Outcome(i, status)}
  /\ UNCHANGED <<intent, told, pending>>

\* Mutant: nothing is said of an outcome that could not be committed.
OutcomeFailsSilently(i, status) ==
  /\ \/ UNCHANGED outcomes
     \/ Unheard /\ outcomes' = outcomes \union {Outcome(i, status)}
  /\ UNCHANGED <<intent, told, pending>>

\* "outcome commit failed; intent remains pending": of which action, and what
\* its outcome was, the terminal does not say.
OutcomeFails(i, status) ==
  /\ \/ UNCHANGED outcomes
     \/ Unheard /\ outcomes' = outcomes \union {Outcome(i, status)}
  /\ pending' = TRUE
  /\ UNCHANGED <<intent, told>>

\* An outcome whose commit may fail without changing what main() does next.
TryRecord(i, status) == OutcomeCommitted(i, status) \/ OutcomeFails(i, status)

-----------------------------------------------------------------------------
(* Acting: perform, through GitHubWriter. *)

Apply(on, e, S) == IF on THEN S \union {e} ELSE S \ {e}

\* The call for effect e returned without an error.
CallReturns(on, e) ==
  /\ remote' = Apply(on, e, remote)
  /\ UNCHANGED <<before, late>>

\* The call failed: refused, applied with the answer lost, or still under way.
CallFails(on, e) ==
  /\ \/ UNCHANGED <<remote, late>>
     \/ remote' = Apply(on, e, remote) /\ UNCHANGED late
     \/ late' = late \union {[on |-> on, effect |-> e]} /\ UNCHANGED remote
  /\ UNCHANGED before

\* "action failed", "compensation failed": the terminal names the action before
\* its outcome is committed.
Tell(i, status) ==
  /\ told' = told \union {Outcome(i, status)}
  /\ UNCHANGED <<intent, outcomes, pending>>

AtApproval == next \in Indices

ActRejected ==
  /\ pc = "act" /\ AtApproval /\ ~IsAction(approvals[next])
  /\ next' = next + 1
  /\ UNCHANGED <<pc, session, record, github>>

Perform ==
  /\ AtApproval /\ IsAction(approvals[next])
  /\ Goto("act", "record success")
  /\ CallReturns(TRUE, approvals[next])
  /\ performed' = Append(performed, next)
  /\ UNCHANGED <<next, answers, approvals, failedAt, code, stored, record>>

PerformFails ==
  /\ AtApproval /\ IsAction(approvals[next])
  /\ Goto("act", "record call failure")
  /\ CallFails(TRUE, approvals[next])
  /\ Tell(next, "call failed")
  /\ UNCHANGED <<next, session>>

RecordSuccess ==
  /\ Goto("record success", "act")
  /\ OutcomeCommitted(next, "succeeded")
  /\ next' = next + 1
  /\ UNCHANGED <<session, github>>

\* Mutant: a success that could not be recorded is passed over.
RecordSuccessFailsQuietly ==
  /\ Goto("record success", "act")
  /\ OutcomeFails(next, "succeeded")
  /\ next' = next + 1
  /\ UNCHANGED <<session, github>>

\* Mutant: a success that could not be recorded ends the session at once.
RecordSuccessFailsForGood ==
  /\ Goto("record success", "store")
  /\ OutcomeFails(next, "succeeded")
  /\ failedAt' = next
  /\ code' = 1
  /\ UNCHANGED <<next, answers, approvals, performed, stored, github>>

RecordSuccessFails ==
  /\ Goto("record success", "skip")
  /\ OutcomeFails(next, "succeeded")
  /\ failedAt' = next
  /\ next' = next + 1
  /\ UNCHANGED <<answers, approvals, performed, code, stored, github>>

\* Mutant: the actions not attempted start two after the one that failed.
RecordCallFailureTooFar ==
  /\ Goto("record call failure", "skip")
  /\ TryRecord(next, "call failed")
  /\ failedAt' = next
  /\ next' = next + 2
  /\ UNCHANGED <<answers, approvals, performed, code, stored, github>>

\* Mutant: the actions not attempted start with the one that failed.
RecordCallFailureInPlace ==
  /\ Goto("record call failure", "skip")
  /\ TryRecord(next, "call failed")
  /\ failedAt' = next
  /\ UNCHANGED <<next, answers, approvals, performed, code, stored, github>>

RecordCallFailure ==
  /\ Goto("record call failure", "skip")
  /\ TryRecord(next, "call failed")
  /\ failedAt' = next
  /\ next' = next + 1
  /\ UNCHANGED <<answers, approvals, performed, code, stored, github>>

AllDone ==
  /\ ~AtApproval
  /\ Goto("act", "store")
  /\ UNCHANGED <<next, session, record, github>>

-----------------------------------------------------------------------------
(* After a failure: the rest is not attempted, what was done is undone. *)

SkipRejected ==
  /\ pc = "skip" /\ AtApproval /\ ~IsAction(approvals[next])
  /\ next' = next + 1
  /\ UNCHANGED <<pc, session, record, github>>

RecordNotAttempted ==
  /\ pc = "skip" /\ AtApproval /\ IsAction(approvals[next])
  /\ TryRecord(next, "not attempted")
  /\ next' = next + 1
  /\ UNCHANGED <<pc, session, github>>

\* Mutant: the undo loop starts one past the last performed action.
StartUndoPastEnd ==
  /\ ~AtApproval
  /\ Goto("skip", "undo")
  /\ next' = Len(performed) + 1
  /\ UNCHANGED <<session, record, github>>

StartUndo ==
  /\ ~AtApproval
  /\ Goto("skip", "undo")
  /\ next' = Len(performed)
  /\ UNCHANGED <<session, record, github>>

Undo ==
  /\ next > 0
  /\ Goto("undo", "record compensated")
  /\ CallReturns(FALSE, approvals[performed[next]])
  /\ UNCHANGED <<next, session, record>>

UndoFails ==
  /\ next > 0
  /\ Goto("undo", "record not compensated")
  /\ CallFails(FALSE, approvals[performed[next]])
  /\ Tell(performed[next], "compensation failed")
  /\ UNCHANGED <<next, session>>

\* Mutant: the two outcomes of a compensation are swapped.
RecordUndoSwapped ==
  /\ \/ Goto("record compensated", "undo") /\ TryRecord(performed[next], "compensation failed")
     \/ Goto("record not compensated", "undo") /\ TryRecord(performed[next], "compensated")
  /\ next' = next - 1
  /\ UNCHANGED <<session, github>>

\* Mutant: a compensation that failed is tried again until it works.
RecordUndoRetries ==
  /\ \/ /\ Goto("record compensated", "undo") /\ TryRecord(performed[next], "compensated")
        /\ next' = next - 1
     \/ /\ Goto("record not compensated", "undo") /\ TryRecord(performed[next], "compensation failed")
        /\ UNCHANGED next
  /\ UNCHANGED <<session, github>>

RecordUndo ==
  /\ \/ Goto("record compensated", "undo") /\ TryRecord(performed[next], "compensated")
     \/ Goto("record not compensated", "undo") /\ TryRecord(performed[next], "compensation failed")
  /\ next' = next - 1
  /\ UNCHANGED <<session, github>>

AllUndone ==
  /\ next = 0
  /\ Goto("undo", "store")
  /\ code' = 1
  /\ UNCHANGED <<next, answers, approvals, performed, failedAt, stored, record, github>>

-----------------------------------------------------------------------------
(* The end: _store_run and the handler around main(). *)

StoreRun ==
  /\ Goto("store", "exit")
  /\ stored' = TRUE
  /\ UNCHANGED <<next, answers, approvals, performed, failedAt, code, record, github>>

\* OSError or sqlite3.Error: "run failed", whatever the session achieved.
StoreFails ==
  /\ Goto("store", "exit")
  /\ code' = 1
  /\ UNCHANGED <<next, answers, approvals, performed, failedAt, stored, record, github>>

\* Ctrl-C, a kill, a broken pipe, an exception main() does not catch.
Die ==
  /\ pc \notin {"exit", "dead"}
  /\ pc' = "dead"
  /\ UNCHANGED <<next, session, record, github>>

\* GitHub applies a call gitseed has given up.
LandLate == \E call \in late :
  /\ remote' = Apply(call.on, call.effect, remote)
  /\ late' = late \ {call}
  /\ UNCHANGED <<pc, next, session, record, before>>

Work ==
  \/ NothingDecided \/ CommitIntent \/ IntentFails
  \/ ActRejected \/ Perform \/ PerformFails
  \/ RecordSuccess \/ RecordSuccessFails \/ RecordCallFailure \/ AllDone
  \/ SkipRejected \/ RecordNotAttempted
  \/ StartUndo \/ Undo \/ UndoFails \/ RecordUndo \/ AllUndone
  \/ StoreRun \/ StoreFails

Next ==
  \/ NoReview \/ Ask \/ Quit \/ \E d \in Decisions : Answer(d) \/ AnswerAll(d)
  \/ Work \/ Die \/ LandLate

\* gitseed keeps going once it has its answers: git and GitHub answer or time
\* out.  Nobody has to answer a prompt, and a late call need not land.
Spec == Init /\ [][Next]_vars /\ WF_vars(Work)

-----------------------------------------------------------------------------
(* Properties. *)

\* Every variable has the values main() and its helpers give it.
TypeOK ==
  /\ pc \in Stages /\ next \in Nat
  /\ answers \in Seq(Decisions)
  /\ approvals \in Seq(Effects \union [decision : {"reject"}, target : Repos])
  /\ performed \in Seq(Nat)
  /\ failedAt \in Nat /\ code \in 0 .. 2 /\ stored \in BOOLEAN
  /\ intent \in BOOLEAN
  /\ outcomes \subseteq [approval : Nat, status : Statuses]
  /\ told \subseteq [approval : Nat, status : Failures]
  /\ pending \in BOOLEAN
  /\ before \subseteq Effects /\ remote \subseteq Effects
  /\ late \subseteq [on : BOOLEAN, effect : Effects]

\* What the person at the terminal agreed to, read off the raw answers.
Consented ==
  {Star(Ranked[k]) : k \in {j \in DOMAIN answers : answers[j] \in {"star", "both"}}}
    \union
  {Follow(Ranked[k]) : k \in {j \in DOMAIN answers : answers[j] \in {"follow", "both"}}}

\* ADR-0006: a star or follow that appears on the account was answered for by
\* the person, at that repository or for that repository's owner - whatever
\* fails, is repeated, arrives late or dies in between.
OnlyWhatWasAnswered == remote \ before \subseteq Consented

\* Exit code 0 means that everything the person agreed to is in effect, and that
\* the history holds the intent and a success for every action.
CleanExitMeansAllDone ==
  pc = "exit" /\ code = 0 =>
    /\ Consented \subseteq remote
    /\ \A i \in Indices :
         IsAction(approvals[i]) => intent /\ Outcome(i, "succeeded") \in outcomes

\* The log says it, or the terminal has.
Noted(i, status) == Outcome(i, status) \in outcomes \union told

\* The call that might have put effect e failed, and the log or the operator was told.
MayBeApplied(e) == \E i \in Indices : approvals[i] = e /\ Noted(i, "call failed")

\* A failed session that reached its end has undone what it did: a star or
\* follow it leaves behind is one whose call or whose compensation failed and
\* was noted as such.
FailureIsAccountedFor ==
  pc \in {"store", "exit"} /\ failedAt # 0 =>
    \A e \in remote \ before :
      \/ MayBeApplied(e)
      \/ \E i \in Indices : approvals[i] = e /\ Noted(i, "compensation failed")

\* An outcome commit is true of the account when it is written and stays true:
\* a success holds until the session fails, a compensated action is gone, and
\* an action that was not attempted is in effect for another reason, if at all.
OutcomesAreTrue == \A o \in outcomes : LET e == approvals[o.approval] IN
  /\ o.status = "succeeded" /\ failedAt = 0 => e \in remote
  /\ o.status = "compensated" => e \notin remote \/ MayBeApplied(e)
  /\ o.status = "not attempted" /\ e \in remote =>
       e \in before \/ \E i \in Indices \ {o.approval} : approvals[i] = e

\* The records of one action never contradict each other: an action is called
\* once, compensated once and only if its call had returned.
OutcomesAreConsistent ==
  \A o, q \in outcomes : o.approval = q.approval /\ o # q =>
    {o.status, q.status} \in
      {{"succeeded", "compensated"}, {"succeeded", "compensation failed"}}

\* The exit code of main(): 0 is said of a session that did all that was asked
\* of it, and a session that failed has undone or noted what it did.
ExitCodeIsHonest == CleanExitMeansAllDone /\ FailureIsAccountedFor

\* A session that failed leaves no action without an outcome, in the log or on
\* the terminal, unless it said that the log is behind.
EachHasAnOutcome == pc \in {"store", "exit"} /\ failedAt # 0 /\ ~pending =>
  \A i \in Indices : IsAction(approvals[i]) => \E status \in Statuses : Noted(i, status)

\* The outcome commits can be believed: each is true of the account, none
\* contradicts another, and none is missing without a word.
OutcomesCanBeBelieved == OutcomesAreTrue /\ OutcomesAreConsistent /\ EachHasAnOutcome

\* A session that has its answers ends: no failure keeps main() in a loop.
ReviewEnds == pc = "intent" ~> pc \in {"exit", "dead"}

\* The session implements the promise that only durably granted actions touch
\* the account.
Promise == INSTANCE ApprovedWrites WITH granted <- IF intent THEN Authorised ELSE {}
ImplementsApprovedWrites == Promise!Spec

-----------------------------------------------------------------------------
(* The inductive invariant behind OnlyWhatWasAnswered and the promise. *)

Asking == {"start", "asking", "intent"}
Acting == Stages \ (Asking \union {"store", "exit", "dead"})

\* The approvals authorise what was agreed to: no less, no more.
ConsentIsExact == Authorised = Consented

\* No approval can change once the intent is committed, no call is made before.
IntentFirst ==
  /\ pc \in Asking => ~intent
  /\ pc \in Acting => intent \/ approvals = <<>>
  /\ ~intent => remote = before /\ late = {}

\* What was put, what may still land and what will be undone is authorised.
WritesAreAuthorised ==
  /\ remote \ before \subseteq Authorised
  /\ \A call \in late : call.effect \in Authorised
  /\ \A k \in DOMAIN performed : performed[k] \in Indices /\ IsAction(approvals[performed[k]])

\* The loop variables stay inside what they index.
LoopsAreInBounds ==
  /\ pc = "asking" => Len(answers) < Len(Ranked)
  /\ pc \in {"start", "asking"} => (answers = <<>> => approvals = <<>>)
  /\ pc = "start" => answers = <<>>
  /\ pc \in Asking => performed = <<>>
  /\ pc = "undo" => next \in 0 .. Len(performed)
  /\ pc \in {"record compensated", "record not compensated"} => next \in DOMAIN performed
  /\ pc \in {"record success", "record call failure"} => AtApproval

IInv ==
  /\ TypeOK
  /\ ConsentIsExact
  /\ IntentFirst
  /\ WritesAreAuthorised
  /\ LoopsAreInBounds

-----------------------------------------------------------------------------
(* What the repository says and the code does not do. *)

\* actions.undo: "taking back only erases state this tool created".
UndoErasesOnlyOwnState == before \subseteq remote
=============================================================================
