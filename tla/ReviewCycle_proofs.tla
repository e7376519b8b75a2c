------------------------- MODULE ReviewCycle_proofs -------------------------
(***************************************************************************)
(* Proofs about ReviewCycle for every queue, every ownership and every     *)
(* initial account: the inductive invariant IInv, OnlyWhatWasAnswered, and *)
(* the refinement of ApprovedWrites; then what a session leaves behind:    *)
(* the inductive invariant AInv, the exit code that can be trusted         *)
(* (ExitCodeIsHonest) and the outcome commits that can be believed         *)
(* (OutcomesCanBeBelieved); and what its words are worth: the inductive    *)
(* invariant EInv and EasyMeansReversible, the inductive invariant RInv    *)
(* and IntentIsComplete, of DecisionRecord.  Last, the bound that each     *)
(* step of a session brings down.                                          *)
(***************************************************************************)
EXTENDS DecisionRecord, FiniteSetTheorems, SequenceTheorems, WellFoundedInduction,
        NaturalsInduction, TLAPS

USE RankedIsASeq, AccountsHaveEffects, UnheardIsBool

Rejections == [decision : {"reject"}, target : Repos]

-----------------------------------------------------------------------------
(* How answers become approvals. *)

\* One answer gives one or two approvals, about that repository or its owner.
LEMMA AnswerGivesApprovals ==
  ASSUME NEW d \in Decisions, NEW r \in Repos
  PROVE  /\ ActionApprovals(d, r) \in Seq(Effects \union Rejections)
         /\ Len(ActionApprovals(d, r)) = IF d = "both" THEN 2 ELSE 1
         /\ ActionApprovals(d, r) # <<>>
<1>1. /\ Star(r) \in Effects \union Rejections
      /\ Follow(r) \in Effects \union Rejections
      /\ Reject(r) \in Effects \union Rejections
  BY DEF Star, Follow, Reject, Effects, Stars, Follows, Rejections
<1>2. CASE d = "star"
  BY <1>1, <1>2 DEF ActionApprovals
<1>3. CASE d = "follow"
  BY <1>1, <1>3 DEF ActionApprovals
<1>4. CASE d = "both"
  BY <1>1, <1>4 DEF ActionApprovals
<1>5. CASE d = "reject"
  BY <1>1, <1>5 DEF ActionApprovals
<1>6. QED
  BY <1>2, <1>3, <1>4, <1>5 DEF Decisions

\* What one answer authorises is what the person agreed to with it.
LEMMA OneAnswerIsExact ==
  ASSUME NEW d \in Decisions, NEW r \in Repos, NEW e
  PROVE  (\E i \in 1 .. Len(ActionApprovals(d, r)) :
             ActionApprovals(d, r)[i] = e /\ IsAction(e))
           <=> \/ d \in {"star", "both"} /\ e = Star(r)
               \/ d \in {"follow", "both"} /\ e = Follow(r)
<1>1. CASE d = "star"
  BY <1>1 DEF ActionApprovals, Star, Follow, IsAction
<1>2. CASE d = "follow"
  BY <1>2 DEF ActionApprovals, Star, Follow, IsAction
<1>3. CASE d = "both"
  <2>1. ActionApprovals(d, r) = <<Star(r), Follow(r)>>
    BY <1>3 DEF ActionApprovals
  <2>2. IsAction(Star(r)) /\ IsAction(Follow(r))
    BY DEF IsAction, Star, Follow
  <2>3. QED
    BY <1>3, <2>1, <2>2
<1>4. CASE d = "reject"
  BY <1>4 DEF ActionApprovals, Reject, IsAction
<1>5. QED
  BY <1>1, <1>2, <1>3, <1>4 DEF Decisions

\* Authorised and Consented, element by element.
LEMMA InAuthorised ==
  \A e : e \in Authorised <=> \E i \in Indices : approvals[i] = e /\ IsAction(e)
BY DEF Authorised

\* What was consented to, by the answer that consented to it.
LEMMA InConsented ==
  \A e : e \in Consented <=>
    \E k \in DOMAIN answers :
      \/ answers[k] \in {"star", "both"} /\ e = Star(Ranked[k])
      \/ answers[k] \in {"follow", "both"} /\ e = Follow(Ranked[k])
BY DEF Consented

\* One answer to the whole queue: the approvals are as many as needed, each
\* one of those the answer gives for some position, and none is missing.
LEMMA BulkAnswer ==
  ASSUME NEW d \in Decisions
  PROVE  /\ BulkApprovals(d) \in Seq(Effects \union Rejections)
         /\ \A i \in DOMAIN BulkApprovals(d) : \E k \in DOMAIN Ranked :
              \E j \in 1 .. Len(ActionApprovals(d, Ranked[k])) :
                BulkApprovals(d)[i] = ActionApprovals(d, Ranked[k])[j]
         /\ \A k \in DOMAIN Ranked : \A j \in 1 .. Len(ActionApprovals(d, Ranked[k])) :
              \E i \in DOMAIN BulkApprovals(d) :
                BulkApprovals(d)[i] = ActionApprovals(d, Ranked[k])[j]
<1> DEFINE n == Len(Ranked)
           A(k) == ActionApprovals(d, Ranked[k])
<1>0. n \in Nat /\ DOMAIN Ranked = 1 .. n /\ \A k \in 1 .. n : Ranked[k] \in Repos
  OBVIOUS
<1>1. \A k \in 1 .. n : /\ A(k) \in Seq(Effects \union Rejections)
                        /\ Len(A(k)) = IF d = "both" THEN 2 ELSE 1
  BY <1>0, AnswerGivesApprovals
<1>2. CASE d = "both"
  <2>1. \A i \in 1 .. 2 * n : (i + 1) \div 2 \in 1 .. n
    BY <1>0
  <2>2. BulkApprovals(d) = [i \in 1 .. 2 * n |-> A((i + 1) \div 2)[IF i % 2 = 1 THEN 1 ELSE 2]]
    BY <1>2 DEF BulkApprovals
  <2> HIDE DEF A, n
  <2>3. \A i \in 1 .. 2 * n : BulkApprovals(d)[i] \in Effects \union Rejections
    <3> SUFFICES ASSUME NEW i \in 1 .. 2 * n
                 PROVE  BulkApprovals(d)[i] \in Effects \union Rejections
      OBVIOUS
    <3>1. PICK k \in 1 .. n, j \in 1 .. 2 : BulkApprovals(d)[i] = A(k)[j]
      BY <2>1, <2>2
    <3>2. QED
      BY <1>1, <1>2, <3>1
  <2>4. BulkApprovals(d) \in Seq(Effects \union Rejections)
    BY <1>0, <2>2, <2>3
  <2>5. \A i \in DOMAIN BulkApprovals(d) : \E k \in 1 .. n : \E j \in 1 .. Len(A(k)) :
          BulkApprovals(d)[i] = A(k)[j]
    <3> SUFFICES ASSUME NEW i \in 1 .. 2 * n
                 PROVE  \E k \in 1 .. n : \E j \in 1 .. Len(A(k)) : BulkApprovals(d)[i] = A(k)[j]
      BY <2>2
    <3>1. PICK k \in 1 .. n, j \in 1 .. 2 : BulkApprovals(d)[i] = A(k)[j]
      BY <2>1, <2>2
    <3>2. Len(A(k)) = 2
      BY <1>1, <1>2
    <3>3. QED
      BY <3>1, <3>2
  <2>6. ASSUME NEW k \in 1 .. n, NEW j \in 1 .. Len(A(k))
        PROVE  \E i \in DOMAIN BulkApprovals(d) : BulkApprovals(d)[i] = A(k)[j]
    <3>1. j \in 1 .. 2
      BY <1>1, <1>2
    <3>2. CASE j = 1
      <4>1. 2 * k - 1 \in 1 .. 2 * n /\ (2 * k - 1 + 1) \div 2 = k /\ (2 * k - 1) % 2 = 1
        BY <1>0
      <4>2. QED
        BY <2>2, <3>2, <4>1
    <3>3. CASE j = 2
      <4>1. 2 * k \in 1 .. 2 * n /\ (2 * k + 1) \div 2 = k /\ (2 * k) % 2 # 1
        BY <1>0
      <4>2. QED
        BY <2>2, <3>3, <4>1
    <3>4. QED
      BY <3>1, <3>2, <3>3
  <2>7. QED
    BY <1>0, <2>4, <2>5, <2>6 DEF A
<1>3. CASE d # "both"
  <2>1. BulkApprovals(d) = [i \in 1 .. n |-> A(i)[1]]
    BY <1>0, <1>3 DEF BulkApprovals
  <2> HIDE DEF A, n
  <2>2. \A i \in 1 .. n : A(i)[1] \in Effects \union Rejections /\ Len(A(i)) = 1
    BY <1>1, <1>3
  <2>3. BulkApprovals(d) \in Seq(Effects \union Rejections)
    BY <1>0, <2>1, <2>2
  <2>4. QED
    BY <1>0, <2>1, <2>2, <2>3 DEF A
<1>4. QED
  BY <1>2, <1>3

-----------------------------------------------------------------------------
(* Facts about one step. *)

Answering == \E d \in Decisions : Answer(d) \/ AnswerAll(d)

\* Only an answer changes answers or approvals, and it does so while asking.
LEMMA ApprovalsAreFixed ==
  ASSUME [Next]_vars, ~Answering
  PROVE  UNCHANGED <<answers, approvals>>
BY DEF Next, Answering, Work, vars, session, record, github, NoReview, Ask, Quit,
   NothingDecided, CommitIntent, IntentFails, ActRejected, Perform, PerformFails,
   RecordSuccess, RecordSuccessFails, RecordCallFailure, AllDone, SkipRejected,
   RecordNotAttempted, StartUndo, Undo, UndoFails, RecordUndo, AllUndone, StoreRun,
   StoreFails, Die, LandLate

\* The account changes, or is left to change, by one effect of one call: the
\* approval the act loop is at, the performed action the undo loop is at, or a
\* call that was given up before.
LEMMA AccountMoves ==
  ASSUME IInv, [Next]_vars
  PROVE  \/ UNCHANGED github
         \/ /\ \E e \in Authorised, on \in BOOLEAN : CallReturns(on, e) \/ CallFails(on, e)
            /\ pc \in Acting
         \/ LandLate
<1> USE DEF IInv
<1>1. ASSUME AtApproval, IsAction(approvals[next]) PROVE approvals[next] \in Authorised
  BY <1>1 DEF AtApproval, Authorised
<1>2. CASE Perform
  BY <1>1, <1>2 DEF Perform, Goto, Acting, Stages, Asking
<1>3. CASE PerformFails
  BY <1>1, <1>3 DEF PerformFails, Goto, Acting, Stages, Asking
<1>4. ASSUME pc = "undo", next > 0 PROVE approvals[performed[next]] \in Authorised
  <2>1. next \in DOMAIN performed
    BY <1>4 DEF LoopsAreInBounds, TypeOK
  <2>2. QED
    BY <2>1 DEF WritesAreAuthorised, Authorised
<1>5. CASE Undo
  BY <1>4, <1>5 DEF Undo, Goto, Acting, Stages, Asking
<1>6. CASE UndoFails
  BY <1>4, <1>6 DEF UndoFails, Goto, Acting, Stages, Asking
<1>7. CASE LandLate
  BY <1>7
<1>8. CASE UNCHANGED github
  BY <1>8
<1>9. QED
  BY <1>2, <1>3, <1>5, <1>6, <1>7, <1>8 DEF Next, Work, vars, session, record, NoReview,
     Ask, Quit, Answer, AnswerAll, NothingDecided, CommitIntent, IntentFails, ActRejected,
     RecordSuccess, RecordSuccessFails, RecordCallFailure, AllDone, SkipRejected,
     RecordNotAttempted, StartUndo, RecordUndo, AllUndone, StoreRun, StoreFails, Die

-----------------------------------------------------------------------------
(* The inductive invariant. *)

\* The invariant holds before the first question is asked.
LEMMA InitIInv == Init => IInv
<1> SUFFICES ASSUME Init PROVE IInv
  OBVIOUS
<1> USE DEF Init
<1>1. TypeOK
  <2>1. before \subseteq Effects /\ remote \subseteq Effects
    OBVIOUS
  <2>2. pc \in Stages /\ next \in Nat /\ failedAt \in Nat /\ code \in 0 .. 2
    BY DEF Stages
  <2>3. /\ answers \in Seq(Decisions) /\ performed \in Seq(Nat)
        /\ approvals \in Seq(Effects \union Rejections)
    OBVIOUS
  <2>4. QED
    BY <2>1, <2>2, <2>3 DEF TypeOK, Rejections
<1>2. ConsentIsExact
  BY DEF ConsentIsExact, Authorised, Consented, Indices
<1>3. IntentFirst /\ WritesAreAuthorised /\ LoopsAreInBounds
  BY DEF IntentFirst, WritesAreAuthorised, LoopsAreInBounds, Asking, Acting, Indices
<1>4. QED
  BY <1>1, <1>2, <1>3 DEF IInv

\* Recording an outcome keeps the type of the record, and telling one does.
LEMMA RecordTypes ==
  ASSUME TypeOK, NEW i \in Nat, NEW status \in Statuses,
         TryRecord(i, status) \/ (status \in Failures /\ Tell(i, status))
  PROVE  /\ intent' = intent
         /\ outcomes' \subseteq [approval : Nat, status : Statuses]
         /\ told' \subseteq [approval : Nat, status : Failures]
         /\ pending' \in BOOLEAN
<1>1. CASE TryRecord(i, status)
  <2>1. /\ intent' = intent /\ told' = told /\ pending' \in {pending, TRUE}
        /\ outcomes' \subseteq outcomes \union {Outcome(i, status)}
    BY <1>1 DEF TryRecord, OutcomeCommitted, OutcomeFails
  <2>2. Outcome(i, status) \in [approval : Nat, status : Statuses]
    BY DEF Outcome
  <2>3. QED
    BY <2>1, <2>2 DEF TypeOK
<1>2. CASE status \in Failures /\ Tell(i, status)
  BY <1>2 DEF Tell, Outcome, TypeOK
<1>3. QED
  BY <1>1, <1>2

\* What is on the account, and what is under way to it, are stars and follows.
LEMMA GithubTypes ==
  ASSUME IInv, [Next]_vars
  PROVE  /\ before' \subseteq Effects /\ remote' \subseteq Effects
         /\ late' \subseteq [on : BOOLEAN, effect : Effects]
<1> USE DEF IInv, TypeOK
<1>1. CASE UNCHANGED github
  BY <1>1 DEF github
<1>2. ASSUME NEW e \in Authorised, NEW on \in BOOLEAN, CallReturns(on, e) \/ CallFails(on, e)
      PROVE  /\ before' \subseteq Effects /\ remote' \subseteq Effects
             /\ late' \subseteq [on : BOOLEAN, effect : Effects]
  <2>1. e \in Effects
    BY DEF Authorised, IsAction, Indices
  <2>2. QED
    BY <1>2, <2>1 DEF CallReturns, CallFails, Apply
<1>3. CASE LandLate
  BY <1>3 DEF LandLate, Apply
<1>4. QED
  BY <1>1, <1>2, <1>3, AccountMoves

\* An answer adds a decision and its approvals, and nothing of another type.
LEMMA AnswerTypes ==
  ASSUME IInv, Answering
  PROVE  answers' \in Seq(Decisions) /\ approvals' \in Seq(Effects \union Rejections)
<1> USE DEF IInv, TypeOK
<1>0. approvals \in Seq(Effects \union Rejections)
  BY DEF Rejections
<1>1. ASSUME NEW d \in Decisions, Answer(d)
      PROVE  answers' \in Seq(Decisions) /\ approvals' \in Seq(Effects \union Rejections)
  <2>1. Ranked[Len(answers) + 1] \in Repos
    BY <1>1 DEF Answer, Goto, LoopsAreInBounds
  <2>2. ActionApprovals(d, Ranked[Len(answers) + 1]) \in Seq(Effects \union Rejections)
    BY <2>1, AnswerGivesApprovals
  <2>3. QED
    BY <1>0, <1>1, <2>2 DEF Answer
<1>2. ASSUME NEW d \in Decisions, AnswerAll(d)
      PROVE  answers' \in Seq(Decisions) /\ approvals' \in Seq(Effects \union Rejections)
  <2>1. Len(Ranked) \in Nat /\ DOMAIN Ranked = 1 .. Len(Ranked)
    OBVIOUS
  <2>2. answers' = [k \in 1 .. Len(Ranked) |-> d]
    BY <1>2, <2>1 DEF AnswerAll
  <2>3. QED
    BY <1>2, <2>1, <2>2, BulkAnswer DEF AnswerAll
<1>3. QED
  BY <1>1, <1>2 DEF Answering

\* Type correctness of the session, of what it recorded and of the account.
LEMMA NextTypeOK == IInv /\ [Next]_vars => TypeOK'
<1> SUFFICES ASSUME IInv, [Next]_vars PROVE TypeOK'
  OBVIOUS
<1>a. TypeOK /\ LoopsAreInBounds
  BY DEF IInv
<1> DEFINE GithubOK == /\ before' \subseteq Effects /\ remote' \subseteq Effects
                     /\ late' \subseteq [on : BOOLEAN, effect : Effects]
           RecordOK == /\ intent' \in BOOLEAN
                     /\ outcomes' \subseteq [approval : Nat, status : Statuses]
                     /\ told' \subseteq [approval : Nat, status : Failures]
                     /\ pending' \in BOOLEAN
           ApprovedOK == answers' \in Seq(Decisions) /\ approvals' \in Seq(Effects \union Rejections)
<1>1. GithubOK
  BY GithubTypes
<1>2. ApprovedOK
  <2>1. CASE Answering
    BY <2>1, AnswerTypes
  <2>2. CASE ~Answering
    BY <1>a, <2>2, ApprovalsAreFixed DEF TypeOK, Rejections
  <2>3. QED
    BY <2>1, <2>2
<1>3. pc' \in Stages
  <2>1. pc \in Stages
    BY <1>a DEF TypeOK
  <2>2. QED
    BY <2>1 DEF Stages, Goto, Next, Work, vars, session, record, github, NoReview, Ask, Quit,
       Answer, AnswerAll, NothingDecided, CommitIntent, IntentFails, ActRejected, Perform,
       PerformFails, RecordSuccess, RecordSuccessFails, RecordCallFailure, AllDone,
       SkipRejected, RecordNotAttempted, StartUndo, Undo, UndoFails, RecordUndo, AllUndone,
       StoreRun, StoreFails, Die, LandLate
<1>6. performed' \in Seq(Nat)
  <2>1. performed \in Seq(Nat) /\ next \in Nat
    BY <1>a DEF TypeOK
  <2>2. CASE Perform
    BY <2>1, <2>2, AppendProperties DEF Perform
  <2>3. CASE UNCHANGED performed
    BY <2>1, <2>3
  <2>4. QED
    BY <2>2, <2>3 DEF Next, Work, vars, session, record, github, NoReview, Ask, Quit,
       Answer, AnswerAll, NothingDecided, CommitIntent, IntentFails, ActRejected,
       PerformFails, RecordSuccess, RecordSuccessFails, RecordCallFailure, AllDone,
       SkipRejected, RecordNotAttempted, StartUndo, Undo, UndoFails, RecordUndo, AllUndone,
       StoreRun, StoreFails, Die, LandLate
<1>7. next' \in Nat
  <2>1. performed \in Seq(Nat) /\ next \in Nat
    BY <1>a DEF TypeOK
  <2>2. CASE RecordUndo
    <3>1. next \in DOMAIN performed /\ next' = next - 1
      BY <1>a, <2>2 DEF RecordUndo, Goto, LoopsAreInBounds
    <3>2. QED
      BY <2>1, <3>1
  <2>3. CASE StartUndo
    BY <2>1, <2>3 DEF StartUndo
  <2>4. CASE next' \in {next, next + 1}
    BY <2>1, <2>4
  <2>5. QED
    BY <2>2, <2>3, <2>4 DEF Next, Work, vars, session, record, github, NoReview, Ask, Quit,
       Answer, AnswerAll, NothingDecided, CommitIntent, IntentFails, ActRejected, Perform,
       PerformFails, RecordSuccess, RecordSuccessFails, RecordCallFailure, AllDone,
       SkipRejected, RecordNotAttempted, Undo, UndoFails, AllUndone,
       StoreRun, StoreFails, Die, LandLate
<1>8. failedAt' \in Nat /\ code' \in 0 .. 2
  <2>1. failedAt \in Nat /\ next \in Nat /\ code \in 0 .. 2
    BY <1>a DEF TypeOK
  <2>2. failedAt' \in {failedAt, next} /\ code' \in {code, 0, 1, 2}
    BY DEF Next, Work, vars, session, record, github, NoReview, Ask, Quit,
       Answer, AnswerAll, NothingDecided, CommitIntent, IntentFails, ActRejected, Perform,
       PerformFails, RecordSuccess, RecordSuccessFails, RecordCallFailure, AllDone,
       SkipRejected, RecordNotAttempted, StartUndo, Undo, UndoFails, RecordUndo, AllUndone,
       StoreRun, StoreFails, Die, LandLate
  <2>3. QED
    BY <2>1, <2>2
<1>4. RecordOK
  <2> USE <1>a DEF TypeOK, record
  <2>1. ASSUME NEW i \in Nat, NEW status \in Statuses,
               TryRecord(i, status) \/ (status \in Failures /\ Tell(i, status))
        PROVE  RecordOK
    BY <2>1, RecordTypes
  <2>2. CASE RecordSuccess \/ RecordSuccessFails
    <3>1. TryRecord(next, "succeeded")
      BY <2>2 DEF RecordSuccess, RecordSuccessFails, TryRecord
    <3>2. QED
      BY <2>1, <3>1 DEF Statuses
  <2>3. CASE RecordCallFailure
    BY <2>1, <2>3 DEF RecordCallFailure, Statuses
  <2>4. CASE RecordNotAttempted
    BY <2>1, <2>4 DEF RecordNotAttempted, Statuses
  <2>5. CASE RecordUndo
    <3>1. performed[next] \in Nat
      <4>1. next \in DOMAIN performed
        BY <2>5 DEF RecordUndo, Goto, LoopsAreInBounds
      <4>2. QED
        BY <4>1
    <3>2. QED
      BY <2>1, <2>5, <3>1 DEF RecordUndo, Statuses
  <2>6. CASE CommitIntent \/ IntentFails
    BY <2>6 DEF CommitIntent, IntentFails
  <2>7. CASE UNCHANGED record
    BY <2>7
  <2>8. CASE PerformFails
    BY <2>1, <2>8 DEF PerformFails, Statuses, Failures
  <2>9. CASE UndoFails
    <3>1. performed[next] \in Nat
      <4>1. performed \in Seq(Nat) /\ next \in 0 .. Len(performed) /\ next > 0
        BY <2>9 DEF UndoFails, Goto, LoopsAreInBounds
      <4>2. QED
        BY <4>1
    <3>2. QED
      BY <2>1, <2>9, <3>1 DEF UndoFails, Statuses, Failures
  <2>10. QED
    BY <2>2, <2>3, <2>4, <2>5, <2>6, <2>7, <2>8, <2>9 DEF Next, Work, vars, session, github,
       NoReview, Ask, Quit, Answer, AnswerAll, NothingDecided, ActRejected, Perform, AllDone,
       SkipRejected, StartUndo, Undo, AllUndone, StoreRun, StoreFails, Die, LandLate
<1>5. stored' \in BOOLEAN
  <2>1. CASE StoreRun
    BY <2>1 DEF StoreRun
  <2>2. CASE UNCHANGED stored
    BY <1>a, <2>2 DEF TypeOK
  <2>3. QED
    BY <2>1, <2>2 DEF Next, Work, vars, session, record, github, NoReview, Ask, Quit,
       Answer, AnswerAll, NothingDecided, CommitIntent, IntentFails, ActRejected, Perform,
       PerformFails, RecordSuccess, RecordSuccessFails, RecordCallFailure, AllDone,
       SkipRejected, RecordNotAttempted, StartUndo, Undo, UndoFails, RecordUndo, AllUndone,
       StoreFails, Die, LandLate
<1>9. QED
  BY <1>1, <1>2, <1>3, <1>4, <1>5, <1>6, <1>7, <1>8 DEF TypeOK, Rejections

-----------------------------------------------------------------------------
(* Consent: the approvals stay exactly what was answered. *)

\* The approvals of an answer are exactly what the person agreed to with it.
LEMMA AnswerIsExact ==
  ASSUME IInv, NEW d \in Decisions, Answer(d) PROVE ConsentIsExact'
<1> DEFINE r == Ranked[Len(answers) + 1]
           B == ActionApprovals(d, r)
<1> USE DEF IInv
<1>0. /\ answers \in Seq(Decisions) /\ approvals \in Seq(Effects \union Rejections)
      /\ r \in Repos /\ Authorised = Consented
  BY DEF Answer, Goto, LoopsAreInBounds, TypeOK, Rejections, ConsentIsExact
<1>1. answers' = Append(answers, d) /\ approvals' = approvals \o B
  BY DEF Answer
<1>2. B \in Seq(Effects \union Rejections)
  BY <1>0, AnswerGivesApprovals
<1> HIDE DEF B
<1>3. ASSUME NEW e
      PROVE  e \in Authorised' <=> e \in Authorised \/ \E i \in 1 .. Len(B) : B[i] = e /\ IsAction(e)
  <2>1. e \in Authorised' <=> \E i \in 1 .. Len(approvals') : approvals'[i] = e /\ IsAction(e)
    BY InAuthorised DEF Authorised, Indices
  <2>2. e \in Authorised <=> \E i \in 1 .. Len(approvals) : approvals[i] = e /\ IsAction(e)
    BY DEF Authorised, Indices
  <2>3. /\ Len(approvals') = Len(approvals) + Len(B)
        /\ \A i \in 1 .. Len(approvals) : approvals'[i] = approvals[i]
        /\ \A i \in 1 .. Len(B) : approvals'[Len(approvals) + i] = B[i]
    BY <1>0, <1>1, <1>2, ConcatProperties
  <2>4. ASSUME NEW i \in 1 .. Len(approvals'), i \notin 1 .. Len(approvals)
        PROVE  \E j \in 1 .. Len(B) : i = Len(approvals) + j
    <3>1. Len(approvals) \in Nat /\ Len(B) \in Nat
      BY <1>0, <1>2
    <3>2. i - Len(approvals) \in 1 .. Len(B)
      BY <2>3, <2>4, <3>1
    <3>3. i = Len(approvals) + (i - Len(approvals))
      BY <3>1
    <3>4. QED
      BY <3>2, <3>3
  <2>5. \A j \in 1 .. Len(B) : Len(approvals) + j \in 1 .. Len(approvals')
    BY <1>0, <1>2, <2>3
  <2>6. \A i \in 1 .. Len(approvals) : i \in 1 .. Len(approvals')
    BY <1>0, <1>2, <2>3
  <2>7. QED
    BY <2>1, <2>2, <2>3, <2>4, <2>5, <2>6
<1>4. ASSUME NEW e
      PROVE  e \in Consented' <=> \/ e \in Consented
                                  \/ d \in {"star", "both"} /\ e = Star(r)
                                  \/ d \in {"follow", "both"} /\ e = Follow(r)
  <2>1. e \in Consented <=>
          \E k \in DOMAIN answers :
            \/ answers[k] \in {"star", "both"} /\ e = Star(Ranked[k])
            \/ answers[k] \in {"follow", "both"} /\ e = Follow(Ranked[k])
    BY DEF Consented
  <2>2. e \in Consented' <=>
          \E k \in DOMAIN answers' :
            \/ answers'[k] \in {"star", "both"} /\ e = Star(Ranked[k])
            \/ answers'[k] \in {"follow", "both"} /\ e = Follow(Ranked[k])
    BY DEF Consented, Star, Follow
  <2>3. /\ DOMAIN answers' = DOMAIN answers \union {Len(answers) + 1}
        /\ \A k \in DOMAIN answers : answers'[k] = answers[k]
        /\ answers'[Len(answers) + 1] = d
    BY <1>0, <1>1, AppendProperties
  <2> DEFINE Gives(a, k) == \/ a \in {"star", "both"} /\ e = Star(Ranked[k])
                            \/ a \in {"follow", "both"} /\ e = Follow(Ranked[k])
  <2>4. e \in Consented <=> \E k \in DOMAIN answers : Gives(answers[k], k)
    BY <2>1
  <2>5. e \in Consented' <=> \E k \in DOMAIN answers' : Gives(answers'[k], k)
    BY <2>2
  <2> HIDE DEF Gives
  <2>6. e \in Consented' <=> e \in Consented \/ Gives(d, Len(answers) + 1)
    BY <2>3, <2>4, <2>5
  <2>7. QED
    BY <2>6 DEF Gives
<1>5. ASSUME NEW e PROVE e \in Authorised' <=> e \in Consented'
  <2>1. (\E i \in 1 .. Len(B) : B[i] = e /\ IsAction(e))
          <=> \/ d \in {"star", "both"} /\ e = Star(r)
              \/ d \in {"follow", "both"} /\ e = Follow(r)
    <3> DEFINE q == r
    <3>1. q \in Repos /\ B = ActionApprovals(d, q) /\ r = q
      BY <1>0 DEF B
    <3> HIDE DEF q, r
    <3>2. QED
      BY <3>1, OneAnswerIsExact
  <2>2. QED
    BY <1>0, <1>3, <1>4, <2>1
<1>6. QED
  BY <1>5 DEF ConsentIsExact

\* One answer to the whole queue authorises what it agrees to at each position.
LEMMA AnswerAllIsExact ==
  ASSUME IInv, NEW d \in Decisions, AnswerAll(d) PROVE ConsentIsExact'
<1> DEFINE A(k) == ActionApprovals(d, Ranked[k])
           B == BulkApprovals(d)
           Gives(e, k) == \/ d \in {"star", "both"} /\ e = Star(Ranked[k])
                          \/ d \in {"follow", "both"} /\ e = Follow(Ranked[k])
<1>1. /\ DOMAIN Ranked = 1 .. Len(Ranked)
      /\ \A k \in DOMAIN Ranked : Ranked[k] \in Repos
  OBVIOUS
<1>2. /\ answers' = [k \in DOMAIN Ranked |-> d]
      /\ approvals' = B
  BY DEF AnswerAll
<1>3. /\ B \in Seq(Effects \union Rejections)
      /\ \A i \in DOMAIN B : \E k \in DOMAIN Ranked : \E j \in 1 .. Len(A(k)) : B[i] = A(k)[j]
      /\ \A k \in DOMAIN Ranked : \A j \in 1 .. Len(A(k)) : \E i \in DOMAIN B : B[i] = A(k)[j]
  BY BulkAnswer
<1>4. ASSUME NEW e, NEW k \in DOMAIN Ranked
      PROVE  (\E j \in 1 .. Len(A(k)) : A(k)[j] = e /\ IsAction(e)) <=> Gives(e, k)
  BY <1>1, OneAnswerIsExact
<1>5. ASSUME NEW e
      PROVE  e \in Authorised' <=> \E i \in DOMAIN B : B[i] = e /\ IsAction(e)
  <2>1. e \in Authorised' <=> \E i \in 1 .. Len(approvals') : approvals'[i] = e /\ IsAction(e)
    BY DEF Authorised, Indices
  <2>2. DOMAIN B = 1 .. Len(B)
    BY <1>3
  <2>3. QED
    BY <1>2, <2>1, <2>2
<1>6. ASSUME NEW e
      PROVE  e \in Consented' <=> \E k \in DOMAIN Ranked : Gives(e, k)
  BY <1>2 DEF Consented, Star, Follow
<1> HIDE DEF A, B, Gives
<1>7. ASSUME NEW e PROVE e \in Authorised' <=> e \in Consented'
  <2>1. ASSUME e \in Authorised' PROVE e \in Consented'
    <3>1. PICK i \in DOMAIN B : B[i] = e /\ IsAction(e)
      BY <1>5, <2>1
    <3>2. PICK k \in DOMAIN Ranked : \E j \in 1 .. Len(A(k)) : B[i] = A(k)[j]
      BY <1>3
    <3>3. Gives(e, k)
      BY <1>4, <3>1, <3>2
    <3>4. QED
      BY <1>6, <3>3
  <2>2. ASSUME e \in Consented' PROVE e \in Authorised'
    <3>1. PICK k \in DOMAIN Ranked : Gives(e, k)
      BY <1>6, <2>2
    <3>2. PICK j \in 1 .. Len(A(k)) : A(k)[j] = e /\ IsAction(e)
      BY <1>4, <3>1
    <3>3. \E i \in DOMAIN B : B[i] = e
      BY <1>3, <3>2
    <3>4. QED
      BY <1>5, <3>2, <3>3
  <2>3. QED
    BY <2>1, <2>2
<1>8. QED
  BY <1>7 DEF ConsentIsExact

\* What is authorised stays exactly what the person answered.
LEMMA NextConsent == IInv /\ [Next]_vars => ConsentIsExact'
<1> SUFFICES ASSUME IInv, [Next]_vars PROVE ConsentIsExact'
  OBVIOUS
<1>1. CASE Answering
  BY <1>1, AnswerIsExact, AnswerAllIsExact DEF Answering
<1>2. CASE ~Answering
  BY <1>2, ApprovalsAreFixed
     DEF IInv, ConsentIsExact, Authorised, Consented, Indices, Star, Follow
<1>3. QED
  BY <1>1, <1>2

-----------------------------------------------------------------------------
(* The intent comes first. *)

\* Once the intent is committed nothing is asked, so what it authorises is final.
LEMMA IntentIsKept ==
  ASSUME IInv, [Next]_vars
  PROVE  /\ intent => intent'
         /\ intent' \in BOOLEAN
         /\ intent => ~Answering
         /\ ~intent => intent' = intent \/ CommitIntent \/ IntentFails
<1> USE DEF IInv, TypeOK
<1>1. CASE CommitIntent \/ IntentFails
  BY <1>1 DEF CommitIntent, IntentFails, IntentFirst, Asking, Goto, Answering, Answer, AnswerAll
<1>2. ASSUME intent' = intent
      PROVE  intent => ~Answering
  BY DEF Answering, Answer, AnswerAll, Goto, IntentFirst, Asking
<1>3. CASE intent' = intent
  BY <1>2, <1>3
<1>4. QED
  BY <1>1, <1>3 DEF Next, Work, vars, session, record, github, NoReview, Ask, Quit,
     Answer, AnswerAll, NothingDecided, ActRejected, Perform, PerformFails,
     RecordSuccess, RecordSuccessFails, RecordCallFailure, AllDone, SkipRejected,
     RecordNotAttempted, StartUndo, Undo, UndoFails, RecordUndo, AllUndone, StoreRun,
     StoreFails, Die, LandLate, TryRecord, OutcomeCommitted, OutcomeFails, Tell

\* No step leads to a call before the intent is committed.
LEMMA NextIntentFirst == IInv /\ [Next]_vars => IntentFirst'
<1> SUFFICES ASSUME IInv, [Next]_vars PROVE IntentFirst'
  OBVIOUS
<1>1. (pc \in Asking => ~intent) /\ (pc \in Acting => intent \/ approvals = <<>>)
  BY DEF IInv, IntentFirst
<1>2. (pc' \in Asking => ~intent') /\ (pc' \in Acting => intent' \/ approvals' = <<>>)
  <2>1. CASE Answering
    <3>1. pc = "asking" /\ pc' \in {"asking", "intent"} /\ intent' = intent
      BY <2>1 DEF Answering, Answer, AnswerAll, Goto, record
    <3>2. QED
      BY <1>1, <3>1 DEF Asking, Acting
  <2>2. CASE NothingDecided
    BY <1>1, <2>2 DEF NothingDecided, Goto, Asking, Acting, Stages, session
  <2>3. CASE CommitIntent \/ IntentFails
    BY <2>3 DEF CommitIntent, IntentFails, Goto, Asking, Acting, Stages
  <2>4. ASSUME ~Answering, ~NothingDecided, ~CommitIntent, ~IntentFails
        PROVE  UNCHANGED <<intent, answers, approvals>>
    BY <2>4, ApprovalsAreFixed DEF Next, Answering, Work, vars, session, record, github,
       NoReview, Ask, Quit, ActRejected, Perform, PerformFails, RecordSuccess,
       RecordSuccessFails, RecordCallFailure, AllDone, SkipRejected, RecordNotAttempted,
       StartUndo, Undo, UndoFails, RecordUndo, AllUndone, StoreRun, StoreFails, Die,
       LandLate, TryRecord, OutcomeCommitted, OutcomeFails, Tell
  <2>5. ASSUME ~Answering, ~NothingDecided, ~CommitIntent, ~IntentFails
        PROVE  (pc' \in Asking => pc \in Asking) /\ (pc' \in Acting => pc \in Acting)
    BY <2>5 DEF Next, Answering, Work, vars, session, record, github,
       NoReview, Ask, Quit, ActRejected, Perform, PerformFails, RecordSuccess,
       RecordSuccessFails, RecordCallFailure, AllDone, SkipRejected, RecordNotAttempted,
       StartUndo, Undo, UndoFails, RecordUndo, AllUndone, StoreRun, StoreFails, Die,
       LandLate, Goto, Asking, Acting, Stages
  <2>6. QED
    BY <1>1, <2>1, <2>2, <2>3, <2>4, <2>5
<1>3. ~intent' => remote' = before' /\ late' = {}
  <2>1. ASSUME ~intent' PROVE ~intent /\ remote = before /\ late = {}
    BY <2>1, IntentIsKept DEF IInv, IntentFirst
  <2>2. ASSUME ~intent', pc \in Acting PROVE Authorised = {}
    BY <2>1, <2>2, <1>1 DEF Authorised, Indices
  <2>3. ASSUME ~intent' PROVE ~LandLate
    BY <2>1, <2>3 DEF LandLate
  <2>4. ASSUME ~intent' PROVE UNCHANGED github
    BY <2>2, <2>3, <2>4, AccountMoves
  <2>5. QED
    BY <2>1, <2>4 DEF github
<1>4. QED
  BY <1>2, <1>3 DEF IntentFirst

-----------------------------------------------------------------------------
(* Loops and writes. *)

\* The loops of main() stay within the queue, the approvals and what was performed.
LEMMA NextLoopsAreInBounds == IInv /\ [Next]_vars => LoopsAreInBounds'
<1> SUFFICES ASSUME IInv, [Next]_vars PROVE LoopsAreInBounds'
  OBVIOUS
<1>0. /\ LoopsAreInBounds /\ next \in Nat /\ performed \in Seq(Nat)
      /\ answers \in Seq(Decisions) /\ answers' \in Seq(Decisions)
      /\ Len(performed) \in Nat /\ DOMAIN performed = 1 .. Len(performed)
  BY NextTypeOK DEF IInv, TypeOK
<1>a. Len(performed) \in Nat /\ Len(answers) \in Nat /\ answers \in Seq(Decisions)
  BY <1>0
<1> USE DEF LoopsAreInBounds
<1>1. pc' = "asking" => Len(answers') < Len(Ranked)
  <2>1. CASE Ask
    BY <1>0, <2>1 DEF Ask, Goto, session
  <2>2. ASSUME NEW d \in Decisions, Answer(d) PROVE pc' = "asking" => Len(answers') < Len(Ranked)
    <3>1. /\ Len(answers) < Len(Ranked) /\ answers' = Append(answers, d)
          /\ pc' = "asking" => Len(answers) + 1 # Len(Ranked)
      BY <1>0, <2>2 DEF Answer, Goto
    <3>2. Len(answers') = Len(answers) + 1 /\ Len(answers) \in Nat /\ Len(Ranked) \in Nat
      BY <1>a, <2>2, <3>1, AppendProperties
    <3>3. QED
      BY <3>1, <3>2
  <2>3. ASSUME NEW d \in Decisions, AnswerAll(d) PROVE pc' # "asking"
    BY <2>3 DEF AnswerAll, Goto
  <2>4. ASSUME ~Ask, ~Answering, pc' = "asking" PROVE pc = "asking" /\ UNCHANGED answers
    BY <2>4, ApprovalsAreFixed DEF Next, Answering, Work, vars, session, record, github,
       NoReview, Quit, NothingDecided, CommitIntent, IntentFails, ActRejected, Perform,
       PerformFails, RecordSuccess, RecordSuccessFails, RecordCallFailure, AllDone,
       SkipRejected, RecordNotAttempted, StartUndo, Undo, UndoFails, RecordUndo, AllUndone,
       StoreRun, StoreFails, Die, LandLate, Goto
  <2>5. QED
    BY <1>0, <2>1, <2>2, <2>3, <2>4 DEF Answering
<1>2. pc' \in Asking => performed' = <<>>
  <2>1. pc' \in Asking => pc \in Asking /\ UNCHANGED performed
    BY DEF Next, Work, vars, session, record, github, NoReview, Ask, Quit, Answer, AnswerAll,
       NothingDecided, CommitIntent, IntentFails, ActRejected, Perform, PerformFails,
       RecordSuccess, RecordSuccessFails, RecordCallFailure, AllDone, SkipRejected,
       RecordNotAttempted, StartUndo, Undo, UndoFails, RecordUndo, AllUndone, StoreRun,
       StoreFails, Die, LandLate, Goto, Asking
  <2>2. QED
    BY <1>0, <2>1
<1>3. /\ pc' \in {"start", "asking"} => (answers' = <<>> => approvals' = <<>>)
      /\ pc' = "start" => answers' = <<>>
  <2>1. ASSUME NEW d \in Decisions, Answer(d) PROVE answers' # <<>> /\ pc' # "start"
    <3>1. answers' = Append(answers, d) /\ pc' # "start"
      BY <2>1 DEF Answer, Goto
    <3>2. QED
      BY <1>a, <2>1, <3>1, AppendProperties
  <2>2. ASSUME NEW d \in Decisions, AnswerAll(d) PROVE pc' \notin {"start", "asking"}
    BY <2>2 DEF AnswerAll, Goto
  <2>3. ASSUME ~Answering, pc' \in {"start", "asking"}
        PROVE  /\ UNCHANGED <<answers, approvals>>
               /\ pc \in {"start", "asking"}
               /\ pc' = "start" => pc = "start"
    BY <2>3, ApprovalsAreFixed DEF Next, Answering, Work, vars, session, record, github,
       NoReview, Ask, Quit, NothingDecided, CommitIntent, IntentFails, ActRejected, Perform,
       PerformFails, RecordSuccess, RecordSuccessFails, RecordCallFailure, AllDone,
       SkipRejected, RecordNotAttempted, StartUndo, Undo, UndoFails, RecordUndo, AllUndone,
       StoreRun, StoreFails, Die, LandLate, Goto
  <2>4. QED
    BY <1>0, <2>1, <2>2, <2>3 DEF Answering
<1>4. pc' = "undo" => next' \in 0 .. Len(performed')
  <2>1. CASE StartUndo
    <3>1. next' = Len(performed) /\ performed' = performed
      BY <2>1 DEF StartUndo, session
    <3>2. QED
      BY <1>a, <3>1
  <2>2. CASE RecordUndo
    <3>1. next \in 1 .. Len(performed) /\ next' = next - 1 /\ performed' = performed
      BY <1>0, <2>2 DEF RecordUndo, Goto, session
    <3>2. QED
      BY <1>a, <3>1
  <2>3. ASSUME ~StartUndo, ~RecordUndo, pc' = "undo"
        PROVE  pc = "undo" /\ UNCHANGED <<next, performed>>
    BY <2>3 DEF Next, Work, vars, session, record, github, NoReview, Ask, Quit, Answer,
       AnswerAll, NothingDecided, CommitIntent, IntentFails, ActRejected, Perform,
       PerformFails, RecordSuccess, RecordSuccessFails, RecordCallFailure, AllDone,
       SkipRejected, RecordNotAttempted, Undo, UndoFails, AllUndone, StoreRun,
       StoreFails, Die, LandLate, Goto
  <2>4. QED
    BY <1>0, <2>1, <2>2, <2>3
<1>5. pc' \in {"record compensated", "record not compensated"} => next' \in DOMAIN performed'
  <2>1. CASE Undo \/ UndoFails
    <3>1. pc = "undo" /\ next > 0 /\ next' = next /\ performed' = performed
      BY <2>1 DEF Undo, UndoFails, Goto, session
    <3>2. next \in 1 .. Len(performed)
      BY <1>0, <3>1
    <3>3. QED
      BY <1>0, <3>1, <3>2
  <2>2. ASSUME ~Undo, ~UndoFails, pc' \in {"record compensated", "record not compensated"}
        PROVE  pc = pc' /\ UNCHANGED <<next, performed>>
    BY <2>2 DEF Next, Work, vars, session, record, github, NoReview, Ask, Quit, Answer,
       AnswerAll, NothingDecided, CommitIntent, IntentFails, ActRejected, Perform,
       PerformFails, RecordSuccess, RecordSuccessFails, RecordCallFailure, AllDone,
       SkipRejected, RecordNotAttempted, StartUndo, RecordUndo, AllUndone, StoreRun,
       StoreFails, Die, LandLate, Goto
  <2>3. QED
    BY <1>0, <2>1, <2>2
<1>6. pc' \in {"record success", "record call failure"} => AtApproval'
  <2>1. CASE Perform \/ PerformFails
    BY <2>1 DEF Perform, PerformFails, AtApproval, Indices, session
  <2>2. ASSUME ~Perform, ~PerformFails, pc' \in {"record success", "record call failure"}
        PROVE  pc = pc' /\ UNCHANGED <<next, approvals>>
    BY <2>2 DEF Next, Work, vars, session, record, github, NoReview, Ask, Quit, Answer,
       AnswerAll, NothingDecided, CommitIntent, IntentFails, ActRejected,
       RecordSuccess, RecordSuccessFails, RecordCallFailure, AllDone, SkipRejected,
       RecordNotAttempted, StartUndo, Undo, UndoFails, RecordUndo, AllUndone, StoreRun,
       StoreFails, Die, LandLate, Goto
  <2>3. QED
    BY <1>0, <2>1, <2>2 DEF AtApproval, Indices
<1>7. QED
  BY <1>1, <1>2, <1>3, <1>4, <1>5, <1>6

\* What is performed stays inside the approvals, which no longer change.
LEMMA NextWritesAreAuthorised == IInv /\ [Next]_vars => WritesAreAuthorised'
<1> SUFFICES ASSUME IInv, [Next]_vars PROVE WritesAreAuthorised'
  OBVIOUS
<1>0. WritesAreAuthorised /\ performed \in Seq(Nat) /\ next \in Nat
  BY DEF IInv, TypeOK
<1>1. CASE Answering
  <2>1. ~intent /\ performed = <<>>
    BY <1>1 DEF IInv, IntentFirst, LoopsAreInBounds, Answering, Answer, AnswerAll, Goto, Asking
  <2>2. remote = before /\ late = {} /\ UNCHANGED <<github, performed>>
    BY <1>1, <2>1 DEF IInv, IntentFirst, Answering, Answer, AnswerAll
  <2>3. QED
    BY <2>1, <2>2 DEF WritesAreAuthorised, github
<1>2. CASE ~Answering
  <2>1. UNCHANGED <<answers, approvals>>
    BY <1>2, ApprovalsAreFixed
  <2>2. Authorised' = Authorised /\ Indices' = Indices
    BY <2>1 DEF Authorised, Indices
  <2>3. /\ remote' \ before' \subseteq Authorised
        /\ \A call \in late' : call.effect \in Authorised
    <3>1. CASE UNCHANGED github
      BY <1>0, <3>1 DEF WritesAreAuthorised, github
    <3>2. ASSUME NEW e \in Authorised, NEW on \in BOOLEAN, CallReturns(on, e) \/ CallFails(on, e)
          PROVE  /\ remote' \ before' \subseteq Authorised
                 /\ \A call \in late' : call.effect \in Authorised
      BY <1>0, <3>2 DEF WritesAreAuthorised, CallReturns, CallFails, Apply
    <3>3. CASE LandLate
      BY <1>0, <3>3 DEF WritesAreAuthorised, LandLate, Apply
    <3>4. QED
      BY <3>1, <3>2, <3>3, AccountMoves
  <2>4. \A k \in DOMAIN performed' : performed'[k] \in Indices /\ IsAction(approvals[performed'[k]])
    <3>1. CASE Perform
      <4>1. performed' = Append(performed, next) /\ next \in Indices /\ IsAction(approvals[next])
        BY <3>1 DEF Perform, AtApproval
      <4>2. QED
        BY <1>0, <4>1, AppendProperties DEF WritesAreAuthorised
    <3>2. CASE UNCHANGED performed
      BY <1>0, <3>2 DEF WritesAreAuthorised
    <3>3. QED
      BY <3>1, <3>2 DEF Next, Work, vars, session, record, github, NoReview, Ask, Quit, Answer,
         AnswerAll, NothingDecided, CommitIntent, IntentFails, ActRejected, PerformFails,
         RecordSuccess, RecordSuccessFails, RecordCallFailure, AllDone, SkipRejected,
         RecordNotAttempted, StartUndo, Undo, UndoFails, RecordUndo, AllUndone, StoreRun,
         StoreFails, Die, LandLate
  <2>5. QED
    BY <2>1, <2>2, <2>3, <2>4 DEF WritesAreAuthorised
<1>3. QED
  BY <1>1, <1>2

-----------------------------------------------------------------------------
(* The theorems. *)

\* IInv holds in every reachable state, for every queue and every account.
THEOREM InductiveInvariant == Spec => []IInv
<1>1. IInv /\ [Next]_vars => IInv'
  BY NextTypeOK, NextConsent, NextIntentFirst, NextWritesAreAuthorised, NextLoopsAreInBounds
     DEF IInv
<1>2. QED
  BY InitIInv, <1>1, PTL DEF Spec

\* Every variable of the session keeps its type.
THEOREM TypeCorrect == Spec => []TypeOK
<1>1. IInv => TypeOK
  BY DEF IInv
<1>2. QED
  BY InductiveInvariant, <1>1, PTL

\* ADR-0006: whatever fails, arrives late or dies in between, only what the
\* person answered for appears on the account.
THEOREM WritesWereAnswered == Spec => []OnlyWhatWasAnswered
<1>1. IInv => OnlyWhatWasAnswered
  BY DEF IInv, WritesAreAuthorised, ConsentIsExact, OnlyWhatWasAnswered
<1>2. QED
  BY InductiveInvariant, <1>1, PTL

\* A step of the session is a grant, a put or a take-back of something granted,
\* or leaves grants and account alone.
LEMMA SessionKeepsPromise ==
  IInv /\ [Next]_vars => [Promise!Next]_(Promise!vars)
<1> SUFFICES ASSUME IInv, [Next]_vars PROVE [Promise!Next]_(Promise!vars)
  OBVIOUS
<1> DEFINE granted == IF intent THEN Authorised ELSE {}
<1>1. intent \in BOOLEAN /\ intent' \in BOOLEAN /\ Authorised \subseteq Effects
  <2>1. Authorised \subseteq Effects
    BY DEF IInv, TypeOK, Authorised, IsAction, Indices
  <2>2. QED
    BY <2>1, IntentIsKept DEF IInv, TypeOK
<1>2. CASE CommitIntent \/ IntentFails
  <2>1. ~intent /\ UNCHANGED <<approvals, remote>>
    BY <1>2 DEF CommitIntent, IntentFails, Goto, IInv, IntentFirst, Asking, session, github
  <2>2. Authorised' = Authorised
    BY <2>1 DEF Authorised, Indices
  <2>3. Promise!Grant
    BY <1>1, <2>1, <2>2 DEF Promise!Grant
  <2>4. QED
    BY <2>3 DEF Promise!Next
<1>3. ASSUME ~CommitIntent, ~IntentFails PROVE granted' = granted
  <2>1. CASE ~intent
    BY <1>3, <2>1, IntentIsKept
  <2>2. CASE intent
    <3>1. intent' /\ UNCHANGED approvals
      BY <2>2, IntentIsKept, ApprovalsAreFixed
    <3>2. QED
      BY <2>2, <3>1 DEF Authorised, Indices
  <2>3. QED
    BY <1>1, <2>1, <2>2
<1>4. ASSUME ~CommitIntent, ~IntentFails, NEW e \in Authorised, NEW on \in BOOLEAN, intent,
             remote' = Apply(on, e, remote)
      PROVE  Promise!Next
  <2>1. e \in granted
    BY <1>4
  <2>2. Promise!Put(e) \/ Promise!TakeBack(e)
    BY <1>3, <1>4 DEF Promise!Put, Promise!TakeBack, Apply
  <2>3. QED
    BY <2>1, <2>2 DEF Promise!Next
<1>5. CASE ~CommitIntent /\ ~IntentFails
  <2>1. CASE UNCHANGED remote
    BY <1>3, <1>5, <2>1 DEF Promise!vars
  <2>2. ASSUME NEW e \in Authorised, NEW on \in BOOLEAN, pc \in Acting, remote' = Apply(on, e, remote)
        PROVE  Promise!Next
    <3>1. intent
      BY <2>2 DEF IInv, IntentFirst, Authorised, Indices
    <3>2. QED
      BY <1>4, <1>5, <2>2, <3>1
  <2>3. CASE LandLate
    <3>1. PICK call \in late : remote' = Apply(call.on, call.effect, remote)
      BY <2>3 DEF LandLate
    <3>2. call.effect \in Authorised /\ call.on \in BOOLEAN
      BY DEF IInv, TypeOK, WritesAreAuthorised
    <3>3. intent
      BY <1>1, <3>1 DEF IInv, IntentFirst
    <3>4. QED
      BY <1>4, <1>5, <3>1, <3>2, <3>3
  <2>4. QED
    BY <2>1, <2>2, <2>3, AccountMoves DEF CallReturns, CallFails, github
<1>6. QED
  BY <1>2, <1>5

\* CHANGELOG: no star or follow is put or taken back before it was granted by a
\* committed intent, and what the intent grants never grows afterwards.
THEOREM SessionImplementsApprovedWrites == Spec => ImplementsApprovedWrites
<1>1. Init => Promise!Init
  BY DEF Init, Promise!Init
<1>2. IInv /\ [Next]_vars => [Promise!Next]_(Promise!vars)
  BY SessionKeepsPromise
<1>3. QED
  BY InductiveInvariant, <1>1, <1>2, PTL DEF Spec, ImplementsApprovedWrites, Promise!Spec

-----------------------------------------------------------------------------
(* The inductive invariant behind ExitCodeIsHonest and OutcomesCanBeBelieved. *)

Putting    == {"act", "record success", "record call failure"}
TakingBack == {"skip", "undo", "record compensated", "record not compensated"}

\* How far the session is tells whether an action has failed, what may still
\* land, and what is recorded.
StagesTellFailure ==
  /\ pc \in Asking \union Putting => failedAt = 0 /\ code = 0 /\ next >= 1
  /\ pc \in TakingBack => failedAt # 0
  /\ pc = "skip" => next > failedAt
  /\ pc \in {"store", "exit"} /\ failedAt # 0 => code # 0
  /\ failedAt # 0 => failedAt \in Indices
  /\ pc \in Asking => next = 1 /\ outcomes = {}

HasAnOutcome(i) == IsAction(approvals[i]) => \E status \in Statuses : Noted(i, status)

\* The terminal names a call that failed before its outcome is committed, and no other.
ToldFits ==
  /\ pc = "record call failure" => Outcome(next, "call failed") \in told
  /\ pc = "record not compensated" => Outcome(performed[next], "compensation failed") \in told
  /\ failedAt = 0 /\ pc \notin {"record call failure", "dead"} => told = {}

\* What the loops over the approvals have passed has an outcome, unless the
\* operator was told that the log lacks one.
PassedHaveOutcomes == ~pending =>
  /\ pc \in Putting \union {"skip"} => \A i \in Indices : i < next => HasAnOutcome(i)
  /\ pc \in (TakingBack \ {"skip"}) \union {"store", "exit"} /\ failedAt # 0 =>
       \A i \in Indices : HasAnOutcome(i)

\* Until an action fails nothing is late; until that is recorded, only its own call.
LateCallsFailed ==
  /\ failedAt = 0 => \A call \in late : call.on
  /\ failedAt = 0 /\ pc \notin {"record call failure", "dead"} => late = {}
  /\ pc = "record call failure" => \A call \in late : call.effect = approvals[next]
  /\ failedAt # 0 => \A call \in late : call.on => MayBeApplied(call.effect)

DoneAndRecorded(i) ==
  IsAction(approvals[i]) => Outcome(i, "succeeded") \in outcomes /\ approvals[i] \in remote

\* What the act loop has passed is in effect and recorded.
PassedIsDone ==
  /\ pc \in {"act", "record success"} => \A i \in Indices : i < next => DoneAndRecorded(i)
  /\ pc = "record success" => approvals[next] \in remote
  /\ pc \in {"store", "exit"} /\ code = 0 =>
       \A i \in Indices : DoneAndRecorded(i) /\ (IsAction(approvals[i]) => intent)

\* Every approval is called at most once, in order, up to the one that failed.
PerformedInOrder ==
  /\ \A j, k \in DOMAIN performed : performed[j] = performed[k] => j = k
  /\ pc = "record success" => \E k \in DOMAIN performed : performed[k] = next
  /\ \A k \in DOMAIN performed :
       /\ pc \in {"act", "record call failure"} => performed[k] < next
       /\ pc = "record success" => performed[k] <= next
       /\ failedAt # 0 => performed[k] <= failedAt

\* The performed actions that are still to be undone.
Undoable ==
  {k \in DOMAIN performed :
     /\ pc \in {"undo", "record not compensated"} => k <= next
     /\ pc = "record compensated" => k < next
     /\ ~(pc \in {"store", "exit"} /\ failedAt # 0)}

NotTakenBack(e) == \E i \in Indices : approvals[i] = e /\ Noted(i, "compensation failed")

\* What the session put on the account is still to be undone, or was noted.
PutIsExplained ==
  /\ pc # "dead" => \A e \in remote \ before :
       \/ MayBeApplied(e) \/ NotTakenBack(e)
       \/ \E k \in Undoable : approvals[performed[k]] = e
       \/ pc = "record call failure" /\ approvals[next] = e
  /\ pc = "record compensated" =>
       \/ approvals[performed[next]] \notin remote
       \/ MayBeApplied(approvals[performed[next]])

\* What is or may still be put belongs to an approval the session came to.
PutWasAttempted ==
  \A e \in Effects : e \in remote \ before \/ (\E call \in late : call.on /\ call.effect = e) =>
    \E i \in Indices : approvals[i] = e /\ i <= IF failedAt = 0 THEN next ELSE failedAt

\* Which approvals can have an outcome of which kind.
OutcomesFit == \A o \in outcomes :
  /\ o.status = "succeeded" => \E k \in DOMAIN performed : performed[k] = o.approval
  /\ o.status # "succeeded" => failedAt # 0
  /\ o.status = "call failed" =>
       o.approval = failedAt /\ \A k \in DOMAIN performed : performed[k] # failedAt
  /\ o.status = "not attempted" => o.approval > failedAt
  /\ o.status \in {"compensated", "compensation failed"} =>
       \E k \in DOMAIN performed : performed[k] = o.approval /\ (pc \in TakingBack => pc # "skip" /\ k > next)

AInv ==
  /\ IInv
  /\ StagesTellFailure
  /\ ToldFits
  /\ PassedHaveOutcomes
  /\ LateCallsFailed
  /\ PassedIsDone
  /\ PerformedInOrder
  /\ PutIsExplained
  /\ PutWasAttempted
  /\ OutcomesFit
  /\ OutcomesAreTrue
  /\ OutcomesAreConsistent

-----------------------------------------------------------------------------
(* Which step changes what. *)

\* The steps that only move main() on: nothing is called, nothing is recorded.
Moving ==
  \/ NoReview \/ Ask \/ Quit \/ NothingDecided \/ CommitIntent \/ IntentFails
  \/ ActRejected \/ AllDone \/ SkipRejected \/ StartUndo \/ AllUndone
  \/ StoreRun \/ StoreFails \/ Die \/ UNCHANGED vars

\* A step answers, moves on, calls GitHub, records an outcome, or is a call that lands late.
LEMMA StepKinds ==
  ASSUME [Next]_vars
  PROVE  \/ Answering \/ Moving
         \/ Perform \/ PerformFails \/ Undo \/ UndoFails \/ LandLate
         \/ RecordSuccess \/ RecordSuccessFails \/ RecordCallFailure
         \/ RecordNotAttempted \/ RecordUndo
BY DEF Next, Work, Answering, Moving

\* A step that only moves on leaves the account, the outcomes and what was performed alone.
LEMMA MovingKeeps ==
  ASSUME Moving
  PROVE  /\ UNCHANGED <<answers, approvals, performed, failedAt, outcomes, told, pending>>
         /\ UNCHANGED <<before, remote, late>>
BY DEF Moving, vars, session, record, github, NoReview, Ask, Quit, NothingDecided, CommitIntent,
   IntentFails, ActRejected, AllDone, SkipRejected, StartUndo, AllUndone, StoreRun, StoreFails, Die

\* While the person answers, nothing has happened yet.
LEMMA AnsweringIsEarly ==
  ASSUME AInv, Answering
  PROVE  /\ pc = "asking" /\ pc' \in {"asking", "intent"}
         /\ remote = before /\ late = {} /\ performed = <<>> /\ outcomes = {}
         /\ failedAt = 0 /\ code = 0 /\ next = 1
         /\ UNCHANGED <<next, performed, failedAt, code, stored, intent, outcomes, told, pending>>
         /\ UNCHANGED <<before, remote, late>>
<1>1. /\ pc = "asking" /\ pc' \in {"asking", "intent"}
      /\ UNCHANGED <<next, performed, failedAt, code, stored, intent, outcomes, told, pending>>
      /\ UNCHANGED <<before, remote, late>>
  BY DEF Answering, Answer, AnswerAll, Goto, record, github
<1>2. pc \in Asking
  BY <1>1 DEF Asking
<1>3. QED
  BY <1>1, <1>2 DEF AInv, IInv, IntentFirst, LoopsAreInBounds, StagesTellFailure

\* Calls and records leave the approvals, and with them what they mean, alone.
LEMMA ApprovalsStay ==
  ASSUME [Next]_vars, ~Answering
  PROVE  UNCHANGED <<answers, approvals>> /\ Indices' = Indices
BY ApprovalsAreFixed DEF Indices

\* What is noted stays noted.
LEMMA NotesAreKept ==
  ASSUME [Next]_vars, ~Answering
  PROVE  /\ outcomes \subseteq outcomes' /\ told \subseteq told' /\ (pending => pending')
         /\ \A e : MayBeApplied(e) => MayBeApplied(e)'
         /\ \A e : NotTakenBack(e) => NotTakenBack(e)'
<1>1. outcomes \subseteq outcomes' /\ told \subseteq told' /\ pending' \in {pending, TRUE}
  BY DEF Next, Answering, Work, vars, session, record, github, NoReview, Ask, Quit,
     NothingDecided, CommitIntent, IntentFails, ActRejected, Perform, PerformFails,
     RecordSuccess, RecordSuccessFails, RecordCallFailure, AllDone, SkipRejected,
     RecordNotAttempted, StartUndo, Undo, UndoFails, RecordUndo, AllUndone, StoreRun,
     StoreFails, Die, LandLate, TryRecord, OutcomeCommitted, OutcomeFails, Tell
<1>2. pending => pending'
  BY <1>1
<1>3. /\ \A e : MayBeApplied(e) => MayBeApplied(e)'
      /\ \A e : NotTakenBack(e) => NotTakenBack(e)'
  BY <1>1, ApprovalsStay DEF MayBeApplied, NotTakenBack, Noted, Outcome
<1>4. QED
  BY <1>1, <1>2, <1>3

\* An outcome that was tried is in the history, or the operator knows that one is missing.
LEMMA TriedOrPending ==
  ASSUME NEW i, NEW status, TryRecord(i, status)
  PROVE  /\ Outcome(i, status) \in outcomes' \/ pending'
         /\ outcomes' \subseteq outcomes \union {Outcome(i, status)}
         /\ told' = told
BY DEF TryRecord, OutcomeCommitted, OutcomeFails

\* A call that fails is named to the operator, and nothing else is noted with it.
LEMMA FailuresAreNamed ==
  ASSUME PerformFails \/ UndoFails
  PROVE  /\ PerformFails => told' = told \union {Outcome(next, "call failed")}
         /\ UndoFails => told' = told \union {Outcome(performed[next], "compensation failed")}
         /\ UNCHANGED <<intent, outcomes, pending>>
BY DEF PerformFails, UndoFails, Tell

\* A call that was given up puts its effect on the account late, or takes it back late.
LEMMA LateCall ==
  ASSUME NEW on \in BOOLEAN, NEW e, CallFails(on, e)
  PROVE  \A call \in late' : call \in late \/ ((call.on <=> on) /\ call.effect = e)
<1> DEFINE new == [on |-> on, effect |-> e]
<1>1. (new.on <=> on) /\ new.effect = e
  OBVIOUS
<1> HIDE DEF new
<1>2. late' \subseteq late \union {new}
  BY DEF CallFails, new
<1>3. ASSUME NEW call \in late', call \notin late PROVE (call.on <=> on) /\ call.effect = e
  <2>1. call = new
    BY <1>2, <1>3
  <2>2. QED
    BY <1>1, <2>1, Zenon
<1>4. QED
  BY <1>3, Zenon

\* What a step adds to the account is the effect of the call at hand, or of a
\* late call; what it adds to the late calls, and would still be put, is the
\* call at hand.
LEMMA AccountGains ==
  ASSUME [Next]_vars
  PROVE  /\ before' = before
         /\ \A e \in remote' :
              \/ e \in remote
              \/ (Perform \/ PerformFails) /\ e = approvals[next]
              \/ LandLate /\ \E call \in late : call.on /\ call.effect = e
         /\ \A call \in late' : call.on =>
              \/ call \in late
              \/ PerformFails /\ call.effect = approvals[next]
<1>1. CASE LandLate
  <2>1. PICK call \in late : /\ remote' = Apply(call.on, call.effect, remote)
                             /\ late' = late \ {call} /\ before' = before
    BY <1>1 DEF LandLate
  <2>2. \A e \in remote' : e \in remote \/ (call.on /\ call.effect = e)
    BY <2>1 DEF Apply
  <2>3. QED
    BY <1>1, <2>1, <2>2
<1>2. CASE Perform
  BY <1>2 DEF Perform, CallReturns, Apply
<1>3. CASE PerformFails
  <2>1. /\ before' = before /\ \A e \in remote' : e \in remote \/ e = approvals[next]
    BY <1>3 DEF PerformFails, CallFails, Apply
  <2>2. \A call \in late' : call \in late \/ call.effect = approvals[next]
    BY <1>3, LateCall DEF PerformFails
  <2>3. QED
    BY <1>3, <2>1, <2>2
<1>4. CASE Undo
  BY <1>4 DEF Undo, CallReturns, Apply
<1>5. CASE UndoFails
  <2>1. before' = before /\ remote' \subseteq remote
    BY <1>5 DEF UndoFails, CallFails, Apply
  <2>2. \A call \in late' : call \in late \/ ~call.on
    BY <1>5, LateCall DEF UndoFails
  <2>3. QED
    BY <2>1, <2>2
<1>6. CASE Moving
  BY <1>6, MovingKeeps
<1>7. CASE Answering
  BY <1>7 DEF Answering, Answer, AnswerAll, github
<1>8. QED
  BY <1>1, <1>2, <1>3, <1>4, <1>5, <1>6, <1>7, StepKinds DEF RecordSuccess, RecordSuccessFails,
     RecordCallFailure, RecordNotAttempted, RecordUndo, github

-----------------------------------------------------------------------------
(* One lemma for each part of the invariant. *)

\* The invariant holds before the first question is asked.
LEMMA InitAInv == Init => AInv
<1> SUFFICES ASSUME Init PROVE AInv
  OBVIOUS
<1>1. IInv
  BY InitIInv
<1> USE DEF Init
<1>2. /\ StagesTellFailure /\ ToldFits /\ PassedHaveOutcomes
      /\ LateCallsFailed /\ PassedIsDone
  BY DEF StagesTellFailure, ToldFits, PassedHaveOutcomes, LateCallsFailed, PassedIsDone,
     Asking, Putting, TakingBack
<1>3. PerformedInOrder /\ PutIsExplained /\ PutWasAttempted
  BY DEF PerformedInOrder, PutIsExplained, PutWasAttempted
<1>4. OutcomesFit /\ OutcomesAreTrue /\ OutcomesAreConsistent
  BY DEF OutcomesFit, OutcomesAreTrue, OutcomesAreConsistent
<1>5. QED
  BY <1>1, <1>2, <1>3, <1>4 DEF AInv

\* The stages, the first failure, and the exit code move together.
LEMMA NextStagesTellFailure == AInv /\ [Next]_vars => StagesTellFailure'
<1> SUFFICES ASSUME AInv, [Next]_vars PROVE StagesTellFailure'
  OBVIOUS
<1>a. /\ StagesTellFailure /\ next \in Nat /\ failedAt \in Nat /\ performed \in Seq(Nat)
      /\ Len(approvals) \in Nat /\ LoopsAreInBounds
  BY DEF AInv, IInv, TypeOK
<1> USE DEF StagesTellFailure
<1>1. CASE Answering
  <2>1. pc' \in {"asking", "intent"} /\ next' = 1 /\ failedAt' = 0 /\ code' = 0 /\ outcomes' = {}
    BY <1>1, AnsweringIsEarly
  <2>2. pc' # "exit" /\ pc' # "skip" /\ pc' \notin TakingBack
    BY <2>1 DEF TakingBack
  <2>3. QED
    BY <2>1, <2>2
<1>2. CASE Moving
  <2>1. UNCHANGED <<failedAt, approvals, outcomes>>
    BY <1>2, MovingKeeps
  <2>2. failedAt' # 0 => failedAt' \in Indices'
    BY <1>a, <2>1 DEF Indices
  <2>3. pc' \in Asking => next' = 1 /\ outcomes' = {}
    BY <1>a, <1>2, <2>1 DEF Moving, vars, session, NoReview, Ask, Quit, NothingDecided,
       CommitIntent, IntentFails, ActRejected, AllDone, SkipRejected, StartUndo, AllUndone,
       StoreRun, StoreFails, Die, Goto, Asking
  <2>4. /\ pc' \in Asking \union Putting =>
             pc \in Asking \union Putting /\ code' = code /\ next' \in {next, next + 1}
        /\ pc' \in TakingBack => pc \in TakingBack
        /\ pc' = "skip" => pc = "skip" /\ next' \in {next, next + 1}
    BY <1>2 DEF Moving, vars, session, NoReview, Ask, Quit, NothingDecided,
       CommitIntent, IntentFails, ActRejected, AllDone, SkipRejected, StartUndo, AllUndone,
       StoreRun, StoreFails, Die, Goto, Asking, Putting, TakingBack
  <2>5. /\ next' = next + 1 /\ next >= 1 => next' >= 1
        /\ next' = next + 1 /\ next > failedAt => next' > failedAt
    BY <1>a
  <2>6. pc' \in {"store", "exit"} =>
          \/ code' \in {1, 2}
          \/ pc \in {"store", "exit"} /\ code' = code
          \/ pc \in {"start", "act"}
    BY <1>2 DEF Moving, vars, session, NoReview, Ask, Quit, NothingDecided,
       CommitIntent, IntentFails, ActRejected, AllDone, SkipRejected, StartUndo, AllUndone,
       StoreRun, StoreFails, Die, Goto
  <2>7. pc' \in {"store", "exit"} /\ failedAt' # 0 => code' # 0
    <3>1. pc \in {"start", "act"} => failedAt = 0
      BY <1>a DEF Asking, Putting
    <3>2. QED
      BY <1>a, <2>1, <2>6, <3>1
  <2>8. QED
    BY <1>a, <2>1, <2>2, <2>3, <2>4, <2>5, <2>7
<1>3. CASE Perform \/ PerformFails
  BY <1>a, <1>3, FailuresAreNamed DEF Perform, PerformFails, Goto, session, record, Asking, Putting,
     TakingBack, Indices
<1>4. CASE Undo \/ UndoFails
  BY <1>a, <1>4, FailuresAreNamed DEF Undo, UndoFails, Goto, session, record, Asking, Putting,
     TakingBack, Indices
<1>5. CASE LandLate
  BY <1>a, <1>5 DEF LandLate, session, record, Indices
<1>6. CASE RecordSuccess
  <2>1. /\ pc' = "act" /\ failedAt' = 0 /\ code' = 0 /\ next' = next + 1
    BY <1>a, <1>6 DEF RecordSuccess, Goto, session, Putting
  <2>2. next + 1 >= 1
    BY <1>a
  <2>3. QED
    BY <2>1, <2>2 DEF Asking, Putting, TakingBack
<1>7. CASE RecordSuccessFails \/ RecordCallFailure
  <2>1. /\ failedAt' = next /\ next' = next + 1 /\ next \in Indices /\ UNCHANGED approvals
        /\ pc' = "skip"
    BY <1>a, <1>7 DEF RecordSuccessFails, RecordCallFailure, Goto, LoopsAreInBounds, AtApproval
  <2>2. next # 0 /\ next + 1 > next /\ Indices' = Indices
    BY <1>a, <2>1 DEF Indices
  <2>3. QED
    BY <2>1, <2>2 DEF Asking, Putting, TakingBack
<1>8. CASE RecordNotAttempted
  <2>1. /\ pc = "skip" /\ pc' = "skip" /\ next' = next + 1
        /\ UNCHANGED <<failedAt, approvals>>
    BY <1>8 DEF RecordNotAttempted, session
  <2>2. next + 1 > failedAt /\ Indices' = Indices /\ failedAt # 0
    BY <1>a, <2>1 DEF Indices, TakingBack
  <2>3. QED
    BY <1>a, <2>1, <2>2 DEF Asking, Putting, TakingBack
<1>9. CASE RecordUndo
  BY <1>a, <1>9 DEF RecordUndo, Goto, session, Asking, Putting, TakingBack, Indices
<1>10. QED
  BY <1>1, <1>2, <1>3, <1>4, <1>5, <1>6, <1>7, <1>8, <1>9, StepKinds

\* A late call is one that failed: its own, until that is noted; a noted one afterwards.
LEMMA NextLateCallsFailed == AInv /\ [Next]_vars => LateCallsFailed'
<1> SUFFICES ASSUME AInv, [Next]_vars PROVE LateCallsFailed'
  OBVIOUS
<1>a. StagesTellFailure /\ ToldFits /\ LateCallsFailed
  BY DEF AInv
<1>1. CASE Answering
  BY <1>1, AnsweringIsEarly DEF LateCallsFailed
<1> SUFFICES ASSUME ~Answering PROVE LateCallsFailed'
  BY <1>1
<1>b. UNCHANGED approvals /\ \A e : MayBeApplied(e) => MayBeApplied(e)'
  BY ApprovalsStay, NotesAreKept
<1>2. CASE Moving
  <2>1. UNCHANGED <<failedAt, late>>
    BY <1>2, MovingKeeps
  <2>2. \/ pc' = pc /\ next' = next
        \/ pc' = "dead"
        \/ pc' # "record call failure" /\ pc \notin {"record call failure", "dead"}
    BY <1>2 DEF Moving, vars, NoReview, Ask, Quit, NothingDecided,
       CommitIntent, IntentFails, ActRejected, AllDone, SkipRejected, StartUndo, AllUndone,
       StoreRun, StoreFails, Die, Goto
  <2>3. QED
    <3>1. CASE pc' = "dead"
      BY <1>a, <1>b, <2>1, <3>1 DEF LateCallsFailed
    <3>2. CASE pc' = pc /\ next' = next
      BY <1>a, <1>b, <2>1, <3>2 DEF LateCallsFailed
    <3>3. CASE pc' # "record call failure" /\ pc \notin {"record call failure", "dead"}
      BY <1>a, <1>b, <2>1, <3>3 DEF LateCallsFailed
    <3>4. QED
      BY <2>2, <3>1, <3>2, <3>3
<1>3. CASE Perform
  BY <1>a, <1>b, <1>3 DEF Perform, Goto, CallReturns, LateCallsFailed, StagesTellFailure, Putting
<1>4. CASE PerformFails
  <2>1. /\ pc = "act" /\ pc' = "record call failure" /\ failedAt = 0 /\ late = {} /\ failedAt' = 0
        /\ next' = next
    BY <1>a, <1>4 DEF PerformFails, Goto, session, StagesTellFailure, Putting, LateCallsFailed
  <2>2. \A call \in late' : call.on /\ call.effect = approvals[next]
    BY <1>4, <2>1, LateCall DEF PerformFails
  <2>3. QED
    BY <1>b, <2>1, <2>2 DEF LateCallsFailed
<1>5. CASE Undo
  BY <1>a, <1>b, <1>5 DEF Undo, Goto, CallReturns, session, LateCallsFailed, StagesTellFailure, TakingBack
<1>6. CASE UndoFails
  <2>1. /\ pc' = "record not compensated" /\ failedAt # 0 /\ failedAt' = failedAt
    BY <1>a, <1>6 DEF UndoFails, Goto, session, StagesTellFailure, TakingBack
  <2>2. \A call \in late' : call \in late \/ ~call.on
    BY <1>6, LateCall DEF UndoFails
  <2>3. \A call \in late' : call.on => MayBeApplied(call.effect)'
    BY <1>a, <1>b, <2>1, <2>2 DEF LateCallsFailed
  <2>4. QED
    BY <2>1, <2>3 DEF LateCallsFailed
<1>7. CASE LandLate
  BY <1>a, <1>b, <1>7 DEF LandLate, session, LateCallsFailed
<1>8. CASE RecordSuccess \/ RecordNotAttempted \/ RecordUndo
  BY <1>a, <1>b, <1>8 DEF RecordSuccess, RecordNotAttempted, RecordUndo, Goto, session, github,
     LateCallsFailed, StagesTellFailure, Putting, TakingBack
<1>9. CASE RecordSuccessFails
  BY <1>a, <1>b, <1>9 DEF RecordSuccessFails, Goto, github, LateCallsFailed, StagesTellFailure, Putting
<1>10. CASE RecordCallFailure
  <2>1. /\ pc' = "skip" /\ failedAt' = next /\ late' = late /\ next \in Indices
        /\ \A call \in late : call.effect = approvals[next] /\ call.on
    BY <1>a, <1>10 DEF RecordCallFailure, Goto, github, LateCallsFailed, StagesTellFailure, Putting,
       AInv, IInv, LoopsAreInBounds, AtApproval
  <2>2. Outcome(next, "call failed") \in told'
    BY <1>a, <1>10, NotesAreKept DEF RecordCallFailure, Goto, ToldFits
  <2>3. \A e : e = approvals[next] => MayBeApplied(e)'
    BY <1>b, <2>1, <2>2 DEF MayBeApplied, Indices, Noted, Outcome
  <2>4. next # 0
    BY <2>1 DEF Indices
  <2>5. QED
    BY <2>1, <2>3, <2>4 DEF LateCallsFailed
<1>11. QED
  BY <1>2, <1>3, <1>4, <1>5, <1>6, <1>7, <1>8, <1>9, <1>10, StepKinds

\* Nothing is named but what failed, and that before it is recorded.
LEMMA NextToldFits == AInv /\ [Next]_vars => ToldFits'
<1> SUFFICES ASSUME AInv, [Next]_vars PROVE ToldFits'
  OBVIOUS
<1>a. /\ StagesTellFailure /\ ToldFits /\ LoopsAreInBounds /\ next \in Nat
      /\ Len(approvals) \in Nat
  BY DEF AInv, IInv, TypeOK
<1>1. CASE Answering
  <2>1. pc \in {"asking"} /\ pc' \in {"asking", "intent"} /\ failedAt = 0 /\ told' = told
    BY <1>1, AnsweringIsEarly
  <2>2. QED
    BY <1>a, <2>1 DEF ToldFits
<1> SUFFICES ASSUME ~Answering PROVE ToldFits'
  BY <1>1
<1>2. CASE PerformFails
  <2>1. pc' = "record call failure" /\ next' = next /\ Outcome(next, "call failed") \in told'
    BY <1>2, FailuresAreNamed DEF PerformFails, Goto
  <2>2. QED
    BY <2>1 DEF ToldFits, Outcome
<1>3. CASE UndoFails
  <2>1. /\ pc' = "record not compensated" /\ next' = next /\ performed' = performed
        /\ Outcome(performed[next], "compensation failed") \in told'
    BY <1>3, FailuresAreNamed DEF UndoFails, Goto, session
  <2>2. failedAt' # 0
    BY <1>a, <1>3 DEF UndoFails, Goto, session, StagesTellFailure, TakingBack
  <2>3. QED
    BY <2>1, <2>2 DEF ToldFits, Outcome
<1>4. CASE RecordCallFailure \/ RecordSuccessFails
  <2>1. failedAt' = next /\ pc' = "skip" /\ next \in Indices
    BY <1>a, <1>4 DEF RecordCallFailure, RecordSuccessFails, Goto, LoopsAreInBounds, AtApproval
  <2>2. next # 0
    BY <2>1 DEF Indices
  <2>3. QED
    BY <2>1, <2>2 DEF ToldFits
<1>5. ASSUME ~PerformFails, ~UndoFails, ~RecordCallFailure, ~RecordSuccessFails
      PROVE  /\ told' = told /\ failedAt' = failedAt
             /\ pc' \in {"record call failure", "record not compensated"} =>
                  pc' = pc /\ next' = next /\ performed' = performed
             /\ pc = "record call failure" => pc' \in {"record call failure", "dead"}
             /\ pc = "dead" => pc' = "dead"
  <2>1. told' = told /\ failedAt' = failedAt
    BY <1>5, StepKinds, MovingKeeps, TriedOrPending DEF Perform, Undo, LandLate, RecordSuccess,
       OutcomeCommitted, RecordNotAttempted, RecordUndo, session, record
  <2>2. QED
    BY <1>5, <2>1 DEF Next, Answering, Work, vars, session, record, github, NoReview, Ask,
       Quit, NothingDecided, CommitIntent, IntentFails, ActRejected, Perform, RecordSuccess,
       AllDone, SkipRejected, RecordNotAttempted, StartUndo, Undo, RecordUndo, AllUndone,
       StoreRun, StoreFails, Die, LandLate, Goto
<1>6. QED
  BY <1>a, <1>2, <1>3, <1>4, <1>5 DEF ToldFits, Outcome

\* The loops pass no action without an outcome, unless the operator is told.
LEMMA NextPassedHaveOutcomes == AInv /\ [Next]_vars => PassedHaveOutcomes'
<1> SUFFICES ASSUME AInv, [Next]_vars, ~pending'
             PROVE  /\ pc' \in Putting \union {"skip"} =>
                         \A i \in Indices' : i < next' => HasAnOutcome(i)'
                    /\ pc' \in (TakingBack \ {"skip"}) \union {"store", "exit"} /\ failedAt' # 0 =>
                         \A i \in Indices' : HasAnOutcome(i)'
  BY DEF PassedHaveOutcomes
<1>a. /\ StagesTellFailure /\ ToldFits /\ LoopsAreInBounds /\ PassedHaveOutcomes
      /\ next \in Nat /\ failedAt \in Nat /\ Len(approvals) \in Nat
  BY DEF AInv, IInv, TypeOK
<1>1. CASE Answering
  BY <1>1, AnsweringIsEarly DEF Putting, TakingBack
<1> SUFFICES ASSUME ~Answering
             PROVE  /\ pc' \in Putting \union {"skip"} =>
                         \A i \in Indices' : i < next' => HasAnOutcome(i)'
                    /\ pc' \in (TakingBack \ {"skip"}) \union {"store", "exit"} /\ failedAt' # 0 =>
                         \A i \in Indices' : HasAnOutcome(i)'
  BY <1>1
<1>b. UNCHANGED approvals /\ Indices' = Indices /\ ~pending
  BY ApprovalsStay, NotesAreKept
<1>c. ASSUME NEW i, HasAnOutcome(i) PROVE HasAnOutcome(i)'
  BY <1>b, <1>c, NotesAreKept DEF HasAnOutcome, Noted, Outcome
<1>d. ASSUME NEW i, NEW status \in Statuses, Outcome(i, status) \in outcomes' \union told'
      PROVE  HasAnOutcome(i)'
  BY <1>d DEF HasAnOutcome, Noted, Outcome
<1>2. CASE ActRejected \/ SkipRejected
  <2>1. /\ pc \in {"act", "skip"} /\ pc' = pc /\ next' = next + 1 /\ ~IsAction(approvals[next])
    BY <1>2 DEF ActRejected, SkipRejected
  <2>2. \A i \in Indices : i < next => HasAnOutcome(i)
    BY <1>a, <1>b, <2>1 DEF PassedHaveOutcomes, Putting
  <2>3. HasAnOutcome(next)
    BY <2>1 DEF HasAnOutcome
  <2>4. \A i \in Indices : i < next + 1 => i < next \/ i = next
    BY <1>a DEF Indices
  <2>5. QED
    BY <1>b, <1>c, <2>1, <2>2, <2>3, <2>4 DEF TakingBack
<1>3. CASE RecordSuccess \/ RecordCallFailure \/ RecordNotAttempted
  <2>1. /\ pc \in Putting \union {"skip"} /\ pc' \in {"act", "skip"} /\ next' = next + 1
    BY <1>3 DEF RecordSuccess, RecordCallFailure, RecordNotAttempted, Goto, Putting
  <2>2. \A i \in Indices : i < next => HasAnOutcome(i)
    BY <1>a, <1>b, <2>1 DEF PassedHaveOutcomes
  <2>3. \A i : i = next => HasAnOutcome(i)'
    <3>1. CASE RecordSuccess
      BY <1>d, <3>1 DEF RecordSuccess, OutcomeCommitted, Statuses
    <3>2. CASE RecordCallFailure
      <4>1. Outcome(next, "call failed") \in told'
        BY <1>a, <3>2, NotesAreKept DEF RecordCallFailure, Goto, ToldFits
      <4>2. QED
        BY <1>d, <4>1 DEF Statuses
    <3>3. CASE RecordNotAttempted
      BY <1>d, <3>3, TriedOrPending DEF RecordNotAttempted, Statuses
    <3>4. QED
      BY <1>3, <3>1, <3>2, <3>3
  <2>4. \A i \in Indices : i < next + 1 => i < next \/ i = next
    BY <1>a DEF Indices
  <2>5. QED
    BY <1>b, <1>c, <2>1, <2>2, <2>3, <2>4 DEF TakingBack
<1>4. CASE RecordSuccessFails
  BY <1>4 DEF RecordSuccessFails, OutcomeFails
<1>5. CASE StartUndo
  <2>1. pc = "skip" /\ pc' = "undo" /\ next \notin Indices /\ next > failedAt
    BY <1>a, <1>5 DEF StartUndo, Goto, AtApproval, StagesTellFailure
  <2>2. \A i \in Indices : i < next
    BY <1>a, <2>1 DEF Indices
  <2>3. \A i \in Indices : HasAnOutcome(i)
    BY <1>a, <1>b, <2>1, <2>2 DEF PassedHaveOutcomes
  <2>4. QED
    BY <1>b, <1>c, <2>1, <2>3 DEF Putting
<1>6. CASE NothingDecided \/ CommitIntent
  <2>1. pc' = "act" /\ next' = 1
    BY <1>a, <1>6 DEF NothingDecided, CommitIntent, Goto, StagesTellFailure, Asking
  <2>2. \A i \in Indices : ~(i < 1)
    BY DEF Indices
  <2>3. QED
    BY <1>b, <2>1, <2>2 DEF TakingBack
<1>7. CASE NoReview \/ IntentFails \/ AllDone
  <2>1. pc' = "store" /\ failedAt' = 0
    BY <1>a, <1>7 DEF NoReview, IntentFails, AllDone, Goto, session, StagesTellFailure, Asking, Putting
  <2>2. QED
    BY <2>1 DEF Putting
<1>8. CASE Perform \/ PerformFails
  <2>1. pc \in Putting /\ pc' \in Putting /\ next' = next
    BY <1>8 DEF Perform, PerformFails, Goto, Putting
  <2>2. QED
    BY <1>a, <1>b, <1>c, <2>1 DEF PassedHaveOutcomes, Putting, TakingBack
<1>9. CASE Undo \/ UndoFails \/ RecordUndo \/ AllUndone \/ StoreRun \/ StoreFails
  <2>1. /\ pc \in (TakingBack \ {"skip"}) \union {"store", "exit"} /\ failedAt' = failedAt
        /\ pc' \notin Putting \union {"skip"}
    BY <1>9 DEF Undo, UndoFails, RecordUndo, AllUndone, StoreRun, StoreFails, Goto, session,
       TakingBack, Putting
  <2>2. QED
    BY <1>a, <1>b, <1>c, <2>1 DEF PassedHaveOutcomes
<1>10. CASE LandLate \/ UNCHANGED vars
  <2>1. pc' = pc /\ next' = next /\ failedAt' = failedAt
    BY <1>10 DEF LandLate, vars, session
  <2>2. QED
    BY <1>a, <1>b, <1>c, <2>1 DEF PassedHaveOutcomes
<1>11. CASE Ask \/ Quit \/ Die
  BY <1>11 DEF Ask, Quit, Die, Goto, Putting, TakingBack
<1>12. QED
  BY <1>2, <1>3, <1>4, <1>5, <1>6, <1>7, <1>8, <1>9, <1>10, <1>11, StepKinds DEF Moving

\* What the act loop has passed was put, and stays there as long as nothing is taken back.
LEMMA NextPassedIsDone == AInv /\ [Next]_vars => PassedIsDone'
<1> SUFFICES ASSUME AInv, [Next]_vars PROVE PassedIsDone'
  OBVIOUS
<1>a. /\ StagesTellFailure /\ LateCallsFailed /\ PassedIsDone /\ next \in Nat
      /\ Len(approvals) \in Nat /\ LoopsAreInBounds /\ IntentFirst
  BY DEF AInv, IInv, TypeOK
<1>1. CASE Answering
  <2>1. pc' \in {"asking", "intent"}
    BY <1>1, AnsweringIsEarly
  <2>2. QED
    BY <2>1 DEF PassedIsDone
<1> SUFFICES ASSUME ~Answering PROVE PassedIsDone'
  BY <1>1
<1>b. UNCHANGED approvals /\ Indices' = Indices /\ outcomes \subseteq outcomes'
  BY ApprovalsStay, NotesAreKept
<1>c. ASSUME failedAt = 0, ~Undo, ~UndoFails PROVE remote \subseteq remote'
  <2>1. CASE LandLate
    BY <1>a, <1>c, <2>1 DEF LandLate, LateCallsFailed, Apply
  <2>2. CASE Perform \/ PerformFails
    BY <2>2 DEF Perform, PerformFails, CallReturns, CallFails, Apply
  <2>3. CASE Moving
    BY <2>3, MovingKeeps
  <2>4. QED
    BY <1>c, <2>1, <2>2, <2>3, StepKinds DEF RecordSuccess, RecordSuccessFails,
       RecordCallFailure, RecordNotAttempted, RecordUndo, github
<1>d. ASSUME failedAt = 0, ~Undo, ~UndoFails, NEW i, DoneAndRecorded(i) PROVE DoneAndRecorded(i)'
  BY <1>b, <1>c, <1>d DEF DoneAndRecorded, Outcome
<1>2. pc' \in {"act", "record success"} => \A i \in Indices' : i < next' => DoneAndRecorded(i)'
  <2>1. CASE ActRejected
    <3>1. /\ pc = "act" /\ next' = next + 1 /\ ~IsAction(approvals[next]) /\ failedAt = 0
      BY <1>a, <2>1 DEF ActRejected, StagesTellFailure, Putting
    <3>2. \A i \in Indices : i < next + 1 => DoneAndRecorded(i)
      BY <1>a, <3>1 DEF PassedIsDone, DoneAndRecorded, Indices
    <3>3. ~Undo /\ ~UndoFails
      BY <3>1 DEF Undo, UndoFails, Goto
    <3>4. QED
      BY <1>b, <1>d, <3>1, <3>2, <3>3
  <2>2. CASE RecordSuccess
    <3>1. /\ pc = "record success" /\ next' = next + 1 /\ failedAt = 0 /\ remote' = remote
          /\ Outcome(next, "succeeded") \in outcomes' /\ approvals[next] \in remote
      BY <1>a, <2>2 DEF RecordSuccess, Goto, OutcomeCommitted, StagesTellFailure, Putting, github,
         PassedIsDone
    <3>2. ~Undo /\ ~UndoFails
      BY <3>1 DEF Undo, UndoFails, Goto
    <3>3. \A i \in Indices : i < next => DoneAndRecorded(i)'
      BY <1>a, <1>d, <3>1, <3>2 DEF PassedIsDone
    <3>4. \A i : i = next => DoneAndRecorded(i)'
      BY <1>b, <3>1 DEF DoneAndRecorded, Outcome
    <3>5. \A i \in Indices : i < next + 1 => i < next \/ i = next
      BY <1>a DEF Indices
    <3>6. QED
      BY <1>b, <3>1, <3>3, <3>4, <3>5
  <2>3. CASE pc = "intent"
    <3>1. pc' \in {"act", "record success"} => next' = next
      BY <2>3 DEF Next, Answering, Work, vars, session, record, github, NoReview, Ask, Quit,
         NothingDecided, CommitIntent, IntentFails, ActRejected, Perform, PerformFails,
         RecordSuccess, RecordSuccessFails, RecordCallFailure, AllDone, SkipRejected,
         RecordNotAttempted, StartUndo, Undo, UndoFails, RecordUndo, AllUndone, StoreRun,
         StoreFails, Die, LandLate, Goto
    <3>2. next = 1 /\ pc' # "record success"
      BY <1>a, <2>3 DEF StagesTellFailure, Asking, Next, Answering, Work, vars, session, record,
         github, NoReview, Ask, Quit,
         NothingDecided, CommitIntent, IntentFails, ActRejected, Perform, PerformFails,
         RecordSuccess, RecordSuccessFails, RecordCallFailure, AllDone, SkipRejected,
         RecordNotAttempted, StartUndo, Undo, UndoFails, RecordUndo, AllUndone, StoreRun,
         StoreFails, Die, LandLate, Goto
    <3>3. \A i \in Indices : ~(i < 1)
      BY DEF Indices
    <3>4. QED
      BY <1>b, <3>1, <3>2, <3>3
  <2>4. ASSUME ~ActRejected, ~RecordSuccess, pc # "intent", pc' \in {"act", "record success"}
        PROVE  pc \in {"act", "record success"} /\ next' = next
    BY <2>4 DEF Next, Answering, Work, vars, session, record, github, NoReview, Ask, Quit,
       NothingDecided, CommitIntent, IntentFails, ActRejected, Perform, PerformFails,
       RecordSuccess, RecordSuccessFails, RecordCallFailure, AllDone, SkipRejected,
       RecordNotAttempted, StartUndo, Undo, UndoFails, RecordUndo, AllUndone, StoreRun,
       StoreFails, Die, LandLate, Goto
  <2>5. pc \in {"act", "record success"} => failedAt = 0 /\ ~Undo /\ ~UndoFails
    BY <1>a DEF Undo, UndoFails, Goto, StagesTellFailure, Putting
  <2>6. ASSUME ~ActRejected, ~RecordSuccess, pc # "intent", pc' \in {"act", "record success"}
        PROVE  \A i \in Indices' : i < next' => DoneAndRecorded(i)'
    BY <1>a, <1>b, <1>d, <2>4, <2>5, <2>6 DEF PassedIsDone
  <2>7. QED
    BY <2>1, <2>2, <2>3, <2>6
<1>3. pc' = "record success" => approvals'[next'] \in remote'
  <2>1. CASE Perform
    BY <1>b, <2>1 DEF Perform, CallReturns, Apply
  <2>2. ASSUME ~Perform, pc' = "record success" PROVE pc = "record success" /\ next' = next
    BY <2>2 DEF Next, Answering, Work, vars, session, record, github, NoReview, Ask, Quit,
       NothingDecided, CommitIntent, IntentFails, ActRejected, PerformFails,
       RecordSuccess, RecordSuccessFails, RecordCallFailure, AllDone, SkipRejected,
       RecordNotAttempted, StartUndo, Undo, UndoFails, RecordUndo, AllUndone, StoreRun,
       StoreFails, Die, LandLate, Goto
  <2>3. pc = "record success" => failedAt = 0 /\ ~Undo /\ ~UndoFails
    BY <1>a DEF Undo, UndoFails, Goto, StagesTellFailure, Putting
  <2>4. QED
    BY <1>a, <1>b, <1>c, <2>1, <2>2, <2>3 DEF PassedIsDone
<1>4. pc' \in {"store", "exit"} /\ code' = 0 =>
        \A i \in Indices' : DoneAndRecorded(i)' /\ (IsAction(approvals'[i]) => intent')
  <2>1. CASE NoReview
    <3>1. approvals = <<>>
      BY <1>a, <2>1 DEF NoReview, Goto, LoopsAreInBounds
    <3>2. Indices = {}
      BY <3>1 DEF Indices
    <3>3. QED
      BY <1>b, <3>2
  <2>2. CASE AllDone
    <3>1. /\ pc = "act" /\ next \notin Indices /\ next >= 1 /\ failedAt = 0 /\ ~Undo /\ ~UndoFails
          /\ intent \/ approvals = <<>>
          /\ intent' = intent
      BY <1>a, <2>2 DEF AllDone, AtApproval, Goto, StagesTellFailure, Putting, Undo, UndoFails, record,
         IntentFirst, Acting, Stages, Asking
    <3>2. \A i \in Indices : i < next /\ approvals # <<>>
      BY <1>a, <3>1 DEF Indices
    <3>3. QED
      BY <1>a, <1>b, <1>d, <3>1, <3>2 DEF PassedIsDone
  <2>3. ASSUME ~NoReview, ~AllDone, pc' \in {"store", "exit"}, code' = 0
        PROVE  pc \in {"store", "exit"} /\ code = 0 /\ intent' = intent
    <3>1. StoreRun \/ StoreFails \/ LandLate \/ UNCHANGED vars \/ IntentFails \/ AllUndone
      BY <2>3 DEF Next, Answering, Work, Ask, Quit,
         NothingDecided, CommitIntent, ActRejected, Perform, PerformFails,
         RecordSuccess, RecordSuccessFails, RecordCallFailure, SkipRejected,
         RecordNotAttempted, StartUndo, Undo, UndoFails, RecordUndo, Die, Goto
    <3>2. ~IntentFails /\ ~AllUndone /\ ~StoreFails
      BY <2>3 DEF IntentFails, AllUndone, StoreFails
    <3>3. CASE StoreRun
      BY <2>3, <3>3 DEF StoreRun, Goto, record
    <3>4. CASE LandLate
      BY <2>3, <3>4 DEF LandLate, session, record
    <3>5. CASE UNCHANGED vars
      BY <2>3, <3>5 DEF vars, session, record
    <3>6. QED
      BY <3>1, <3>2, <3>3, <3>4, <3>5
  <2>4. pc \in {"store", "exit"} /\ code = 0 => failedAt = 0 /\ ~Undo /\ ~UndoFails
    BY <1>a DEF Undo, UndoFails, Goto, StagesTellFailure
  <2>5. QED
    <3>1. ASSUME ~NoReview, ~AllDone, pc' \in {"store", "exit"}, code' = 0, NEW i \in Indices
          PROVE  DoneAndRecorded(i)' /\ (IsAction(approvals'[i]) => intent')
      <4>1. pc \in {"store", "exit"} /\ code = 0 /\ intent' = intent
        BY <2>3, <3>1
      <4>2. DoneAndRecorded(i) /\ (IsAction(approvals[i]) => intent)
        BY <1>a, <4>1 DEF PassedIsDone
      <4>3. DoneAndRecorded(i)'
        BY <1>d, <2>4, <4>1, <4>2
      <4>4. QED
        BY <1>b, <4>1, <4>2, <4>3
    <3>2. QED
      BY <1>b, <2>1, <2>2, <3>1
<1>5. QED
  BY <1>2, <1>3, <1>4 DEF PassedIsDone

\* The act loop performs each approval at most once, in order.
LEMMA NextPerformedInOrder == AInv /\ [Next]_vars => PerformedInOrder'
<1> SUFFICES ASSUME AInv, [Next]_vars PROVE PerformedInOrder'
  OBVIOUS
<1>a. /\ StagesTellFailure /\ PerformedInOrder /\ next \in Nat /\ failedAt \in Nat
      /\ performed \in Seq(Nat)
  BY DEF AInv, IInv, TypeOK
<1>1. CASE Answering
  <2>1. performed' = <<>> /\ pc' \in {"asking", "intent"}
    BY <1>1, AnsweringIsEarly
  <2>2. \A k : k \notin DOMAIN performed'
    <3>1. Len(performed') = 0 /\ performed' \in Seq(Nat)
      BY <1>a, <2>1
    <3>2. QED
      BY <3>1
  <2>3. pc' # "record success"
    BY <2>1
  <2>4. failedAt' = 0
    BY <1>1, AnsweringIsEarly
  <2>5. QED
    BY <2>2, <2>3 DEF PerformedInOrder
<1>2. CASE Perform
  <2>1. /\ performed' = Append(performed, next) /\ next' = next /\ failedAt' = 0
        /\ pc' = "record success" /\ \A k \in DOMAIN performed : performed[k] < next
    BY <1>a, <1>2 DEF Perform, Goto, StagesTellFailure, Putting, PerformedInOrder
  <2>2. /\ DOMAIN performed = 1 .. Len(performed) /\ Len(performed) \in Nat
        /\ DOMAIN performed' = 1 .. Len(performed) + 1
        /\ performed'[Len(performed) + 1] = next
        /\ \A k \in 1 .. Len(performed) : performed'[k] = performed[k] /\ performed[k] \in Nat
    <3>1. Len(performed) \in Nat /\ DOMAIN performed = 1 .. Len(performed)
      BY <1>a
    <3>2. \A k \in 1 .. Len(performed) : performed[k] \in Nat
      BY <1>a
    <3>a. next \in Nat /\ performed \in Seq(Nat) /\ performed' = Append(performed, next)
      BY <1>a, <2>1
    <3>3. /\ performed' \in Seq(Nat) /\ Len(performed') = Len(performed) + 1
          /\ performed'[Len(performed) + 1] = next
          /\ \A k \in 1 .. Len(performed) : performed'[k] = performed[k]
      BY <3>a, AppendProperties
    <3>4. QED
      BY <3>1, <3>2, <3>3
  <2>a. \A k \in DOMAIN performed' : k \in 1 .. Len(performed) \/ k = Len(performed) + 1
    BY <2>2
  <2>3. \A k \in DOMAIN performed' : performed'[k] <= next
    <3>1. \A k \in 1 .. Len(performed) : performed[k] <= next
      <4>1. \A n \in Nat : n < next => n <= next
        BY <1>a
      <4>2. QED
        BY <2>1, <2>2, <4>1
    <3>2. next <= next
      BY <1>a
    <3>3. QED
      BY <2>2, <2>a, <3>1, <3>2
  <2>4. \A j, k \in DOMAIN performed' : performed'[j] = performed'[k] => j = k
    <3> SUFFICES ASSUME NEW j \in DOMAIN performed', NEW k \in DOMAIN performed',
                        performed'[j] = performed'[k]
                 PROVE  j = k
      OBVIOUS
    <3>1. \A n \in Nat : n < next => n # next
      BY <1>a
    <3>2. CASE j \in 1 .. Len(performed) /\ k \in 1 .. Len(performed)
      BY <1>a, <2>2, <3>2 DEF PerformedInOrder
    <3>3. CASE j \notin 1 .. Len(performed) \/ k \notin 1 .. Len(performed)
      <4>1. \A i \in 1 .. Len(performed) : performed'[i] # next
        BY <2>1, <2>2, <3>1
      <4>2. QED
        BY <2>2, <2>a, <3>3, <4>1
    <3>4. QED
      BY <3>2, <3>3
  <2>5. \E k \in DOMAIN performed' : performed'[k] = next
    BY <2>2
  <2>6. QED
    BY <2>1, <2>3, <2>4, <2>5 DEF PerformedInOrder
<1>3. ASSUME ~Perform, ~Answering
      PROVE  UNCHANGED performed
  BY <1>3, StepKinds, MovingKeeps DEF PerformFails, Undo, UndoFails, LandLate, RecordSuccess,
     RecordSuccessFails, RecordCallFailure, RecordNotAttempted, RecordUndo, session
<1>4. ASSUME ~Perform, ~Answering, NEW k \in DOMAIN performed
      PROVE  /\ pc' \in {"act", "record call failure"} => performed[k] < next'
             /\ pc' = "record success" => performed[k] <= next'
             /\ failedAt' # 0 => performed[k] <= failedAt'
  <2>1. performed[k] \in Nat
    BY <1>a
  <2>2. CASE RecordSuccess
    <3>1. pc' = "act" /\ next' = next + 1 /\ failedAt' = 0 /\ performed[k] <= next
      BY <1>a, <2>2 DEF RecordSuccess, Goto, session, StagesTellFailure, Putting, PerformedInOrder
    <3>2. performed[k] < next + 1
      BY <1>a, <2>1, <3>1
    <3>3. QED
      BY <3>1, <3>2
  <2>3. CASE RecordSuccessFails \/ RecordCallFailure
    <3>1. pc' = "skip" /\ failedAt' = next /\ (performed[k] <= next \/ performed[k] < next)
      BY <1>a, <2>3 DEF RecordSuccessFails, RecordCallFailure, Goto, PerformedInOrder
    <3>2. QED
      BY <1>a, <2>1, <3>1
  <2>4. ASSUME ~RecordSuccess, ~RecordSuccessFails, ~RecordCallFailure
        PROVE  failedAt' = failedAt
    BY <1>4, <2>4, StepKinds, MovingKeeps DEF PerformFails, Undo, UndoFails, LandLate,
       RecordNotAttempted, RecordUndo, session
  <2>5. ASSUME ~RecordSuccess, ~RecordSuccessFails, ~RecordCallFailure,
               pc' \in {"act", "record success", "record call failure"}
        PROVE  \/ /\ pc = pc' \/ (pc = "act" /\ pc' = "record call failure")
                  /\ next' \in {next, next + 1}
                  /\ pc = "act" \/ next' = next
               \/ pc = "intent"
    BY <1>4, <2>5 DEF Next, Answering, Work, vars, session, record, github, NoReview, Ask, Quit,
       NothingDecided, CommitIntent, IntentFails, ActRejected, Perform, PerformFails,
       AllDone, SkipRejected,
       RecordNotAttempted, StartUndo, Undo, UndoFails, RecordUndo, AllUndone, StoreRun,
       StoreFails, Die, LandLate, Goto
  <2>6. pc # "intent"
    <3>1. pc = "intent" => performed = <<>>
      BY DEF AInv, IInv, LoopsAreInBounds, Asking
    <3>2. QED
      BY <3>1
  <2>7. performed[k] < next => performed[k] < next + 1
    BY <1>a, <2>1
  <2>8. ASSUME ~RecordSuccess, ~RecordSuccessFails, ~RecordCallFailure
        PROVE  /\ pc' \in {"act", "record call failure"} => performed[k] < next'
               /\ pc' = "record success" => performed[k] <= next'
    BY <1>a, <2>5, <2>6, <2>7, <2>8 DEF PerformedInOrder
  <2>9. failedAt # 0 => performed[k] <= failedAt
    BY <1>a DEF PerformedInOrder
  <2>10. QED
    BY <2>2, <2>3, <2>4, <2>8, <2>9
<1>5. ASSUME ~Perform, ~Answering, pc' = "record success" PROVE pc = "record success" /\ next' = next
  BY <1>5 DEF Next, Answering, Work, vars, session, record, github, NoReview, Ask, Quit,
     NothingDecided, CommitIntent, IntentFails, ActRejected, PerformFails,
     RecordSuccess, RecordSuccessFails, RecordCallFailure, AllDone, SkipRejected,
     RecordNotAttempted, StartUndo, Undo, UndoFails, RecordUndo, AllUndone, StoreRun,
     StoreFails, Die, LandLate, Goto
<1>6. ASSUME ~Perform, ~Answering
      PROVE  /\ \A j, k \in DOMAIN performed' : performed'[j] = performed'[k] => j = k
             /\ pc' = "record success" => \E k \in DOMAIN performed' : performed'[k] = next'
  BY <1>a, <1>3, <1>5, <1>6 DEF PerformedInOrder
<1>7. ASSUME ~Perform, ~Answering PROVE PerformedInOrder'
  BY <1>3, <1>4, <1>6, <1>7 DEF PerformedInOrder
<1>8. QED
  BY <1>1, <1>2, <1>7

\* Every put is an attempt at an approval the loop has come to.
LEMMA NextPutWasAttempted == AInv /\ [Next]_vars => PutWasAttempted'
<1> SUFFICES ASSUME AInv, [Next]_vars PROVE PutWasAttempted'
  OBVIOUS
<1>a. /\ StagesTellFailure /\ PutWasAttempted /\ next \in Nat /\ failedAt \in Nat /\ IInv
  BY DEF AInv, IInv, TypeOK
<1>1. CASE Answering
  <2>1. remote' = before' /\ late' = {}
    BY <1>1, AnsweringIsEarly
  <2>2. QED
    BY <2>1 DEF PutWasAttempted
<1> SUFFICES ASSUME ~Answering PROVE PutWasAttempted'
  BY <1>1
<1> DEFINE Put(e) == e \in remote \ before \/ \E call \in late : call.on /\ call.effect = e
           Bound == IF failedAt = 0 THEN next ELSE failedAt
<1>b. UNCHANGED approvals /\ Indices' = Indices
  BY ApprovalsStay
<1>2. ASSUME NEW e, Put(e)' PROVE Put(e) \/ ((Perform \/ PerformFails) /\ e = approvals[next])
  <2>1. CASE e \in remote' \ before'
    BY <2>1, AccountGains
  <2>2. CASE \E call \in late' : call.on /\ call.effect = e
    BY <2>2, AccountGains
  <2>3. QED
    BY <1>2, <2>1, <2>2
<1>3. Bound' \in Nat /\ Bound \in Nat /\ Bound <= Bound'
  <2>1. next' \in Nat /\ failedAt' \in Nat
    BY <1>a, NextTypeOK DEF TypeOK
  <2>2. CASE failedAt # 0
    <3>1. failedAt' = failedAt
      BY <1>a, <2>2, StepKinds, MovingKeeps DEF Perform, PerformFails, Undo, UndoFails, LandLate,
         RecordSuccess, RecordSuccessFails, RecordCallFailure, RecordNotAttempted, RecordUndo,
         session, Goto, StagesTellFailure, Putting
    <3>2. QED
      BY <1>a, <2>2, <3>1
  <2>3. CASE failedAt = 0
    <3>1. CASE RecordSuccessFails \/ RecordCallFailure
      <4>1. failedAt' = next
        BY <3>1 DEF RecordSuccessFails, RecordCallFailure
      <4>2. next # 0
        <5>1. next >= 1
          BY <1>a, <3>1 DEF RecordSuccessFails, RecordCallFailure, Goto, StagesTellFailure, Putting
        <5>2. QED
          BY <1>a, <5>1
      <4>3. QED
        BY <1>a, <2>3, <4>1, <4>2
    <3>2. ASSUME ~RecordSuccessFails, ~RecordCallFailure PROVE failedAt' = 0 /\ next' \in {next, next + 1}
      <4>1. pc \notin TakingBack
        BY <1>a, <2>3 DEF StagesTellFailure
      <4>2. QED
        BY <2>3, <3>2, <4>1 DEF Next, Answering, Work, vars, session, record, github, NoReview, Ask,
           Quit, NothingDecided, CommitIntent, IntentFails, ActRejected, Perform, PerformFails,
           RecordSuccess, AllDone, SkipRejected, RecordNotAttempted, StartUndo, Undo, UndoFails,
           RecordUndo, AllUndone, StoreRun, StoreFails, Die, LandLate, Goto, TakingBack
    <3>3. next <= next /\ next <= next + 1
      BY <1>a
    <3>4. QED
      BY <1>a, <2>1, <2>3, <3>1, <3>2, <3>3
  <2>4. QED
    BY <2>2, <2>3
<1>4. ASSUME NEW e \in Effects, Put(e) PROVE \E i \in Indices : approvals[i] = e /\ i <= Bound'
  <2>1. PICK i \in Indices : approvals[i] = e /\ i <= Bound
    BY <1>a, <1>4 DEF PutWasAttempted
  <2>2. i <= Bound'
    <3>1. i \in Nat
      BY DEF Indices
    <3>2. QED
      BY <1>3, <2>1, <3>1
  <2>3. QED
    BY <2>1, <2>2
<1>5. ASSUME NEW e, Perform \/ PerformFails, e = approvals[next]
      PROVE  \E i \in Indices : approvals[i] = e /\ i <= Bound'
  <2>1. next \in Indices /\ failedAt' = 0 /\ next' = next
    BY <1>a, <1>5 DEF Perform, PerformFails, AtApproval, Goto, session, StagesTellFailure, Putting
  <2>2. next <= Bound'
    BY <1>a, <2>1
  <2>3. QED
    BY <1>5, <2>1, <2>2
<1>6. \A e \in Effects : Put(e)' => \E i \in Indices : approvals[i] = e /\ i <= Bound'
  BY <1>2, <1>4, <1>5
<1>7. QED
  BY <1>b, <1>6 DEF PutWasAttempted

\* What a step moves on to leaves as much to be undone as before, but for what
\* the step takes back.
LEMMA UndoableStays ==
  ASSUME AInv, [Next]_vars, ~Answering, pc' # "dead", NEW k \in Undoable
  PROVE  /\ performed'[k] = performed[k]
         /\ k \in Undoable' \/ (pc \in {"undo", "record not compensated"} /\ k = next)
<1>a. /\ StagesTellFailure /\ LoopsAreInBounds /\ next \in Nat
      /\ performed \in Seq(Nat) /\ Len(performed) \in Nat /\ k \in 1 .. Len(performed)
  <2>1. /\ StagesTellFailure /\ LoopsAreInBounds /\ next \in Nat
        /\ performed \in Seq(Nat) /\ k \in DOMAIN performed
    BY DEF AInv, IInv, TypeOK, Undoable
  <2>2. Len(performed) \in Nat /\ DOMAIN performed = 1 .. Len(performed)
    BY <2>1
  <2>3. QED
    BY <2>1, <2>2
<1>1. CASE Perform
  <2>1. performed' = Append(performed, next) /\ pc' = "record success"
    BY <1>1 DEF Perform, Goto
  <2>2. next \in Nat /\ performed \in Seq(Nat)
    BY <1>a
  <2>3. /\ performed' \in Seq(Nat) /\ Len(performed') = Len(performed) + 1
        /\ \A i \in 1 .. Len(performed) : performed'[i] = performed[i]
    <3> DEFINE s == Append(performed, next)
    <3>1. /\ s \in Seq(Nat) /\ Len(s) = Len(performed) + 1
          /\ \A i \in 1 .. Len(performed) : s[i] = performed[i]
      BY <2>2, AppendProperties
    <3> HIDE DEF s
    <3>2. performed' = s
      BY <2>1 DEF s
    <3>3. QED
      BY <3>1, <3>2
  <2>4. k \in DOMAIN performed' /\ performed'[k] = performed[k]
    BY <1>a, <2>3
  <2>5. QED
    BY <2>1, <2>4 DEF Undoable
<1>2. ASSUME ~Perform PROVE performed' = performed
  BY <1>2, StepKinds, MovingKeeps DEF PerformFails, Undo, UndoFails, LandLate,
     RecordSuccess, RecordSuccessFails, RecordCallFailure, RecordNotAttempted, RecordUndo,
     session
<1>3. CASE StartUndo
  <2>1. pc' = "undo" /\ next' = Len(performed) /\ performed' = performed
    BY <1>3 DEF StartUndo, Goto, session
  <2>2. k <= Len(performed)
    BY <1>a
  <2>3. QED
    BY <1>a, <2>1, <2>2 DEF Undoable
<1>4. CASE AllUndone
  BY <1>a, <1>4 DEF AllUndone, Goto, Undoable
<1>5. CASE Undo \/ UndoFails
  <2>1. /\ pc = "undo" /\ pc' \in {"record compensated", "record not compensated"} /\ next' = next
        /\ performed' = performed
    BY <1>5 DEF Undo, UndoFails, Goto, session
  <2>2. k <= next
    BY <2>1 DEF Undoable
  <2>3. k = next \/ k < next
    BY <1>a, <2>2
  <2>4. QED
    BY <1>a, <2>1, <2>2, <2>3 DEF Undoable
<1>6. CASE RecordUndo
  <2>1. /\ pc \in {"record compensated", "record not compensated"} /\ pc' = "undo"
        /\ next' = next - 1 /\ performed' = performed
    BY <1>6 DEF RecordUndo, Goto, session
  <2>2. pc = "record not compensated" => k <= next
    BY <2>1 DEF Undoable
  <2>3. pc = "record compensated" => k < next
    BY <2>1 DEF Undoable
  <2>4. k <= next => k = next \/ k <= next - 1
    BY <1>a
  <2>5. k < next => k <= next - 1
    BY <1>a
  <2>6. QED
    BY <1>a, <2>1, <2>2, <2>3, <2>4, <2>5 DEF Undoable
<1>7. ASSUME ~Perform, ~StartUndo, ~AllUndone, ~Undo, ~UndoFails, ~RecordUndo
      PROVE  k \in Undoable'
  <2>1. performed' = performed
    BY <1>2, <1>7
  <2>2. /\ pc' \in {"undo", "record compensated", "record not compensated"} => pc = pc' /\ next' = next
    BY <1>7 DEF Next, Answering, Work, vars, session, record, github, NoReview, Ask, Quit,
       NothingDecided, CommitIntent, IntentFails, ActRejected, PerformFails,
       RecordSuccess, RecordSuccessFails, RecordCallFailure, AllDone, SkipRejected,
       RecordNotAttempted, StoreRun, StoreFails, Die, LandLate, Goto
  <2>3. pc' \in {"store", "exit"} => failedAt' = failedAt /\ (pc \in {"store", "exit"} \/ failedAt = 0)
    BY <1>a, <1>7 DEF Next, Answering, Work, vars, session, record, github, NoReview, Ask, Quit,
       NothingDecided, CommitIntent, IntentFails, ActRejected, PerformFails,
       RecordSuccess, RecordSuccessFails, RecordCallFailure, AllDone, SkipRejected,
       RecordNotAttempted, StoreRun, StoreFails, Die, LandLate, Goto, StagesTellFailure,
       Asking, Putting
  <2>4. QED
    BY <1>a, <2>1, <2>2, <2>3 DEF Undoable
<1>8. QED
  BY <1>1, <1>2, <1>3, <1>4, <1>5, <1>6, <1>7

\* What the session put is still to be undone, or is noted as a failure.
LEMMA NextPutIsExplained == AInv /\ [Next]_vars => PutIsExplained'
<1> SUFFICES ASSUME AInv, [Next]_vars PROVE PutIsExplained'
  OBVIOUS
<1>a. /\ StagesTellFailure /\ ToldFits /\ LateCallsFailed /\ PutIsExplained /\ next \in Nat
      /\ LoopsAreInBounds /\ WritesAreAuthorised /\ performed \in Seq(Nat)
  BY DEF AInv, IInv, TypeOK
<1>1. CASE Answering
  <2>1. remote' = before' /\ pc' \in {"asking", "intent"}
    BY <1>1, AnsweringIsEarly
  <2>2. QED
    BY <2>1 DEF PutIsExplained
<1> SUFFICES ASSUME ~Answering PROVE PutIsExplained'
  BY <1>1
<1>b. /\ UNCHANGED approvals /\ Indices' = Indices
      /\ \A e : MayBeApplied(e) => MayBeApplied(e)'
      /\ \A e : NotTakenBack(e) => NotTakenBack(e)'
  BY ApprovalsStay, NotesAreKept
<1>c. \A call \in late : call.on =>
        \/ failedAt = 0 /\ pc = "dead"
        \/ failedAt = 0 /\ pc = "record call failure" /\ call.effect = approvals[next]
        \/ MayBeApplied(call.effect)
  <2>1. CASE failedAt = 0
    <3>1. \/ pc = "dead" \/ late = {}
          \/ pc = "record call failure" /\ \A call \in late : call.effect = approvals[next]
      BY <1>a, <2>1 DEF LateCallsFailed
    <3>2. ASSUME NEW call \in late
          PROVE  \/ failedAt = 0 /\ pc = "dead"
                 \/ failedAt = 0 /\ pc = "record call failure" /\ call.effect = approvals[next]
      BY <2>1, <3>1
    <3>3. QED
      BY <3>2, Zenon
  <2>2. CASE failedAt # 0
    <3>1. \A call \in late : call.on => MayBeApplied(call.effect)
      BY <1>a, <2>2 DEF LateCallsFailed
    <3>2. QED
      BY <3>1
  <2>3. QED
    BY <2>1, <2>2
<1>d. pc = "dead" => pc' = "dead"
  BY DEF Next, Answering, Work, vars, session, record, github, NoReview, Ask, Quit,
     NothingDecided, CommitIntent, IntentFails, ActRejected, Perform, PerformFails,
     RecordSuccess, RecordSuccessFails, RecordCallFailure, AllDone, SkipRejected,
     RecordNotAttempted, StartUndo, Undo, UndoFails, RecordUndo, AllUndone, StoreRun,
     StoreFails, Die, LandLate, Goto
<1>2. ASSUME pc' # "dead", NEW e \in remote \ before, e \in remote'
      PROVE  \/ MayBeApplied(e)' \/ NotTakenBack(e)'
             \/ \E k \in Undoable' : approvals[performed'[k]] = e
             \/ pc' = "record call failure" /\ approvals[next'] = e
  <2>1. CASE MayBeApplied(e) \/ NotTakenBack(e)
    BY <1>b, <2>1
  <2>2. CASE pc = "record call failure" /\ approvals[next] = e
    <3>1. CASE RecordCallFailure
      <4>1. next \in Indices
        BY <1>a, <2>2 DEF LoopsAreInBounds, AtApproval
      <4>2. Outcome(next, "call failed") \in told'
        BY <1>a, <2>2, NotesAreKept DEF ToldFits
      <4>3. MayBeApplied(e)'
        BY <1>b, <2>2, <4>1, <4>2 DEF MayBeApplied, Noted, Outcome
      <4>4. QED
        BY <4>3
    <3>2. CASE ~RecordCallFailure
      <4>1. pc' = "record call failure" /\ next' = next
        BY <1>2, <2>2, <3>2 DEF Next, Answering, Work, vars, session, record, github, NoReview, Ask,
           Quit, NothingDecided, CommitIntent, IntentFails, ActRejected, Perform, PerformFails,
           RecordSuccess, RecordSuccessFails, AllDone, SkipRejected,
           RecordNotAttempted, StartUndo, Undo, UndoFails, RecordUndo, AllUndone, StoreRun,
           StoreFails, Die, LandLate, Goto
      <4>2. QED
        BY <1>b, <2>2, <4>1
    <3>3. QED
      BY <3>1, <3>2
  <2>3. ASSUME NEW k \in Undoable, approvals[performed[k]] = e
        PROVE  NotTakenBack(e)' \/ \E j \in Undoable' : approvals[performed'[j]] = e
    <3>2. CASE pc = "undo" /\ k = next /\ k \notin Undoable'
      <4>1. CASE Undo
        BY <1>2, <2>3, <3>2, <4>1 DEF Undo, CallReturns, Apply
      <4>2. CASE UndoFails
        <5>1. next > 0 /\ pc' = "record not compensated" /\ next' = next /\ performed' = performed
          BY <4>2 DEF UndoFails, Goto, session
        <5>2. k \in Undoable'
          BY <1>a, <3>2, <5>1 DEF Undoable
        <5>3. QED
          BY <3>2, <5>2
      <4>3. CASE AllUndone
        <5>1. next = 0 /\ next \in DOMAIN performed
          BY <3>2, <4>3 DEF AllUndone, Undoable
        <5>2. QED
          BY <1>a, <5>1
      <4>4. ASSUME ~Undo, ~UndoFails, ~AllUndone PROVE pc' = pc /\ next' = next /\ performed' = performed
        BY <1>2, <3>2, <4>4 DEF Next, Answering, Work, vars, session, record, github, NoReview, Ask,
           Quit, NothingDecided, CommitIntent, IntentFails, ActRejected, Perform, PerformFails,
           RecordSuccess, RecordSuccessFails, RecordCallFailure, AllDone, SkipRejected,
           RecordNotAttempted, StartUndo, RecordUndo, StoreRun,
           StoreFails, Die, LandLate, Goto
      <4>5. ASSUME ~Undo, ~UndoFails, ~AllUndone PROVE k \in Undoable'
        BY <3>2, <4>4, <4>5 DEF Undoable
      <4>6. QED
        BY <3>2, <4>1, <4>2, <4>3, <4>5
    <3>3. CASE pc = "record not compensated" /\ k = next /\ k \notin Undoable'
      <4>1. CASE RecordUndo
        <5>1. performed[next] \in Indices /\ approvals[performed[next]] = e
          BY <1>a, <2>3, <3>3 DEF Undoable, WritesAreAuthorised
        <5>2. Outcome(performed[next], "compensation failed") \in told'
          BY <1>a, <3>3, NotesAreKept DEF ToldFits
        <5>3. NotTakenBack(e)'
          BY <1>b, <5>1, <5>2 DEF NotTakenBack, Noted, Outcome
        <5>4. QED
          BY <5>3
      <4>2. ASSUME ~RecordUndo PROVE pc' = pc /\ next' = next /\ performed' = performed
        BY <1>2, <3>3, <4>2 DEF Next, Answering, Work, vars, session, record, github, NoReview, Ask,
           Quit, NothingDecided, CommitIntent, IntentFails, ActRejected, Perform, PerformFails,
           RecordSuccess, RecordSuccessFails, RecordCallFailure, AllDone, SkipRejected,
           RecordNotAttempted, StartUndo, Undo, UndoFails, AllUndone, StoreRun,
           StoreFails, Die, LandLate, Goto
      <4>3. ASSUME ~RecordUndo PROVE k \in Undoable'
        BY <3>3, <4>2, <4>3 DEF Undoable
      <4>4. QED
        BY <3>3, <4>1, <4>3
    <3>4. QED
      <4>1. \/ k \in Undoable'
            \/ pc \in {"undo", "record not compensated"} /\ k = next
        BY <1>2, UndoableStays
      <4>2. CASE k \in Undoable'
        <5>1. performed'[k] = performed[k]
          BY <1>2, UndoableStays
        <5>2. QED
          BY <2>3, <4>2, <5>1
      <4>3. QED
        BY <3>2, <3>3, <4>1, <4>2
  <2>4. QED
    BY <1>a, <1>b, <1>d, <1>2, <2>1, <2>2, <2>3 DEF PutIsExplained
<1>3. ASSUME pc' # "dead", NEW e \in remote' \ before', e \notin remote
      PROVE  \/ MayBeApplied(e)'
             \/ \E k \in Undoable' : approvals[performed'[k]] = e
             \/ pc' = "record call failure" /\ approvals[next'] = e
  <2>1. CASE Perform /\ e = approvals[next]
    <3>1. /\ performed' = Append(performed, next) /\ pc' = "record success"
      BY <2>1 DEF Perform, Goto
    <3>2. next \in Nat /\ performed \in Seq(Nat)
      BY <1>a
    <3>a. Len(performed) \in Nat
      BY <3>2
    <3>3. /\ performed' \in Seq(Nat) /\ Len(performed') = Len(performed) + 1
          /\ performed'[Len(performed) + 1] = next
      BY <3>1, <3>2, AppendProperties
    <3>4. Len(performed) + 1 \in DOMAIN performed'
      BY <3>3, <3>a
    <3>5. Len(performed) + 1 \in Undoable'
      BY <3>1, <3>4 DEF Undoable
    <3>6. QED
      BY <2>1, <3>3, <3>5
  <2>2. CASE PerformFails /\ e = approvals[next]
    BY <1>b, <2>2 DEF PerformFails, Goto
  <2>3. CASE LandLate /\ \E call \in late : call.on /\ call.effect = e
    <3>1. pc' = pc /\ next' = next
      BY <2>3 DEF LandLate
    <3>2. PICK call \in late : call.on /\ call.effect = e
      BY <2>3
    <3>3. QED
      BY <1>b, <1>c, <1>3, <3>1, <3>2
  <2>4. QED
    BY <1>3, <2>1, <2>2, <2>3, AccountGains
<1>4. pc' = "record compensated" =>
        \A e : e = approvals'[performed'[next']] => e \notin remote' \/ MayBeApplied(e)'
  <2>1. CASE Undo
    BY <1>b, <2>1 DEF Undo, CallReturns, Apply, session
  <2>2. ASSUME ~Undo, pc' = "record compensated"
        PROVE  pc = "record compensated" /\ next' = next /\ performed' = performed /\ ~Perform /\ ~PerformFails
    BY <2>2 DEF Next, Answering, Work, vars, session, record, github, NoReview, Ask, Quit,
       NothingDecided, CommitIntent, IntentFails, ActRejected, Perform, PerformFails,
       RecordSuccess, RecordSuccessFails, RecordCallFailure, AllDone, SkipRejected,
       RecordNotAttempted, StartUndo, UndoFails, RecordUndo, AllUndone, StoreRun,
       StoreFails, Die, LandLate, Goto
  <2>3. ASSUME ~Undo, pc' = "record compensated", NEW e, e = approvals[performed[next]], e \in remote'
        PROVE  MayBeApplied(e)'
    <3>1. CASE e \in remote
      BY <1>a, <1>b, <2>2, <2>3, <3>1 DEF PutIsExplained
    <3>2. CASE e \notin remote
      <4>1. \E call \in late : call.on /\ call.effect = e
        BY <2>2, <2>3, <3>2, AccountGains
      <4>2. MayBeApplied(e)
        BY <1>c, <2>2, <2>3, <4>1
      <4>3. QED
        BY <1>b, <4>2
    <3>3. QED
      BY <3>1, <3>2
  <2>4. QED
    BY <1>b, <2>1, <2>2, <2>3
<1>5. before' = before
  BY AccountGains
<1>6. QED
  BY <1>b, <1>2, <1>3, <1>4, <1>5 DEF PutIsExplained

\* The outcomes a step can add, and what is known of them.
LEMMA OutcomeGains ==
  ASSUME AInv, [Next]_vars, NEW o \in outcomes', o \notin outcomes
  PROVE  \/ /\ RecordSuccess \/ RecordSuccessFails
            /\ o = Outcome(next, "succeeded")
         \/ RecordCallFailure /\ o = Outcome(next, "call failed")
         \/ RecordNotAttempted /\ o = Outcome(next, "not attempted")
         \/ /\ RecordUndo /\ pc = "record compensated"
            /\ o = Outcome(performed[next], "compensated")
         \/ /\ RecordUndo /\ pc = "record not compensated"
            /\ o = Outcome(performed[next], "compensation failed")
<1>1. CASE RecordSuccess \/ RecordSuccessFails
  BY <1>1 DEF RecordSuccess, RecordSuccessFails, OutcomeCommitted, OutcomeFails
<1>2. CASE RecordCallFailure
  BY <1>2, TriedOrPending DEF RecordCallFailure
<1>3. CASE RecordNotAttempted
  BY <1>3, TriedOrPending DEF RecordNotAttempted
<1>4. CASE RecordUndo
  BY <1>4, TriedOrPending DEF RecordUndo, Goto
<1>5. ASSUME ~RecordSuccess, ~RecordSuccessFails, ~RecordCallFailure, ~RecordNotAttempted, ~RecordUndo
      PROVE  outcomes' = outcomes
  BY <1>5, StepKinds, MovingKeeps, AnsweringIsEarly, FailuresAreNamed DEF Perform, Undo, LandLate, record
<1>6. QED
  BY <1>1, <1>2, <1>3, <1>4, <1>5

\* The same, told from the status of the new outcome.
LEMMA OutcomeGainFields ==
  ASSUME AInv, [Next]_vars, NEW o \in outcomes', o \notin outcomes
  PROVE  /\ o.status = "succeeded" => (RecordSuccess \/ RecordSuccessFails) /\ o.approval = next
         /\ o.status = "compensated" =>
              RecordUndo /\ pc = "record compensated" /\ o.approval = performed[next]
<1>1. CASE (RecordSuccess \/ RecordSuccessFails) /\ o = Outcome(next, "succeeded")
  <2>1. o.status = "succeeded" /\ o.approval = next
    BY <1>1 DEF Outcome
  <2>2. QED
    BY <1>1, <2>1
<1>2. CASE RecordUndo /\ pc = "record compensated" /\ o = Outcome(performed[next], "compensated")
  <2>1. o.status = "compensated" /\ o.approval = performed[next]
    BY <1>2 DEF Outcome
  <2>2. QED
    BY <1>2, <2>1
<1>3. CASE o = Outcome(next, "call failed") \/ o = Outcome(next, "not attempted")
           \/ o = Outcome(performed[next], "compensation failed")
  <2>1. o.status \in {"call failed", "not attempted", "compensation failed"}
    <3>1. CASE o = Outcome(next, "call failed")
      BY <3>1 DEF Outcome
    <3>2. CASE o = Outcome(next, "not attempted")
      BY <3>2 DEF Outcome
    <3>3. CASE o = Outcome(performed[next], "compensation failed")
      BY <3>3 DEF Outcome
    <3>4. QED
      BY <1>3, <3>1, <3>2, <3>3
  <2>2. QED
    BY <2>1
<1>4. QED
  BY <1>1, <1>2, <1>3, OutcomeGains

\* Which approvals can have an outcome of which kind.
LEMMA NextOutcomesFit == AInv /\ [Next]_vars => OutcomesFit'
<1> SUFFICES ASSUME AInv, [Next]_vars, NEW o \in outcomes'
             PROVE  /\ o.status = "succeeded" => \E k \in DOMAIN performed' : performed'[k] = o.approval
                    /\ o.status # "succeeded" => failedAt' # 0
                    /\ o.status = "call failed" =>
                         o.approval = failedAt' /\ \A k \in DOMAIN performed' : performed'[k] # failedAt'
                    /\ o.status = "not attempted" => o.approval > failedAt'
                    /\ o.status \in {"compensated", "compensation failed"} =>
                         \E k \in DOMAIN performed' : /\ performed'[k] = o.approval
                                                      /\ pc' \in TakingBack => pc' # "skip" /\ k > next'
  BY DEF OutcomesFit
<1>a. /\ StagesTellFailure /\ OutcomesFit /\ PerformedInOrder /\ LoopsAreInBounds
      /\ next \in Nat /\ failedAt \in Nat
      /\ performed \in Seq(Nat) /\ Len(approvals) \in Nat
  BY DEF AInv, IInv, TypeOK
<1>b. ASSUME NEW k \in DOMAIN performed PROVE k \in DOMAIN performed' /\ performed'[k] = performed[k]
  <2>1. CASE Perform
    <3>1. /\ performed' = Append(performed, next)
          /\ next \in Nat /\ performed \in Seq(Nat)
      BY <1>a, <2>1 DEF Perform
    <3>2. /\ performed' \in Seq(Nat) /\ Len(performed') = Len(performed) + 1
          /\ \A i \in 1 .. Len(performed) : performed'[i] = performed[i]
      BY <3>1, AppendProperties
    <3>3. Len(performed) \in Nat /\ k \in 1 .. Len(performed)
      BY <3>1
    <3>4. QED
      BY <3>2, <3>3
  <2>2. CASE Answering
    BY <2>2, AnsweringIsEarly
  <2>3. ASSUME ~Perform, ~Answering PROVE performed' = performed
    BY <2>3, StepKinds, MovingKeeps DEF PerformFails, Undo, UndoFails, LandLate,
       RecordSuccess, RecordSuccessFails, RecordCallFailure, RecordNotAttempted, RecordUndo,
       session
  <2>4. QED
    BY <2>1, <2>2, <2>3
<1>1. CASE o \in outcomes /\ o.status = "succeeded"
  <2>1. PICK k \in DOMAIN performed : performed[k] = o.approval
    BY <1>a, <1>1 DEF OutcomesFit
  <2>2. QED
    BY <1>1, <1>b, <2>1
<1>2. CASE o \in outcomes /\ o.status # "succeeded"
  <2>1. failedAt # 0
    BY <1>a, <1>2 DEF OutcomesFit
  <2>2. ~Answering
    BY <2>1, AnsweringIsEarly
  <2>3. pc \notin Asking \union Putting
    BY <1>a, <2>1 DEF StagesTellFailure
  <2>4. UNCHANGED <<failedAt, performed>>
    BY <2>2, <2>3, StepKinds, MovingKeeps DEF Perform, PerformFails, Undo, UndoFails, LandLate,
         RecordSuccess, RecordSuccessFails, RecordCallFailure, RecordNotAttempted, RecordUndo,
         session, Goto, Putting
  <2>5. ASSUME o.status \in {"compensated", "compensation failed"}
        PROVE  \E k \in DOMAIN performed : /\ performed[k] = o.approval
                                           /\ pc' \in TakingBack => pc' # "skip" /\ k > next'
    <3>1. PICK k \in DOMAIN performed : /\ performed[k] = o.approval
                                        /\ pc \in TakingBack => pc # "skip" /\ k > next
      BY <1>a, <1>2, <2>5 DEF OutcomesFit
    <3>2. pc' \in TakingBack => pc \in TakingBack
      BY <2>2, <2>3 DEF Next, Answering, Work, vars, session, record, github, NoReview, Ask,
         Quit, NothingDecided, CommitIntent, IntentFails, ActRejected, Perform, PerformFails,
         RecordSuccess, RecordSuccessFails, RecordCallFailure, AllDone, SkipRejected,
         RecordNotAttempted, StartUndo, Undo, UndoFails, RecordUndo, AllUndone, StoreRun,
         StoreFails, Die, LandLate, Goto, TakingBack, Asking, Putting
    <3>3. pc \in TakingBack \ {"skip"} /\ pc' \in TakingBack =>
            pc' # "skip" /\ next' \in {next, next - 1}
      BY <2>2, <2>3 DEF Next, Answering, Work, vars, session, record, github, NoReview, Ask,
         Quit, NothingDecided, CommitIntent, IntentFails, ActRejected, Perform, PerformFails,
         RecordSuccess, RecordSuccessFails, RecordCallFailure, AllDone, SkipRejected,
         RecordNotAttempted, StartUndo, Undo, UndoFails, RecordUndo, AllUndone, StoreRun,
         StoreFails, Die, LandLate, Goto, TakingBack, Asking, Putting
    <3>4. k > next => k > next - 1
      <4>1. k \in Nat
        BY <1>a
      <4>2. QED
        BY <1>a, <4>1
    <3>5. QED
      BY <3>1, <3>2, <3>3, <3>4
  <2>6. QED
    BY <1>a, <1>2, <2>1, <2>4, <2>5 DEF OutcomesFit
<1>3. CASE o \notin outcomes
  <2>1. CASE (RecordSuccess \/ RecordSuccessFails) /\ o = Outcome(next, "succeeded")
    <3>1. performed' = performed /\ pc = "record success"
      BY <2>1 DEF RecordSuccess, RecordSuccessFails, Goto, session
    <3>2. \E k \in DOMAIN performed : performed[k] = next
      BY <1>a, <3>1 DEF PerformedInOrder
    <3>3. o.status = "succeeded" /\ o.approval = next
      BY <2>1 DEF Outcome
    <3>4. QED
      BY <3>1, <3>2, <3>3
  <2>2. CASE RecordCallFailure /\ o = Outcome(next, "call failed")
    <3>1. /\ performed' = performed /\ pc = "record call failure" /\ failedAt' = next /\ next \in Indices
      BY <1>a, <2>2 DEF RecordCallFailure, Goto, LoopsAreInBounds, AtApproval
    <3>2. \A k \in DOMAIN performed : performed[k] < next
      BY <1>a, <3>1 DEF PerformedInOrder
    <3>3. o.status = "call failed" /\ o.approval = next
      BY <2>2 DEF Outcome
    <3>4. next # 0
      <4>1. next \in Nat /\ next \in 1 .. Len(approvals)
        BY <1>a, <3>1 DEF Indices
      <4>2. QED
        BY <4>1
    <3>5. \A k \in DOMAIN performed : performed[k] # next
      BY <1>a, <3>2
    <3>6. QED
      BY <3>1, <3>3, <3>4, <3>5
  <2>3. CASE RecordNotAttempted /\ o = Outcome(next, "not attempted")
    <3>1. failedAt' = failedAt /\ failedAt # 0 /\ next > failedAt
      BY <1>a, <2>3 DEF RecordNotAttempted, session, StagesTellFailure, TakingBack
    <3>2. o.status = "not attempted" /\ o.approval = next
      BY <2>3 DEF Outcome
    <3>3. QED
      BY <3>1, <3>2
  <2>4. CASE RecordUndo /\ \E s \in {"compensated", "compensation failed"} : o = Outcome(performed[next], s)
    <3>1. /\ pc' = "undo" /\ next' = next - 1 /\ UNCHANGED <<failedAt, performed>>
          /\ next \in DOMAIN performed /\ failedAt # 0
      BY <1>a, <2>4 DEF RecordUndo, Goto, session, LoopsAreInBounds, StagesTellFailure, TakingBack
    <3>2. o.status \in {"compensated", "compensation failed"} /\ o.approval = performed[next]
      <4>1. PICK s \in {"compensated", "compensation failed"} : o = Outcome(performed[next], s)
        BY <2>4
      <4>2. QED
        BY <4>1 DEF Outcome
    <3>3. next > next - 1
      BY <1>a
    <3>4. QED
      BY <3>1, <3>2, <3>3
  <2>5. QED
    BY <1>3, <2>1, <2>2, <2>3, <2>4, OutcomeGains
<1>4. QED
  BY <1>1, <1>2, <1>3

\* Every outcome stays true of the account.
LEMMA NextOutcomesAreTrue ==
  AInv /\ [Next]_vars /\ PutWasAttempted' /\ OutcomesFit' => OutcomesAreTrue'
<1> SUFFICES ASSUME AInv, [Next]_vars, PutWasAttempted', OutcomesFit',
                    NEW o \in outcomes', NEW e, e = approvals'[o.approval]
             PROVE  /\ o.status = "succeeded" /\ failedAt' = 0 => e \in remote'
                    /\ o.status = "compensated" => e \notin remote' \/ MayBeApplied(e)'
                    /\ o.status = "not attempted" /\ e \in remote' =>
                         e \in before' \/ \E i \in Indices' \ {o.approval} : approvals'[i] = e
  BY DEF OutcomesAreTrue
<1>a. /\ StagesTellFailure /\ LateCallsFailed /\ OutcomesFit /\ PutIsExplained /\ PassedIsDone
      /\ OutcomesAreTrue /\ LoopsAreInBounds /\ next \in Nat /\ failedAt \in Nat
  BY DEF AInv, IInv, TypeOK
<1>b. ~Answering
  BY AnsweringIsEarly
<1>c. /\ UNCHANGED approvals /\ \A x : MayBeApplied(x) => MayBeApplied(x)'
  BY <1>b, ApprovalsStay, NotesAreKept
<1>d. pc \in Putting => failedAt = 0
  BY <1>a DEF StagesTellFailure
<1>e. Perform \/ PerformFails => pc = "act"
  BY DEF Perform, PerformFails, Goto
<1>1. ASSUME o.status = "succeeded", failedAt' = 0 PROVE e \in remote'
  <2>1. failedAt = 0 /\ ~RecordSuccessFails
    <3>1. next \in Indices /\ failedAt' = next => failedAt' # 0
      BY <1>a DEF Indices
    <3>2. RecordSuccessFails \/ RecordCallFailure => next \in Indices /\ failedAt' = next
      BY <1>a DEF RecordSuccessFails, RecordCallFailure, Goto, LoopsAreInBounds, AtApproval
    <3>3. ~RecordSuccessFails /\ ~RecordCallFailure
      BY <1>1, <3>1, <3>2
    <3>4. failedAt' = failedAt
      BY <1>b, <3>3, StepKinds, MovingKeeps DEF Perform, PerformFails, Undo, UndoFails, LandLate,
         RecordSuccess, RecordNotAttempted, RecordUndo, session
    <3>5. QED
      BY <1>1, <3>3, <3>4
  <2>2. ~Undo /\ ~UndoFails
    BY <1>a, <2>1 DEF Undo, UndoFails, Goto, StagesTellFailure, TakingBack
  <2>3. remote \subseteq remote'
    <3>1. CASE LandLate
      BY <1>a, <2>1, <3>1 DEF LandLate, LateCallsFailed, Apply
    <3>2. CASE Perform \/ PerformFails
      BY <3>2 DEF Perform, PerformFails, CallReturns, CallFails, Apply
    <3>3. CASE Moving
      BY <3>3, MovingKeeps
    <3>4. QED
      BY <1>b, <2>2, <3>1, <3>2, <3>3, StepKinds DEF RecordSuccess, RecordSuccessFails,
         RecordCallFailure, RecordNotAttempted, RecordUndo, github
  <2>4. CASE o \in outcomes
    <3>1. e \in remote
      BY <1>1, <1>a, <1>c, <2>1, <2>4 DEF OutcomesAreTrue
    <3>2. QED
      BY <2>3, <3>1
  <2>5. CASE o \notin outcomes
    <3>1. RecordSuccess /\ o.approval = next
      BY <1>1, <2>1, <2>5, OutcomeGainFields
    <3>2. approvals[next] \in remote
      BY <1>a, <3>1 DEF RecordSuccess, Goto, PassedIsDone
    <3>3. QED
      BY <1>c, <2>3, <3>1, <3>2
  <2>6. QED
    BY <2>4, <2>5
<1>2. ASSUME o.status = "compensated", e \in remote' PROVE MayBeApplied(e)'
  <2>1. CASE o \in outcomes
    <3>1. failedAt # 0
      BY <1>a, <1>2, <2>1 DEF OutcomesFit
    <3>2. CASE e \in remote
      BY <1>2, <1>a, <1>c, <2>1, <3>2 DEF OutcomesAreTrue
    <3>3. CASE e \notin remote
      <4>1. \E call \in late : call.on /\ call.effect = e
        BY <1>2, <1>d, <1>e, <3>1, <3>3, AccountGains DEF Putting
      <4>2. MayBeApplied(e)
        BY <1>a, <3>1, <4>1 DEF LateCallsFailed
      <4>3. QED
        BY <1>c, <4>2
    <3>4. QED
      BY <3>2, <3>3
  <2>2. CASE o \notin outcomes
    <3>1. RecordUndo /\ pc = "record compensated" /\ o.approval = performed[next]
      BY <1>2, <2>2, OutcomeGainFields
    <3>2. remote' = remote
      BY <3>1 DEF RecordUndo, github
    <3>3. MayBeApplied(e)
      BY <1>2, <1>a, <1>c, <3>1, <3>2 DEF PutIsExplained
    <3>4. QED
      BY <1>c, <3>3
  <2>3. QED
    BY <2>1, <2>2
<1>3. ASSUME o.status = "not attempted", e \in remote', e \notin before'
      PROVE  \E i \in Indices' \ {o.approval} : approvals'[i] = e
  <2>1. remote' \subseteq Effects /\ failedAt' \in Nat /\ outcomes' \subseteq [approval : Nat, status : Statuses]
    BY NextTypeOK DEF TypeOK, AInv
  <2>2. o.approval > failedAt' /\ failedAt' # 0
    BY <1>3 DEF OutcomesFit
  <2>3. PICK i \in Indices' : approvals'[i] = e /\ i <= failedAt'
    BY <1>3, <2>1, <2>2 DEF PutWasAttempted
  <2>4. i # o.approval
    <3>1. i \in Nat /\ o.approval \in Nat /\ failedAt' \in Nat
      BY <2>1 DEF Indices
    <3>2. QED
      BY <2>2, <2>3, <3>1
  <2>5. QED
    BY <2>3, <2>4
<1>4. QED
  BY <1>1, <1>2, <1>3

\* A new outcome contradicts none that is there: only a compensation, or a
\* failed one, may follow a success.
LEMMA NewOutcomeFits ==
  ASSUME AInv, [Next]_vars, NEW o \in outcomes', o \notin outcomes,
         NEW q \in outcomes, q.approval = o.approval
  PROVE  q.status = "succeeded" /\ o.status \in {"compensated", "compensation failed"}
<1>a. /\ StagesTellFailure /\ OutcomesFit /\ PerformedInOrder /\ LoopsAreInBounds
      /\ next \in Nat /\ failedAt \in Nat /\ performed \in Seq(Nat)
  BY DEF AInv, IInv, TypeOK
<1>b. q = Outcome(q.approval, q.status) /\ q.status \in Statuses /\ q.approval \in Nat
  <2>1. q \in [approval : Nat, status : Statuses]
    BY DEF AInv, IInv, TypeOK
  <2>2. QED
    BY <2>1 DEF Outcome
<1>c. ASSUME NEW k \in DOMAIN performed, failedAt # 0, NEW n \in Nat, n > failedAt PROVE performed[k] # n
  <2>0. performed[k] \in Nat
    BY <1>a
  <2>1. performed[k] \in Nat /\ performed[k] <= failedAt
    BY <1>a, <1>c, <2>0 DEF PerformedInOrder
  <2>2. QED
    BY <1>a, <1>c, <2>1
<1>d. /\ q.status = "succeeded" => \E k \in DOMAIN performed : performed[k] = q.approval
      /\ q.status # "succeeded" => failedAt # 0
      /\ q.status = "call failed" =>
           q.approval = failedAt /\ \A k \in DOMAIN performed : performed[k] # failedAt
      /\ q.status = "not attempted" => q.approval > failedAt
      /\ q.status \in {"compensated", "compensation failed"} =>
           \E k \in DOMAIN performed : /\ performed[k] = q.approval
                                       /\ pc \in TakingBack => pc # "skip" /\ k > next
  BY <1>a DEF OutcomesFit
<1>e. \A k \in DOMAIN performed : k > next => k # next
  <2>1. \A k \in DOMAIN performed : k \in Nat
    BY <1>a
  <2>2. QED
    BY <1>a, <2>1
<1>1. CASE (RecordSuccess \/ RecordSuccessFails) /\ o = Outcome(next, "succeeded")
  <2>1. pc = "record success"
    BY <1>1 DEF RecordSuccess, RecordSuccessFails, Goto
  <2>2. failedAt = 0
    BY <1>a, <2>1 DEF StagesTellFailure, Putting
  <2>3. o.approval = next
    BY <1>1 DEF Outcome
  <2>4. q = o
    BY <1>1, <1>b, <1>d, <2>2, <2>3
  <2>5. QED
    BY <2>4
<1>2. CASE RecordCallFailure /\ o = Outcome(next, "call failed")
  <2>1. pc = "record call failure" /\ o.approval = next
    BY <1>2 DEF RecordCallFailure, Goto, Outcome
  <2>2. failedAt = 0
    BY <1>a, <2>1 DEF StagesTellFailure, Putting
  <2>3. PICK k \in DOMAIN performed : performed[k] = next
    BY <1>d, <2>1, <2>2
  <2>4. performed[k] < next
    BY <1>a, <2>1 DEF PerformedInOrder
  <2>5. ~(next < next)
    BY <1>a
  <2>6. QED
    BY <2>3, <2>4, <2>5
<1>3. CASE RecordNotAttempted /\ o = Outcome(next, "not attempted")
  <2>1. pc = "skip" /\ o.approval = next
    BY <1>3 DEF RecordNotAttempted, Outcome
  <2>2. failedAt # 0 /\ next > failedAt
    BY <1>a, <2>1 DEF StagesTellFailure, TakingBack
  <2>3. \A k \in DOMAIN performed : performed[k] # next
    BY <1>a, <1>c, <2>2
  <2>4. next # failedAt
    BY <1>a, <2>2
  <2>5. q.status \in {"not attempted"}
    BY <1>b, <1>d, <2>1, <2>3, <2>4 DEF Statuses
  <2>6. q = o
    BY <1>3, <1>b, <2>1, <2>5
  <2>7. QED
    BY <2>6
<1>4. ASSUME RecordUndo, pc \in {"record compensated", "record not compensated"},
             NEW s \in {"compensated", "compensation failed"}, o = Outcome(performed[next], s)
      PROVE  q.status = "succeeded" /\ o.status \in {"compensated", "compensation failed"}
  <2>1. o.approval = performed[next] /\ o.status = s
    BY <1>4 DEF Outcome
  <2>2. next \in DOMAIN performed /\ failedAt # 0 /\ pc \in TakingBack /\ pc # "skip"
    BY <1>4, <1>a DEF LoopsAreInBounds, StagesTellFailure, TakingBack
  <2>3. q.status # "call failed"
    BY <1>d, <2>1, <2>2
  <2>4. q.status # "not attempted"
    BY <1>b, <1>c, <1>d, <2>1, <2>2
  <2>5. q.status \notin {"compensated", "compensation failed"}
    <3>1. ASSUME NEW k \in DOMAIN performed, performed[k] = performed[next], k > next PROVE FALSE
      <4>1. k = next
        BY <1>a, <2>2, <3>1 DEF PerformedInOrder
      <4>2. QED
        BY <1>e, <3>1, <4>1
    <3>2. QED
      BY <1>d, <2>1, <2>2, <3>1
  <2>6. QED
    BY <1>b, <2>1, <2>3, <2>4, <2>5 DEF Statuses
<1>5. QED
  BY <1>1, <1>2, <1>3, <1>4, OutcomeGains

\* No step records an outcome that contradicts one recorded before.
LEMMA NextOutcomesAreConsistent == AInv /\ [Next]_vars => OutcomesAreConsistent'
<1> SUFFICES ASSUME AInv, [Next]_vars, NEW o \in outcomes', NEW q \in outcomes',
                    o.approval = q.approval, o # q
             PROVE  {o.status, q.status} \in
                      {{"succeeded", "compensated"}, {"succeeded", "compensation failed"}}
  BY DEF OutcomesAreConsistent
<1>1. CASE o \in outcomes /\ q \in outcomes
  BY <1>1 DEF AInv, OutcomesAreConsistent
<1>2. CASE o \notin outcomes /\ q \in outcomes
  BY <1>2, NewOutcomeFits
<1>3. CASE o \in outcomes /\ q \notin outcomes
  BY <1>3, NewOutcomeFits
<1>4. CASE o \notin outcomes /\ q \notin outcomes
  <2>1. o = q
    BY <1>4, OutcomeGains DEF RecordSuccess, RecordSuccessFails, RecordCallFailure,
       RecordNotAttempted, RecordUndo, Goto
  <2>2. QED
    BY <2>1
<1>5. QED
  BY <1>1, <1>2, <1>3, <1>4

-----------------------------------------------------------------------------
(* The theorems. *)

\* No step breaks AInv.
LEMMA NextAInv == AInv /\ [Next]_vars => AInv'
<1>1. AInv /\ [Next]_vars => IInv'
  BY NextTypeOK, NextConsent, NextIntentFirst, NextWritesAreAuthorised, NextLoopsAreInBounds
     DEF AInv, IInv
<1>2. QED
  BY <1>1, NextStagesTellFailure, NextToldFits, NextPassedHaveOutcomes, NextLateCallsFailed,
     NextPassedIsDone, NextPerformedInOrder, NextPutIsExplained, NextPutWasAttempted,
     NextOutcomesFit, NextOutcomesAreTrue, NextOutcomesAreConsistent DEF AInv

\* AInv holds in every reachable state, for every queue and every account.
THEOREM AccountInvariant == Spec => []AInv
<1>1. QED
  BY InitAInv, NextAInv, PTL DEF Spec

\* main(): exit code 0 is said of a session whose every granted action is in
\* effect and recorded; a session that failed and came to its end left behind
\* nothing but what it noted as failed.
THEOREM ExitCodeTrusted == Spec => []ExitCodeIsHonest
<1>1. AInv => CleanExitMeansAllDone
  <2> SUFFICES ASSUME AInv, pc = "exit", code = 0
               PROVE  /\ Consented \subseteq remote
                      /\ \A i \in Indices :
                           IsAction(approvals[i]) => intent /\ Outcome(i, "succeeded") \in outcomes
    BY DEF CleanExitMeansAllDone
  <2>1. \A i \in Indices : DoneAndRecorded(i) /\ (IsAction(approvals[i]) => intent)
    BY DEF AInv, PassedIsDone
  <2>2. Consented = {approvals[i] : i \in {j \in Indices : IsAction(approvals[j])}}
    BY DEF AInv, IInv, ConsentIsExact, Authorised
  <2>3. QED
    BY <2>1, <2>2 DEF DoneAndRecorded
<1>2. AInv => FailureIsAccountedFor
  BY DEF AInv, PutIsExplained, Undoable, NotTakenBack, FailureIsAccountedFor
<1>3. AInv => ExitCodeIsHonest
  BY <1>1, <1>2 DEF ExitCodeIsHonest
<1>4. QED
  BY AccountInvariant, <1>3, PTL

\* record_outcome: each outcome commit is true of the account when it is written
\* and afterwards, the commits about one action never contradict each other, and
\* a session that failed leaves no action without an outcome unless it said so.
THEOREM OutcomesBelieved == Spec => []OutcomesCanBeBelieved
<1>1. AInv => EachHasAnOutcome
  BY DEF AInv, PassedHaveOutcomes, HasAnOutcome, EachHasAnOutcome
<1>2. AInv => OutcomesCanBeBelieved
  BY <1>1 DEF AInv, OutcomesCanBeBelieved
<1>3. QED
  BY AccountInvariant, <1>2, PTL

-----------------------------------------------------------------------------
(* The inductive invariant behind EasyMeansReversible. *)

\* The performed actions that the undo loop has passed.
UndoPassed ==
  {k \in DOMAIN performed :
     \/ pc \in {"undo", "record compensated", "record not compensated"} /\ k > next
     \/ pc \in {"store", "exit"} /\ failedAt # 0}

\* What became of an attempt to undo is noted; or the operator knows that an
\* outcome is missing, and the action was taken back.
UndoIsNoted == \A k \in UndoPassed : LET e == approvals[performed[k]] IN
  \/ Noted(performed[k], "compensated") \/ Noted(performed[k], "compensation failed")
  \/ pending /\ (e \notin remote \/ MayBeApplied(e))

\* A call that may still take something back was named to the operator as failed.
LateUndosAreTold == \A call \in late : ~call.on => NotTakenBack(call.effect)

Performed(e) == \E k \in DOMAIN performed : approvals[performed[k]] = e

\* What the account lost, or may still lose, is what the session had performed.
OnlyPerformedIsLost ==
  /\ \A e \in before \ remote : Performed(e)
  /\ \A call \in late : ~call.on => Performed(call.effect)

EInv == AInv /\ UndoIsNoted /\ LateUndosAreTold /\ OnlyPerformedIsLost

\* What was performed stays performed, and a call that returns adds to it.
LEMMA PerformedGrows ==
  ASSUME AInv, [Next]_vars
  PROVE  /\ \A k \in DOMAIN performed : k \in DOMAIN performed' /\ performed'[k] = performed[k]
         /\ ~Perform => performed' = performed
         /\ Perform => pc' = "record success"
<1>1. CASE Perform
  <2>1. performed' = Append(performed, next) /\ next \in Nat /\ performed \in Seq(Nat)
    BY <1>1 DEF Perform, AInv, IInv, TypeOK
  <2>2. /\ performed' \in Seq(Nat) /\ Len(performed') = Len(performed) + 1
        /\ \A i \in 1 .. Len(performed) : performed'[i] = performed[i]
    BY <2>1, AppendProperties
  <2>3. /\ Len(performed) \in Nat /\ DOMAIN performed = 1 .. Len(performed)
        /\ DOMAIN performed' = 1 .. Len(performed')
    BY <2>1, <2>2
  <2>4. \A k \in DOMAIN performed : k \in DOMAIN performed' /\ performed'[k] = performed[k]
    BY <2>2, <2>3
  <2>5. pc' = "record success"
    BY <1>1 DEF Perform, Goto
  <2>6. QED
    BY <1>1, <2>4, <2>5
<1>2. CASE Answering
  BY <1>2, AnsweringIsEarly DEF Perform, Goto
<1>3. ASSUME ~Perform, ~Answering PROVE performed' = performed
  BY <1>3, StepKinds, MovingKeeps DEF PerformFails, Undo, UndoFails, LandLate,
     RecordSuccess, RecordSuccessFails, RecordCallFailure, RecordNotAttempted, RecordUndo,
     session
<1>4. QED
  BY <1>1, <1>2, <1>3

\* What is lost of the account is the effect of the call that undoes it, or of a
\* late call; what may still be lost is the effect of such a call.
LEMMA AccountLosses ==
  ASSUME [Next]_vars
  PROVE  /\ before' = before
         /\ \A e \in remote :
              \/ e \in remote'
              \/ (Undo \/ UndoFails) /\ e = approvals[performed[next]]
              \/ LandLate /\ \E call \in late : ~call.on /\ call.effect = e
         /\ \A call \in late' : ~call.on =>
              \/ call \in late
              \/ UndoFails /\ call.effect = approvals[performed[next]]
<1>1. CASE LandLate
  <2>1. PICK call \in late : /\ remote' = Apply(call.on, call.effect, remote)
                             /\ late' = late \ {call} /\ before' = before
    BY <1>1 DEF LandLate
  <2>2. \A e \in remote : e \in remote' \/ (~call.on /\ call.effect = e)
    BY <2>1 DEF Apply
  <2>3. QED
    BY <1>1, <2>1, <2>2
<1>2. CASE Perform
  BY <1>2 DEF Perform, CallReturns, Apply
<1>3. CASE PerformFails
  <2>1. before' = before /\ remote \subseteq remote'
    BY <1>3 DEF PerformFails, CallFails, Apply
  <2>2. \A call \in late' : call \in late \/ call.on
    BY <1>3, LateCall DEF PerformFails
  <2>3. QED
    BY <2>1, <2>2
<1>4. CASE Undo
  BY <1>4 DEF Undo, CallReturns, Apply
<1>5. CASE UndoFails
  <2>1. before' = before /\ \A e \in remote : e \in remote' \/ e = approvals[performed[next]]
    BY <1>5 DEF UndoFails, CallFails, Apply
  <2>2. \A call \in late' : call \in late \/ call.effect = approvals[performed[next]]
    BY <1>5, LateCall DEF UndoFails
  <2>3. QED
    BY <1>5, <2>1, <2>2
<1>6. CASE Moving
  BY <1>6, MovingKeeps
<1>7. CASE Answering
  BY <1>7 DEF Answering, Answer, AnswerAll, github
<1>8. QED
  BY <1>1, <1>2, <1>3, <1>4, <1>5, <1>6, <1>7, StepKinds DEF RecordSuccess, RecordSuccessFails,
     RecordCallFailure, RecordNotAttempted, RecordUndo, github

\* Nothing the session did not put there is ever taken back.
LEMMA NextOnlyPerformedIsLost == EInv /\ [Next]_vars => OnlyPerformedIsLost'
<1> SUFFICES ASSUME EInv, [Next]_vars PROVE OnlyPerformedIsLost'
  OBVIOUS
<1>a. AInv /\ OnlyPerformedIsLost
  BY DEF EInv
<1>1. CASE Answering
  <2>1. remote' = before' /\ late' = {}
    BY <1>a, <1>1, AnsweringIsEarly
  <2>2. QED
    BY <2>1 DEF OnlyPerformedIsLost
<1>2. CASE ~Answering
  <2>1. approvals' = approvals
    BY <1>2, ApprovalsStay
  <2>2. ASSUME NEW e, Performed(e) PROVE Performed(e)'
    <3>1. PICK k \in DOMAIN performed : approvals[performed[k]] = e
      BY <2>2 DEF Performed
    <3>2. k \in DOMAIN performed' /\ performed'[k] = performed[k]
      BY <1>a, PerformedGrows
    <3>3. QED
      BY <2>1, <3>1, <3>2 DEF Performed
  <2>3. Undo \/ UndoFails => Performed(approvals[performed[next]])
    <3>1. Undo \/ UndoFails => next \in DOMAIN performed
      <4>1. ASSUME Undo \/ UndoFails PROVE pc = "undo" /\ next > 0
        BY <4>1 DEF Undo, UndoFails, Goto
      <4>2. pc = "undo" => next \in 0 .. Len(performed) /\ performed \in Seq(Nat)
        BY <1>a DEF AInv, IInv, TypeOK, LoopsAreInBounds
      <4>3. QED
        BY <4>1, <4>2
    <3>2. QED
      BY <3>1 DEF Performed
  <2>4. ASSUME NEW e \in before' \ remote' PROVE Performed(e)'
    <3>1. e \in before
      BY AccountLosses
    <3>2. CASE e \notin remote
      BY <1>a, <2>2, <3>1, <3>2 DEF OnlyPerformedIsLost
    <3>3. CASE e \in remote
      <4>1. \/ (Undo \/ UndoFails) /\ e = approvals[performed[next]]
            \/ \E call \in late : ~call.on /\ call.effect = e
        BY <2>4, <3>3, AccountLosses
      <4>2. Performed(e)
        BY <1>a, <2>3, <4>1 DEF OnlyPerformedIsLost
      <4>3. QED
        BY <2>2, <4>2
    <3>4. QED
      BY <3>2, <3>3
  <2>5. ASSUME NEW call \in late', ~call.on PROVE Performed(call.effect)'
    <3>1. \/ call \in late
          \/ UndoFails /\ call.effect = approvals[performed[next]]
      BY <2>5, AccountLosses
    <3>2. Performed(call.effect)
      BY <1>a, <2>3, <2>5, <3>1 DEF OnlyPerformedIsLost
    <3>3. QED
      BY <2>2, <3>2
  <2>6. QED
    BY <2>4, <2>5 DEF OnlyPerformedIsLost
<1>3. QED
  BY <1>1, <1>2

\* A session that has failed once has failed, and performs nothing more.
LEMMA FailureStays ==
  ASSUME AInv, [Next]_vars, failedAt # 0
  PROVE  UNCHANGED <<failedAt, performed>> /\ ~Answering
<1>1. ~Answering
  BY AnsweringIsEarly
<1>2. pc \notin Asking \union Putting
  BY DEF AInv, StagesTellFailure
<1>3. QED
  BY <1>1, <1>2, StepKinds, MovingKeeps DEF Perform, PerformFails, Undo, UndoFails, LandLate,
     RecordSuccess, RecordSuccessFails, RecordCallFailure, RecordNotAttempted, RecordUndo,
     session, Goto, Putting

\* A call that may still take something back is told of before main() goes on.
LEMMA NextLateUndosAreTold == EInv /\ [Next]_vars => LateUndosAreTold'
<1> SUFFICES ASSUME EInv, [Next]_vars, NEW call \in late', ~call.on
             PROVE  NotTakenBack(call.effect)'
  BY DEF LateUndosAreTold
<1>a. AInv /\ LateUndosAreTold
  BY DEF EInv
<1>1. CASE Answering
  BY <1>a, <1>1, AnsweringIsEarly
<1>2. CASE ~Answering
  <2>1. /\ UNCHANGED approvals /\ Indices' = Indices
        /\ \A e : NotTakenBack(e) => NotTakenBack(e)'
    BY <1>2, ApprovalsStay, NotesAreKept
  <2>2. CASE call \in late
    BY <1>a, <2>1, <2>2 DEF LateUndosAreTold
  <2>3. CASE UndoFails /\ call.effect = approvals[performed[next]]
    <3>1. Outcome(performed[next], "compensation failed") \in told'
      BY <2>3, FailuresAreNamed
    <3>2. next \in DOMAIN performed
      <4>1. pc = "undo" /\ next > 0
        BY <2>3 DEF UndoFails, Goto
      <4>2. next \in 0 .. Len(performed) /\ performed \in Seq(Nat)
        BY <1>a, <4>1 DEF AInv, IInv, TypeOK, LoopsAreInBounds
      <4>3. QED
        BY <4>1, <4>2
    <3>3. performed[next] \in Indices
      BY <1>a, <3>2 DEF AInv, IInv, WritesAreAuthorised
    <3>4. QED
      BY <2>1, <2>3, <3>1, <3>3 DEF NotTakenBack, Noted, Outcome
  <2>4. QED
    BY <2>2, <2>3, AccountLosses
<1>3. QED
  BY <1>1, <1>2

UndoneOrNoted(k) ==
  \/ Noted(performed[k], "compensated") \/ Noted(performed[k], "compensation failed")
  \/ /\ pending
     /\ \/ approvals[performed[k]] \notin remote
        \/ MayBeApplied(approvals[performed[k]])

\* What is true of a compensation when the next one begins stays true.
LEMMA UndoStaysNoted ==
  ASSUME AInv, [Next]_vars, failedAt # 0, NEW k \in DOMAIN performed, UndoneOrNoted(k)
  PROVE  UndoneOrNoted(k)'
<1>1. /\ ~Answering /\ performed' = performed
  BY FailureStays
<1>2. /\ UNCHANGED approvals
      /\ outcomes \subseteq outcomes' /\ told \subseteq told' /\ (pending => pending')
      /\ \A e : MayBeApplied(e) => MayBeApplied(e)'
  BY <1>1, ApprovalsStay, NotesAreKept
<1>3. ASSUME NEW e, e \notin remote \/ MayBeApplied(e)
      PROVE  e \notin remote' \/ MayBeApplied(e)'
  <2>1. CASE e \notin remote /\ e \in remote'
    <3>1. ~Perform /\ ~PerformFails
      BY DEF AInv, StagesTellFailure, Putting, Perform, PerformFails, Goto
    <3>2. \E call \in late : call.on /\ call.effect = e
      BY <2>1, <3>1, AccountGains
    <3>3. MayBeApplied(e)
      BY <3>2 DEF AInv, LateCallsFailed
    <3>4. QED
      BY <1>2, <3>3
  <2>2. QED
    BY <1>2, <1>3, <2>1
<1>4. CASE Noted(performed[k], "compensated") \/ Noted(performed[k], "compensation failed")
  BY <1>1, <1>2, <1>4 DEF UndoneOrNoted, Noted, Outcome
<1>5. CASE pending /\ (approvals[performed[k]] \notin remote \/ MayBeApplied(approvals[performed[k]]))
  <2>1. \A e : e = approvals[performed[k]] => e \notin remote' \/ MayBeApplied(e)'
    BY <1>3, <1>5
  <2>2. pending'
    BY <1>2, <1>5
  <2>3. QED
    BY <1>1, <1>2, <2>1, <2>2 DEF UndoneOrNoted, MayBeApplied
<1>6. QED
  BY <1>4, <1>5 DEF UndoneOrNoted

\* Every compensation, done or failed, is noted before the next one, or its
\* outcome is known to be missing.
LEMMA NextUndoIsNoted == EInv /\ [Next]_vars => UndoIsNoted'
<1> SUFFICES ASSUME EInv, [Next]_vars, NEW k \in UndoPassed'
             PROVE  UndoneOrNoted(k)'
  BY DEF UndoIsNoted, UndoneOrNoted
<1>a. /\ AInv /\ UndoIsNoted /\ StagesTellFailure /\ LoopsAreInBounds
      /\ next \in Nat /\ performed \in Seq(Nat) /\ Len(performed) \in Nat
  BY DEF EInv, AInv, IInv, TypeOK
<1>b. pc' \notin {"asking", "intent", "record success"}
  BY DEF UndoPassed
<1>c. ~Answering /\ performed' = performed
  BY <1>a, <1>b, AnsweringIsEarly, PerformedGrows
<1>d. k \in DOMAIN performed /\ k \in Nat /\ k <= Len(performed) /\ k > 0
  <2>1. k \in DOMAIN performed'
    BY DEF UndoPassed
  <2>2. k \in DOMAIN performed
    BY <1>c, <2>1
  <2>3. DOMAIN performed = 1 .. Len(performed)
    BY <1>a
  <2>4. k \in 1 .. Len(performed)
    BY <2>2, <2>3
  <2>5. QED
    BY <1>a, <2>2, <2>4
<1>1. ASSUME k \in UndoPassed
      PROVE  UndoneOrNoted(k)'
  <2>1. UndoneOrNoted(k)
    BY <1>a, <1>1 DEF UndoIsNoted, UndoneOrNoted
  <2>2. failedAt # 0
    BY <1>a, <1>1 DEF UndoPassed, StagesTellFailure, TakingBack
  <2>3. QED
    BY <1>a, <1>d, <2>1, <2>2, UndoStaysNoted
<1>2. CASE RecordUndo
  <2>1. next' = next - 1 /\ pc \in {"record compensated", "record not compensated"} /\ pc' = "undo"
    BY <1>2 DEF RecordUndo, Goto
  <2>2. k > next - 1
    BY <2>1 DEF UndoPassed
  <2>3. CASE k = next
    <3>1. CASE pc = "record compensated"
      <4>1. Outcome(performed[k], "compensated") \in outcomes' \/ pending'
        BY <1>2, <2>3, <3>1, TriedOrPending DEF RecordUndo, Goto
      <4>2. approvals[performed[k]] \notin remote \/ MayBeApplied(approvals[performed[k]])
        BY <1>a, <2>3, <3>1 DEF AInv, PutIsExplained
      <4>3. remote' = remote /\ approvals' = approvals
        BY <1>2, <1>c, ApprovalsStay DEF RecordUndo, github
      <4>4. outcomes \subseteq outcomes' /\ told \subseteq told'
        BY <1>c, NotesAreKept
      <4>5. QED
        BY <1>c, <4>1, <4>2, <4>3, <4>4 DEF UndoneOrNoted, MayBeApplied, Indices, Noted, Outcome
    <3>2. CASE pc = "record not compensated"
      <4>1. Outcome(performed[k], "compensation failed") \in told'
        BY <1>a, <1>c, <2>3, <3>2, NotesAreKept DEF AInv, ToldFits
      <4>2. QED
        BY <1>c, <4>1 DEF UndoneOrNoted, Noted, Outcome
    <3>3. QED
      BY <2>1, <3>1, <3>2
  <2>4. CASE k # next
    <3>1. k > next
      BY <1>a, <1>d, <2>2, <2>4
    <3>2. k \in UndoPassed
      BY <1>d, <2>1, <3>1 DEF UndoPassed
    <3>3. QED
      BY <1>1, <3>2
  <2>5. QED
    BY <2>3, <2>4
<1>3. CASE Undo \/ UndoFails
  <2>1. pc = "undo" /\ next' = next /\ pc' \in {"record compensated", "record not compensated"}
    BY <1>3 DEF Undo, UndoFails, Goto
  <2>2. k \in UndoPassed
    BY <1>d, <2>1 DEF UndoPassed
  <2>3. QED
    BY <1>1, <2>2
<1>4. CASE StartUndo
  <2>1. pc' = "undo" /\ next' = Len(performed)
    BY <1>4 DEF StartUndo, Goto
  <2>2. k > Len(performed)
    BY <2>1 DEF UndoPassed
  <2>3. ~(k > Len(performed))
    BY <1>a, <1>d
  <2>4. QED
    BY <2>2, <2>3
<1>5. CASE AllUndone
  <2>1. pc = "undo" /\ next = 0
    BY <1>5 DEF AllUndone, Goto
  <2>2. k > next
    BY <1>a, <1>d, <2>1
  <2>3. k \in UndoPassed
    BY <1>d, <2>1, <2>2 DEF UndoPassed
  <2>4. QED
    BY <1>1, <2>3
<1>6. CASE LandLate \/ UNCHANGED vars
  <2>1. pc' = pc /\ next' = next /\ failedAt' = failedAt
    BY <1>6 DEF LandLate, vars, session
  <2>2. k \in UndoPassed
    BY <1>d, <2>1 DEF UndoPassed
  <2>3. QED
    BY <1>1, <2>2
<1>7. CASE StoreRun \/ StoreFails
  <2>1. pc = "store" /\ pc' = "exit" /\ failedAt' = failedAt
    BY <1>7 DEF StoreRun, StoreFails, Goto
  <2>2. k \in UndoPassed
    BY <1>d, <2>1 DEF UndoPassed
  <2>3. QED
    BY <1>1, <2>2
<1>8. CASE NoReview \/ IntentFails \/ AllDone
  <2>1. pc \in Asking \union Putting /\ pc' = "store" /\ failedAt' = failedAt
    BY <1>8 DEF NoReview, IntentFails, AllDone, Goto, Asking, Putting, session
  <2>2. failedAt' = 0
    BY <1>a, <2>1 DEF StagesTellFailure
  <2>3. QED
    BY <2>1, <2>2 DEF UndoPassed
<1>9. ASSUME ~RecordUndo, ~Undo, ~UndoFails, ~StartUndo, ~AllUndone, ~LandLate, vars' # vars,
             ~StoreRun, ~StoreFails, ~NoReview, ~IntentFails, ~AllDone
      PROVE  pc' \notin {"undo", "record compensated", "record not compensated", "store", "exit"}
  <2>1. \/ Ask \/ Quit \/ NothingDecided \/ CommitIntent \/ ActRejected \/ SkipRejected \/ Die
        \/ Perform \/ PerformFails \/ RecordSuccess \/ RecordSuccessFails \/ RecordCallFailure
        \/ RecordNotAttempted
    BY <1>9, <1>c, StepKinds DEF Moving
  <2>2. QED
    BY <2>1 DEF Ask, Quit, NothingDecided, CommitIntent, ActRejected, SkipRejected, Die, Perform,
       PerformFails, RecordSuccess, RecordSuccessFails, RecordCallFailure, RecordNotAttempted, Goto
<1>10. QED
  BY <1>2, <1>3, <1>4, <1>5, <1>6, <1>7, <1>8, <1>9 DEF UndoPassed

\* Nothing is said, nothing is lost before the session begins.
LEMMA InitEInv == Init => EInv
<1> SUFFICES ASSUME Init PROVE EInv
  OBVIOUS
<1>1. LateUndosAreTold
  BY DEF Init, LateUndosAreTold
<1>2. UndoIsNoted
  BY DEF Init, UndoIsNoted, UndoPassed
<1>3. OnlyPerformedIsLost
  BY DEF Init, OnlyPerformedIsLost
<1>4. QED
  BY <1>1, <1>2, <1>3, InitAInv DEF EInv

\* At the end of a session without a failure, what is said is in effect.
LEMMA EasyWithoutFailure ==
  ASSUME EInv, pc \in {"store", "exit"}, failedAt = 0, NEW i \in Indices, SaidOf(i) # {}
  PROVE  /\ approvals[i] \in remote /\ Outcome(i, "succeeded") \in SaidOf(i)
         /\ late = {}
<1>1. AInv
  BY DEF EInv
<1>2. told = {} /\ late = {}
  BY <1>1 DEF AInv, ToldFits, LateCallsFailed
<1>3. PICK o \in outcomes : o.approval = i
  BY <1>2 DEF SaidOf
<1>4. o.status = "succeeded"
  BY <1>1, <1>3 DEF AInv, OutcomesFit
<1>5. approvals[i] \in remote
  BY <1>1, <1>3, <1>4 DEF AInv, OutcomesAreTrue
<1>6. o = Outcome(i, "succeeded")
  <2>1. o \in [approval : Nat, status : Statuses]
    BY <1>1, <1>3 DEF AInv, IInv, TypeOK
  <2>2. QED
    BY <1>3, <1>4, <2>1 DEF Outcome
<1>7. QED
  BY <1>2, <1>3, <1>5, <1>6 DEF SaidOf

\* At the end of a session that failed, nobody touched what no approval before
\* the failure asked for.
LEMMA UntouchedAfterFailure ==
  ASSUME EInv, pc \in {"store", "exit"}, failedAt # 0, NEW i \in Indices, i > failedAt,
         \A j \in Indices \ {i} : approvals[j] # approvals[i], approvals[i] \in Effects
  PROVE  /\ approvals[i] \in remote <=> approvals[i] \in before
         /\ \A call \in late : call.effect # approvals[i]
<1> DEFINE e == approvals[i]
<1>1. /\ AInv /\ OnlyPerformedIsLost /\ PutWasAttempted /\ PerformedInOrder
      /\ failedAt \in Nat /\ Len(approvals) \in Nat
  BY DEF EInv, AInv, IInv, TypeOK
<1>2. i \in Nat /\ ~(i <= failedAt)
  BY <1>1 DEF Indices
<1>3. ~Performed(e)
  <2> SUFFICES ASSUME NEW k \in DOMAIN performed, approvals[performed[k]] = e PROVE FALSE
    BY DEF Performed
  <2>1. performed[k] \in Indices /\ performed[k] <= failedAt
    BY <1>1 DEF AInv, IInv, WritesAreAuthorised, PerformedInOrder
  <2>2. performed[k] # i
    BY <1>2, <2>1
  <2>3. QED
    BY <2>1, <2>2
<1>4. ~(e \in remote \ before) /\ ~(\E call \in late : call.on /\ call.effect = e)
  <2> SUFFICES ASSUME e \in remote \ before \/ \E call \in late : call.on /\ call.effect = e
               PROVE  FALSE
    OBVIOUS
  <2>1. PICK j \in Indices : approvals[j] = e /\ j <= failedAt
    BY <1>1 DEF PutWasAttempted
  <2>2. j # i
    BY <1>2, <2>1
  <2>3. QED
    BY <2>1, <2>2
<1>5. ~(e \in before \ remote) /\ ~(\E call \in late : ~call.on /\ call.effect = e)
  BY <1>1, <1>3 DEF OnlyPerformedIsLost
<1>6. QED
  BY <1>4, <1>5

\* Of an action whose outcomes all say "Undo: easy" after a failure it was said
\* that it was not attempted, or it was taken back and the log lacks something.
LEMMA EasyAfterFailure ==
  ASSUME EInv, pc \in {"store", "exit"}, failedAt # 0, NEW i \in Indices,
         \A j \in Indices \ {i} : approvals[j] # approvals[i],
         \A o \in SaidOf(i) : UndoOf(o) = "easy", NEW o \in SaidOf(i)
  PROVE  \/ o.status = "not attempted" /\ i > failedAt
         \/ /\ o = Outcome(i, "succeeded") /\ TakenBackUnsaid(i)
            /\ \A call \in late : call.effect # approvals[i]
<1>1. /\ AInv /\ OutcomesFit /\ UndoIsNoted /\ LateUndosAreTold /\ LateCallsFailed
      /\ outcomes \subseteq [approval : Nat, status : Statuses]
      /\ told \subseteq [approval : Nat, status : Failures]
  BY DEF EInv, AInv, IInv, TypeOK
<1>2. ASSUME NEW q \in SaidOf(i)
      PROVE  q.status \notin {"call failed", "compensated", "compensation failed"}
  <2>1. q.status \in {"call failed", "compensated", "compensation failed"} => UndoOf(q) = "permanent"
    BY Zenon DEF UndoOf
  <2>2. UndoOf(q) = "easy"
    OBVIOUS
  <2>3. QED
    BY <2>1, <2>2
<1>3. ASSUME NEW status \in {"call failed", "compensated", "compensation failed"}
      PROVE  ~Noted(i, status)
  <2> SUFFICES ASSUME Noted(i, status) PROVE FALSE
    OBVIOUS
  <2>1. Outcome(i, status) \in SaidOf(i) /\ Outcome(i, status).status = status
    BY DEF SaidOf, Noted, Outcome
  <2>2. QED
    BY <1>2, <2>1
<1>4. ~MayBeApplied(approvals[i]) /\ ~NotTakenBack(approvals[i])
  BY <1>3 DEF MayBeApplied, NotTakenBack
<1>5. \A call \in late : call.effect # approvals[i]
  BY <1>1, <1>4 DEF LateCallsFailed, LateUndosAreTold
<1>6. o \in outcomes /\ o.approval = i /\ o.status \in {"succeeded", "not attempted"}
  <2>1. o \in outcomes \union told /\ o.approval = i
    BY DEF SaidOf
  <2>2. o.status \notin {"call failed", "compensated", "compensation failed"}
    BY <1>2
  <2>3. o \notin told
    BY <1>1, <2>2 DEF Failures
  <2>4. o.status \in Statuses
    BY <1>1, <2>1, <2>3
  <2>5. QED
    BY <2>1, <2>2, <2>3, <2>4 DEF Statuses
<1>7. CASE o.status = "not attempted"
  BY <1>1, <1>6, <1>7 DEF OutcomesFit
<1>8. CASE o.status = "succeeded"
  <2>1. o = Outcome(i, "succeeded")
    BY <1>1, <1>6, <1>8 DEF Outcome
  <2>2. PICK k \in DOMAIN performed : performed[k] = i
    BY <1>1, <1>6, <1>8 DEF OutcomesFit
  <2>3. k \in UndoPassed
    BY DEF UndoPassed
  <2>4. pending /\ approvals[i] \notin remote
    BY <1>1, <1>3, <1>4, <2>2, <2>3 DEF UndoIsNoted
  <2>5. QED
    BY <1>5, <1>6, <2>1, <2>4 DEF TakenBackUnsaid
<1>9. QED
  BY <1>6, <1>7, <1>8

\* EInv holds in every reachable state, for every queue and every account.
THEOREM UndoInvariant == Spec => []EInv
<1>1. EInv /\ [Next]_vars => EInv'
  BY NextAInv, NextUndoIsNoted, NextLateUndosAreTold, NextOnlyPerformedIsLost DEF EInv
<1>2. QED
  BY InitEInv, <1>1, PTL DEF Spec

\* render_outcome, "Undo: easy": an action of which nothing but that was said is
\* at the end as was said, or was taken back and the operator was told that the
\* log lacks an outcome; and no call to GitHub about it is still under way.
THEOREM EasyIsReversible == Spec => []EasyMeansReversible
<1>1. EInv => EasyMeansReversible
  <2> SUFFICES ASSUME EInv, pc \in {"store", "exit"}, NEW i \in Indices, SaidOf(i) # {},
                      \A o \in SaidOf(i) : UndoOf(o) = "easy",
                      \A j \in Indices \ {i} : approvals[j] # approvals[i]
               PROVE  /\ IsAsSaid(i) \/ TakenBackUnsaid(i)
                      /\ \A call \in late : call.effect # approvals[i]
    BY DEF EasyMeansReversible
  <2>1. CASE failedAt = 0
    BY <2>1, EasyWithoutFailure DEF IsAsSaid
  <2>2. CASE failedAt # 0
    <3>1. PICK o \in SaidOf(i) : TRUE
      OBVIOUS
    <3>2. \A q \in SaidOf(i) :
            \/ q.status = "not attempted" /\ i > failedAt
            \/ /\ q = Outcome(i, "succeeded") /\ TakenBackUnsaid(i)
               /\ \A call \in late : call.effect # approvals[i]
      BY <2>2, EasyAfterFailure
    <3>3. CASE TakenBackUnsaid(i) /\ \A call \in late : call.effect # approvals[i]
      BY <3>3
    <3>4. CASE /\ i > failedAt
               /\ \A q \in SaidOf(i) : q.status = "not attempted"
      <4>1. Outcome(i, "succeeded") \notin SaidOf(i)
        BY <3>4 DEF Outcome
      <4>2. CASE approvals[i] \in Effects
        BY <2>2, <3>4, <4>1, <4>2, UntouchedAfterFailure DEF IsAsSaid
      <4>3. CASE approvals[i] \notin Effects
        <5>1. /\ before \subseteq Effects /\ remote \subseteq Effects
              /\ \A call \in late : call.effect \in Effects
          BY DEF EInv, AInv, IInv, TypeOK
        <5>2. QED
          BY <4>1, <4>3, <5>1 DEF IsAsSaid
      <4>4. QED
        BY <4>2, <4>3
    <3>5. QED
      BY <3>1, <3>2, <3>3, <3>4
  <2>3. QED
    BY <2>1, <2>2
<1>2. QED
  BY UndoInvariant, <1>1, PTL

-----------------------------------------------------------------------------
(* What the intent says: no decision of the session is lost in it. *)

Kinds == {"star", "follow", "reject"}

\* An answer asks for an approval of a kind; "both" asks for two.
AsksFor(d, kind) == d = kind \/ (d = "both" /\ kind # "reject")

OfKind(kind, given) == {i \in 1 .. Len(given) : given[i].decision = kind}
AskedIn(kind, given) == {k \in 1 .. Len(given) : AsksFor(given[k], kind)}

\* Each answer has given one approval of each kind it asks for.
EveryAnswerCounts == \A kind \in Kinds :
  Cardinality(OfKind(kind, approvals)) = Cardinality(AskedIn(kind, answers))

RInv == IInv /\ EveryAnswerCounts

\* The positions of a list that are picked out are finitely many.
LEMMA PositionsAreFinite ==
  ASSUME NEW n \in Nat, NEW S \in SUBSET (1 .. n)
  PROVE  IsFiniteSet(S) /\ Cardinality(S) \in Nat
<1>1. IsFiniteSet(1 .. n)
  BY FS_Interval
<1>2. IsFiniteSet(S)
  BY <1>1, FS_Subset
<1>3. QED
  BY <1>2, FS_CardinalityType

\* Two sets that can be paired off have as many members.
LEMMA PairedOff ==
  ASSUME NEW S, NEW T, IsFiniteSet(S), NEW f \in [S -> T],
         \A x, y \in S : f[x] = f[y] => x = y, \A y \in T : \E x \in S : f[x] = y
  PROVE  Cardinality(T) = Cardinality(S)
<1>1. f \in Bijection(S, T)
  BY DEF Bijection, Injection, Surjection, IsInjective
<1>2. QED
  BY <1>1, FS_Bijection DEF ExistsBijection

\* The first member of a set of positions.
LEMMA FirstOne ==
  ASSUME NEW S \in SUBSET Nat, S # {}
  PROVE  \E m \in S : \A j \in S : m <= j
<1>1. PICK m \in S : \A j \in S : <<j, m>> \notin OpToRel(<, Nat)
  BY WFMin, NatLessThanWellFounded
<1>2. \A j \in S : ~(j < m)
  BY <1>1 DEF OpToRel
<1>3. QED
  BY <1>2

\* What an answer adds to the answers of a kind.
LEMMA AnswerIsAdded ==
  ASSUME NEW given \in Seq(Decisions), NEW d \in Decisions, NEW kind \in Kinds
  PROVE  AskedIn(kind, Append(given, d)) =
           IF AsksFor(d, kind) THEN AskedIn(kind, given) \union {Len(given) + 1} ELSE AskedIn(kind, given)
<1>1. /\ Len(given) \in Nat /\ Len(Append(given, d)) = Len(given) + 1
      /\ \A k \in 1 .. Len(given) : Append(given, d)[k] = given[k]
      /\ Append(given, d)[Len(given) + 1] = d
  BY AppendProperties
<1> HIDE DEF AsksFor
<1>2. \A k : k \in 1 .. Len(given) + 1 <=> k \in 1 .. Len(given) \/ k = Len(given) + 1
  BY <1>1
<1>3. Len(given) + 1 \notin 1 .. Len(given)
  BY <1>1
<1>4. \A k : k \in AskedIn(kind, Append(given, d)) <=>
               k \in AskedIn(kind, given) \/ (k = Len(given) + 1 /\ AsksFor(d, kind))
  BY <1>1, <1>2, <1>3 DEF AskedIn
<1>5. QED
  BY <1>4

\* What an answer adds to the approvals of a kind.
LEMMA ApprovalsAreAdded ==
  ASSUME NEW given \in Seq(Effects \union Rejections), NEW d \in Decisions, NEW r \in Repos,
         NEW kind \in Kinds
  PROVE  LET longer == given \o ActionApprovals(d, r)
         IN IF AsksFor(d, kind)
            THEN \E i \in Nat \ OfKind(kind, given) : OfKind(kind, longer) = OfKind(kind, given) \union {i}
            ELSE OfKind(kind, longer) = OfKind(kind, given)
<1> DEFINE added == ActionApprovals(d, r)
           longer == given \o added
           n == Len(given)
<1>1. added \in Seq(Effects \union Rejections) /\ Len(added) \in Nat /\ n \in Nat
  BY AnswerGivesApprovals
<1>2. /\ Len(longer) = n + Len(added)
      /\ \A i \in 1 .. n : longer[i] = given[i]
      /\ \A i \in 1 .. Len(added) : longer[n + i] = added[i]
  BY <1>1, ConcatProperties
<1> HIDE DEF added, longer, n
<1>3. CASE d # "both"
  <2>1. Len(added) = 1
    BY <1>3, AnswerGivesApprovals DEF added
  <2>2. added[1].decision = d
    BY <1>3, Zenon DEF added, ActionApprovals, Star, Follow, Reject, Decisions
  <2>3. QED
    BY <1>1, <1>2, <1>3, <2>1, <2>2 DEF OfKind, AsksFor, n, longer, added
<1>4. CASE d = "both"
  <2>1. added = <<Star(r), Follow(r)>>
    BY <1>4, Zenon DEF added, ActionApprovals
  <2>2. Len(added) = 2 /\ added[1].decision = "star" /\ added[2].decision = "follow"
    BY <2>1 DEF Star, Follow
  <2>3. QED
    <3>1. /\ Len(longer) = n + 2 /\ longer[n + 1].decision = "star" /\ longer[n + 2].decision = "follow"
      BY <1>1, <1>2, <2>2
    <3>2. \A i : i \in OfKind(kind, longer) <=>
            \/ i \in OfKind(kind, given)
            \/ i = n + 1 /\ kind = "star"
            \/ i = n + 2 /\ kind = "follow"
      <4>1. \A i : i \in 1 .. n + 2 <=> i \in 1 .. n \/ i = n + 1 \/ i = n + 2
        BY <1>1
      <4>2. n + 1 \notin 1 .. n /\ n + 2 \notin 1 .. n /\ n + 1 # n + 2
        BY <1>1
      <4>3. QED
        BY <1>2, <3>1, <4>1, <4>2 DEF OfKind, n
    <3>3. \A i \in OfKind(kind, given) : i # n + 1 /\ i # n + 2
      BY <1>1 DEF OfKind, n
    <3>4. CASE kind = "star"
      <4>1. OfKind(kind, longer) = OfKind(kind, given) \union {n + 1}
        BY <3>2, <3>4
      <4>2. n + 1 \in Nat \ OfKind(kind, given)
        BY <1>1, <3>3
      <4>3. QED
        BY <1>4, <3>4, <4>1, <4>2 DEF AsksFor, longer, added
    <3>5. CASE kind = "follow"
      <4>1. OfKind(kind, longer) = OfKind(kind, given) \union {n + 2}
        BY <3>2, <3>5
      <4>2. n + 2 \in Nat \ OfKind(kind, given)
        BY <1>1, <3>3
      <4>3. QED
        BY <1>4, <3>5, <4>1, <4>2 DEF AsksFor, longer, added
    <3>6. CASE kind = "reject"
      <4>1. OfKind(kind, longer) = OfKind(kind, given)
        BY <3>2, <3>6
      <4>2. QED
        BY <1>4, <3>6, <4>1 DEF AsksFor, longer, added
    <3>7. QED
      BY <3>4, <3>5, <3>6 DEF Kinds
<1>5. QED
  BY <1>3, <1>4

\* Of the approvals of one answer to the whole queue there is one of each kind
\* the answer asks for, for every repository.
LEMMA BulkIsCounted ==
  ASSUME NEW d \in Decisions, NEW kind \in Kinds
  PROVE  Cardinality(OfKind(kind, BulkApprovals(d))) =
           Cardinality(AskedIn(kind, [k \in DOMAIN Ranked |-> d]))
<1> DEFINE n == Len(Ranked)
           A(k) == ActionApprovals(d, Ranked[k])
           given == [k \in 1 .. n |-> d]
           many == BulkApprovals(d)
<1>0. n \in Nat /\ DOMAIN Ranked = 1 .. n /\ \A k \in 1 .. n : Ranked[k] \in Repos
  OBVIOUS
<1>1. Len(given) = n /\ [k \in DOMAIN Ranked |-> d] = given
  BY <1>0
<1>2. AskedIn(kind, given) = IF AsksFor(d, kind) THEN 1 .. n ELSE {}
  BY <1>0, <1>1 DEF AskedIn
<1>3. CASE d # "both"
  <2>1. many = [i \in 1 .. n |-> A(i)[1]]
    BY <1>0, <1>3 DEF BulkApprovals
  <2>2. \A i \in 1 .. n : A(i)[1].decision = d
    <3>1. CASE d = "star"
      BY <3>1 DEF ActionApprovals, Star
    <3>2. CASE d = "follow"
      BY <3>2 DEF ActionApprovals, Follow
    <3>3. CASE d = "reject"
      BY <3>3 DEF ActionApprovals, Reject
    <3>4. QED
      BY <1>3, <3>1, <3>2, <3>3 DEF Decisions
  <2> HIDE DEF A, n, many
  <2>3. Len(many) = n /\ \A i \in 1 .. n : many[i].decision = d
    BY <1>0, <2>1, <2>2
  <2>4. OfKind(kind, many) = IF d = kind THEN 1 .. n ELSE {}
    BY <2>3 DEF OfKind
  <2>5. AsksFor(d, kind) <=> d = kind
    BY <1>3 DEF AsksFor
  <2>6. QED
    BY <1>1, <1>2, <2>4, <2>5 DEF many
<1>4. CASE d = "both"
  <2>1. many = [i \in 1 .. 2 * n |-> A((i + 1) \div 2)[IF i % 2 = 1 THEN 1 ELSE 2]]
    BY <1>4 DEF BulkApprovals
  <2>2. \A k \in 1 .. n : A(k)[1].decision = "star" /\ A(k)[2].decision = "follow"
    <3> SUFFICES ASSUME NEW k \in 1 .. n
                 PROVE  A(k)[1].decision = "star" /\ A(k)[2].decision = "follow"
      OBVIOUS
    <3>1. A(k) = <<Star(Ranked[k]), Follow(Ranked[k])>>
      BY <1>4, Zenon DEF ActionApprovals
    <3>2. Star(Ranked[k]).decision = "star" /\ Follow(Ranked[k]).decision = "follow"
      BY DEF Star, Follow
    <3> HIDE DEF A
    <3>3. QED
      BY <3>1, <3>2
  <2> HIDE DEF A, n, many, given
  <2>3. Len(many) = 2 * n
    BY <1>0, <2>1
  <2>4. \A i \in 1 .. 2 * n : many[i].decision = IF i % 2 = 1 THEN "star" ELSE "follow"
    <3> SUFFICES ASSUME NEW i \in 1 .. 2 * n
                 PROVE  many[i].decision = IF i % 2 = 1 THEN "star" ELSE "follow"
      OBVIOUS
    <3>1. (i + 1) \div 2 \in 1 .. n
      BY <1>0
    <3>2. many[i] = A((i + 1) \div 2)[IF i % 2 = 1 THEN 1 ELSE 2]
      BY <2>1
    <3>3. QED
      BY <2>2, <3>1, <3>2
  <2>5. IsFiniteSet(1 .. n)
    BY <1>0, FS_Interval
  <2>6. CASE kind = "star"
    <3> DEFINE f == [k \in 1 .. n |-> 2 * k - 1]
    <3>1. \A k \in 1 .. n : 2 * k - 1 \in 1 .. 2 * n /\ (2 * k - 1) % 2 = 1
      BY <1>0
    <3>2. \A k \in 1 .. n : f[k] \in OfKind(kind, many)
      BY <2>3, <2>4, <2>6, <3>1 DEF OfKind
    <3>3. \A i \in OfKind(kind, many) : \E k \in 1 .. n : f[k] = i
      <4> SUFFICES ASSUME NEW i \in OfKind(kind, many) PROVE \E k \in 1 .. n : f[k] = i
        OBVIOUS
      <4>1. i \in 1 .. 2 * n /\ i % 2 = 1
        BY <2>3, <2>4, <2>6 DEF OfKind
      <4>2. (i + 1) \div 2 \in 1 .. n /\ 2 * ((i + 1) \div 2) - 1 = i
        BY <1>0, <4>1
      <4>3. QED
        BY <4>2
    <3>4. \A x, y \in 1 .. n : f[x] = f[y] => x = y
      BY <1>0
    <3>5. f \in [1 .. n -> OfKind(kind, many)]
      BY <3>2
    <3> HIDE DEF f
    <3>6. Cardinality(OfKind(kind, many)) = Cardinality(1 .. n)
      BY <2>5, <3>3, <3>4, <3>5, PairedOff
    <3>7. AsksFor(d, kind)
      BY <1>4, <2>6 DEF AsksFor
    <3>8. QED
      BY <1>1, <1>2, <3>6, <3>7 DEF many
  <2>7. CASE kind = "follow"
    <3> DEFINE f == [k \in 1 .. n |-> 2 * k]
    <3>1. \A k \in 1 .. n : 2 * k \in 1 .. 2 * n /\ (2 * k) % 2 # 1
      BY <1>0
    <3>2. \A k \in 1 .. n : f[k] \in OfKind(kind, many)
      BY <2>3, <2>4, <2>7, <3>1 DEF OfKind
    <3>3. \A i \in OfKind(kind, many) : \E k \in 1 .. n : f[k] = i
      <4> SUFFICES ASSUME NEW i \in OfKind(kind, many) PROVE \E k \in 1 .. n : f[k] = i
        OBVIOUS
      <4>1. i \in 1 .. 2 * n /\ i % 2 # 1
        BY <2>3, <2>4, <2>7 DEF OfKind
      <4>2. i \div 2 \in 1 .. n /\ 2 * (i \div 2) = i
        BY <1>0, <4>1
      <4>3. QED
        BY <4>2
    <3>4. \A x, y \in 1 .. n : f[x] = f[y] => x = y
      BY <1>0
    <3>5. f \in [1 .. n -> OfKind(kind, many)]
      BY <3>2
    <3> HIDE DEF f
    <3>6. Cardinality(OfKind(kind, many)) = Cardinality(1 .. n)
      BY <2>5, <3>3, <3>4, <3>5, PairedOff
    <3>7. AsksFor(d, kind)
      BY <1>4, <2>7 DEF AsksFor
    <3>8. QED
      BY <1>1, <1>2, <3>6, <3>7 DEF many
  <2>8. CASE kind = "reject"
    <3>1. OfKind(kind, many) = {}
      BY <2>3, <2>4, <2>8 DEF OfKind
    <3>2. ~AsksFor(d, kind)
      BY <1>4, <2>8 DEF AsksFor
    <3>3. QED
      BY <1>1, <1>2, <3>1, <3>2 DEF many
  <2>9. QED
    BY <2>6, <2>7, <2>8 DEF Kinds
<1>5. QED
  BY <1>3, <1>4

\* Before the first question nothing was answered and nothing is approved.
LEMMA InitRInv == Init => RInv
<1> SUFFICES ASSUME Init PROVE RInv
  OBVIOUS
<1>1. \A kind \in Kinds : OfKind(kind, approvals) = {} /\ AskedIn(kind, answers) = {}
  BY DEF Init, OfKind, AskedIn
<1>2. QED
  BY <1>1, InitIInv DEF RInv, EveryAnswerCounts

\* No step answers for an approval that is not given, or gives one unasked.
LEMMA NextEveryAnswerCounts ==
  ASSUME RInv, [Next]_vars
  PROVE  EveryAnswerCounts'
<1> SUFFICES ASSUME NEW kind \in Kinds
             PROVE  Cardinality(OfKind(kind, approvals')) = Cardinality(AskedIn(kind, answers'))
  BY DEF EveryAnswerCounts
<1>1. /\ answers \in Seq(Decisions) /\ approvals \in Seq(Effects \union Rejections)
      /\ LoopsAreInBounds
      /\ Cardinality(OfKind(kind, approvals)) = Cardinality(AskedIn(kind, answers))
  BY DEF RInv, IInv, TypeOK, EveryAnswerCounts, Rejections
<1>2. ASSUME NEW d \in Decisions, Answer(d)
      PROVE  Cardinality(OfKind(kind, approvals')) = Cardinality(AskedIn(kind, answers'))
  <2> DEFINE r == Ranked[Len(answers) + 1]
  <2>1. r \in Repos
    BY <1>1, <1>2 DEF Answer, Goto, LoopsAreInBounds
  <2>2. answers' = Append(answers, d) /\ approvals' = approvals \o ActionApprovals(d, r)
    BY <1>2 DEF Answer
  <2> HIDE DEF r
  <2>3. AskedIn(kind, answers') =
          IF AsksFor(d, kind) THEN AskedIn(kind, answers) \union {Len(answers) + 1}
          ELSE AskedIn(kind, answers)
    BY <1>1, <2>2, AnswerIsAdded
  <2>4. IF AsksFor(d, kind)
        THEN \E i \in Nat \ OfKind(kind, approvals) :
               OfKind(kind, approvals') = OfKind(kind, approvals) \union {i}
        ELSE OfKind(kind, approvals') = OfKind(kind, approvals)
    BY <1>1, <2>1, <2>2, ApprovalsAreAdded
  <2>5. CASE AsksFor(d, kind)
    <3>1. PICK i \in Nat \ OfKind(kind, approvals) :
                 OfKind(kind, approvals') = OfKind(kind, approvals) \union {i}
      BY <2>4, <2>5
    <3>2. IsFiniteSet(OfKind(kind, approvals)) /\ IsFiniteSet(AskedIn(kind, answers))
      <4>1. Len(approvals) \in Nat /\ Len(answers) \in Nat
        BY <1>1
      <4>2. /\ OfKind(kind, approvals) \in SUBSET (1 .. Len(approvals))
            /\ AskedIn(kind, answers) \in SUBSET (1 .. Len(answers))
        BY DEF OfKind, AskedIn
      <4>3. QED
        BY <4>1, <4>2, PositionsAreFinite
    <3>3. Cardinality(OfKind(kind, approvals')) = Cardinality(OfKind(kind, approvals)) + 1
      BY <3>1, <3>2, FS_AddElement
    <3>4. Len(answers) + 1 \notin AskedIn(kind, answers)
      BY <1>1 DEF AskedIn
    <3>5. Cardinality(AskedIn(kind, answers')) = Cardinality(AskedIn(kind, answers)) + 1
      BY <2>3, <2>5, <3>2, <3>4, FS_AddElement
    <3>6. QED
      BY <1>1, <3>3, <3>5
  <2>6. CASE ~AsksFor(d, kind)
    BY <1>1, <2>3, <2>4, <2>6
  <2>7. QED
    BY <2>5, <2>6
<1>3. ASSUME NEW d \in Decisions, AnswerAll(d)
      PROVE  Cardinality(OfKind(kind, approvals')) = Cardinality(AskedIn(kind, answers'))
  <2>1. answers' = [k \in DOMAIN Ranked |-> d] /\ approvals' = BulkApprovals(d)
    BY <1>3 DEF AnswerAll
  <2>2. QED
    BY <2>1, BulkIsCounted
<1>4. CASE ~Answering
  BY <1>1, <1>4, ApprovalsAreFixed DEF RInv
<1>5. QED
  BY <1>2, <1>3, <1>4 DEF Answering

\* No step breaks RInv.
LEMMA NextRInv == RInv /\ [Next]_vars => RInv'
<1>1. RInv /\ [Next]_vars => IInv'
  BY NextTypeOK, NextConsent, NextIntentFirst, NextWritesAreAuthorised, NextLoopsAreInBounds
     DEF RInv, IInv
<1>2. QED
  BY <1>1, NextEveryAnswerCounts DEF RInv

\* The lines of a decision are those of the approvals that speak for it.
LEMMA LinesOf ==
  ASSUME NEW bulk \in BOOLEAN, NEW limit \in Nat, NEW d
  PROVE  /\ DOMAIN IntentLines(bulk, limit) = Speakers(bulk, limit)
         /\ \A i \in Speakers(bulk, limit) : IntentLines(bulk, limit)[i] = Line(bulk, limit, i)
         /\ \A i : i \in SaidIn(IntentLines(bulk, limit), d) <=> i \in Speakers(bulk, limit) /\ i \in Those(d)
<1>1. \A i : Line(bulk, limit, i).decision = approvals[i].decision
  BY DEF Line
<1>2. DOMAIN IntentLines(bulk, limit) = Speakers(bulk, limit)
  BY DEF IntentLines
<1>3. \A i \in Speakers(bulk, limit) : IntentLines(bulk, limit)[i] = Line(bulk, limit, i)
  BY DEF IntentLines
<1>4. Speakers(bulk, limit) \subseteq Indices
  BY DEF Speakers
<1>5. QED
  BY <1>1, <1>2, <1>3, <1>4 DEF SaidIn, Those

\* Where no approval of a decision is collapsed each has a line that names it.
LEMMA NamedOneByOne ==
  ASSUME TypeOK, NEW bulk \in BOOLEAN, NEW limit \in Nat, NEW d,
         \A i \in Those(d) : ~Collapsed(bulk, limit, i)
  PROVE  LET lines == IntentLines(bulk, limit)
             said  == SaidIn(lines, d)
         IN /\ Cardinality(Counted(lines, said)) = Cardinality(Those(d))
            /\ \A i \in Those(d) : \E l \in said : lines[l].targets \in {{}, {approvals[i].target}}
<1> DEFINE lines == IntentLines(bulk, limit)
           said == SaidIn(lines, d)
<1>1. Those(d) \subseteq Indices
  BY DEF Those
<1>2. \A i \in Those(d) : i \in Speakers(bulk, limit)
  BY <1>1 DEF Speakers
<1>3. said = Those(d)
  <2>1. \A i : i \in said <=> i \in Speakers(bulk, limit) /\ i \in Those(d)
    BY LinesOf
  <2> HIDE DEF said
  <2>2. QED
    BY <1>2, <2>1
<1>4. \A l \in Those(d) : lines[l] = Line(bulk, limit, l)
  BY <1>2, LinesOf
<1>5. \A l \in Those(d) : lines[l].count = 1 /\ lines[l].targets = {approvals[l].target}
  <2> SUFFICES ASSUME NEW l \in Those(d)
               PROVE  lines[l].count = 1 /\ lines[l].targets = {approvals[l].target}
    OBVIOUS
  <2>1. Line(bulk, limit, l) =
          [decision |-> approvals[l].decision, targets |-> {approvals[l].target}, count |-> 1]
    BY DEF Line
  <2> HIDE DEF lines
  <2>2. QED
    BY <1>4, <2>1
<1> HIDE DEF lines, said
<1>6. IsFiniteSet(Those(d))
  <2>1. Len(approvals) \in Nat
    BY DEF TypeOK
  <2>2. QED
    BY <1>1, <2>1, PositionsAreFinite DEF Indices
<1> DEFINE f == [l \in Those(d) |-> <<l, 1>>]
<1>7. \A x : x \in Counted(lines, said) <=> \E l \in Those(d) : x = <<l, 1>>
  <2>1. \A x : x \in Counted(lines, said) <=> \E l \in said : x \in {l} \X (1 .. lines[l].count)
    BY DEF Counted
  <2>2. \A l \in Those(d) : \A x : x \in {l} \X (1 .. lines[l].count) <=> x = <<l, 1>>
    BY <1>5
  <2>3. QED
    BY <1>3, <2>1, <2>2
<1>8. f \in [Those(d) -> Counted(lines, said)]
  BY <1>7
<1>9. (\A x, y \in Those(d) : f[x] = f[y] => x = y)
      /\ \A y \in Counted(lines, said) : \E x \in Those(d) : f[x] = y
  BY <1>7
<1> HIDE DEF f
<1>10. Cardinality(Counted(lines, said)) = Cardinality(Those(d))
  BY <1>6, <1>8, <1>9, PairedOff
<1>11. QED
  BY <1>3, <1>5, <1>10 DEF lines, said

\* The approvals of a decision that is collapsed have one line, which counts them.
LEMMA CountedTogether ==
  ASSUME TypeOK, NEW limit \in Nat, NEW d, Cardinality(Those(d)) > limit
  PROVE  LET lines == IntentLines(TRUE, limit)
             said  == SaidIn(lines, d)
         IN /\ Cardinality(Counted(lines, said)) = Cardinality(Those(d))
            /\ \A i \in Those(d) : \E l \in said : lines[l].targets \in {{}, {approvals[i].target}}
<1> DEFINE lines == IntentLines(TRUE, limit)
           said == SaidIn(lines, d)
           n == Cardinality(Those(d))
<1>1. Those(d) \subseteq Indices
  BY DEF Those
<1>2. Len(approvals) \in Nat
  BY DEF TypeOK
<1>3. IsFiniteSet(Those(d)) /\ n \in Nat
  BY <1>1, <1>2, PositionsAreFinite DEF Indices
<1>4. Those(d) # {}
  BY <1>3, FS_EmptySet
<1>5. PICK m \in Those(d) : \A j \in Those(d) : m <= j
  BY <1>1, <1>4, FirstOne DEF Indices
<1>6. \A i \in Those(d) : Group(TRUE, i) = Those(d)
  BY DEF Group, SameKey, Those
<1>7. \A i \in Those(d) : Collapsed(TRUE, limit, i)
  BY <1>6 DEF Collapsed
<1>8. \A i \in Those(d) : i \in Speakers(TRUE, limit) <=> i = m
  <2>1. \A i \in Those(d) : i \in Speakers(TRUE, limit) <=> \A j \in Those(d) : i <= j
    BY <1>1, <1>6, <1>7 DEF Speakers
  <2>2. \A i \in Those(d) : i \in Nat
    BY <1>1 DEF Indices
  <2>3. \A i \in Those(d) : (\A j \in Those(d) : i <= j) => i <= m /\ m <= i
    BY <1>5
  <2>4. \A i \in Those(d) : (\A j \in Those(d) : i <= j) => i = m
    BY <1>5, <2>2, <2>3
  <2>5. QED
    BY <1>5, <2>1, <2>4
<1>9. said = {m}
  <2>1. \A i : i \in said <=> i \in Speakers(TRUE, limit) /\ i \in Those(d)
    BY LinesOf
  <2> HIDE DEF said
  <2>2. \A i : i \in said <=> i = m
    BY <1>5, <1>8, <2>1
  <2>3. QED
    BY <2>2
<1>10. lines[m].count = n /\ lines[m].targets = {}
  <2>1. lines[m] = Line(TRUE, limit, m)
    BY <1>8, LinesOf
  <2>2. Line(TRUE, limit, m) = [decision |-> approvals[m].decision, targets |-> {}, count |-> n]
    BY <1>6, <1>7 DEF Line
  <2> HIDE DEF lines, n
  <2>3. lines[m] = [decision |-> approvals[m].decision, targets |-> {}, count |-> n]
    BY <2>1, <2>2
  <2>4. QED
    BY <2>3
<1> HIDE DEF lines, said, n
<1> DEFINE f == [c \in 1 .. n |-> <<m, c>>]
<1>11. \A x : x \in Counted(lines, said) <=> \E c \in 1 .. n : x = <<m, c>>
  <2>1. \A x : x \in Counted(lines, said) <=> x \in {m} \X (1 .. n)
    BY <1>9, <1>10 DEF Counted
  <2>2. QED
    BY <2>1
<1>12. f \in [1 .. n -> Counted(lines, said)]
  BY <1>11
<1>13. (\A x, y \in 1 .. n : f[x] = f[y] => x = y)
       /\ \A y \in Counted(lines, said) : \E x \in 1 .. n : f[x] = y
  BY <1>11
<1> HIDE DEF f
<1>14. IsFiniteSet(1 .. n) /\ Cardinality(1 .. n) = n
  BY <1>3, FS_Interval
<1>15. Cardinality(Counted(lines, said)) = n
  BY <1>12, <1>13, <1>14, PairedOff
<1>16. QED
  BY <1>9, <1>10, <1>15 DEF lines, said, n

\* Whatever is collapsed, the lines account for each decision once.
LEMMA EveryDecisionIsSaid == TypeOK => IntentCountsEveryDecision
<1> SUFFICES ASSUME TypeOK, NEW bulk \in BOOLEAN, NEW limit \in Nat, NEW d
             PROVE  LET lines == IntentLines(bulk, limit)
                        said  == SaidIn(lines, d)
                    IN /\ Cardinality(Counted(lines, said)) = Cardinality(Those(d))
                       /\ \A i \in Those(d) : \E l \in said : lines[l].targets \in {{}, {approvals[i].target}}
  <2>1. Limits \subseteq Nat /\ Ways \subseteq BOOLEAN
    BY LimitsArePositive DEF Ways
  <2>2. QED
    BY <2>1, Zenon DEF IntentCountsEveryDecision
<1>1. CASE bulk /\ Cardinality(Those(d)) > limit
  BY <1>1, CountedTogether
<1>2. CASE ~(bulk /\ Cardinality(Those(d)) > limit)
  <2>1. ASSUME NEW i \in Those(d) PROVE ~Collapsed(bulk, limit, i)
    <3>1. bulk => Group(bulk, i) = Those(d)
      BY DEF Group, SameKey, Those
    <3>2. QED
      BY <1>2, <3>1 DEF Collapsed
  <2>2. QED
    BY <2>1, NamedOneByOne
<1>3. QED
  BY <1>1, <1>2

\* After one answer to the whole queue there are as many approvals of a kind, if
\* there is one, as there are repositories in the queue.
LEMMA GroupIsTheQueue ==
  ASSUME RInv, OneAnswer, NEW i \in Indices
  PROVE  Cardinality(Group(TRUE, i)) = Len(Ranked)
<1> DEFINE kind == approvals[i].decision
<1>1. /\ answers \in Seq(Decisions) /\ approvals \in Seq(Effects \union Rejections)
      /\ EveryAnswerCounts
  BY DEF RInv, IInv, TypeOK, Rejections
<1>2. kind \in Kinds
  <2>1. approvals[i] \in Effects \union Rejections
    BY <1>1 DEF Indices
  <2>2. QED
    BY <2>1 DEF Effects, Stars, Follows, Rejections, Kinds
<1>3. Group(TRUE, i) = OfKind(kind, approvals)
  BY DEF Group, SameKey, OfKind, Indices
<1>4. i \in OfKind(kind, approvals)
  BY DEF OfKind, Indices
<1> HIDE DEF kind
<1>5. Cardinality(OfKind(kind, approvals)) = Cardinality(AskedIn(kind, answers))
  BY <1>1, <1>2 DEF EveryAnswerCounts
<1>6. Len(approvals) \in Nat /\ Len(answers) \in Nat /\ Len(answers) = Len(Ranked)
  BY <1>1 DEF OneAnswer
<1>7. AskedIn(kind, answers) # {}
  <2>1. IsFiniteSet(OfKind(kind, approvals)) /\ IsFiniteSet(AskedIn(kind, answers))
    <3>1. /\ OfKind(kind, approvals) \in SUBSET (1 .. Len(approvals))
          /\ AskedIn(kind, answers) \in SUBSET (1 .. Len(answers))
      BY DEF OfKind, AskedIn
    <3>2. QED
      BY <1>6, <3>1, PositionsAreFinite
  <2>2. Cardinality(OfKind(kind, approvals)) # 0
    BY <1>4, <2>1, FS_EmptySet
  <2>3. QED
    BY <1>5, <2>1, <2>2, FS_EmptySet
<1>8. AskedIn(kind, answers) = 1 .. Len(answers)
  <2>1. \A j, k \in 1 .. Len(answers) : answers[j] = answers[k]
    BY <1>1 DEF OneAnswer
  <2> HIDE DEF AsksFor
  <2>2. QED
    BY <1>7, <2>1 DEF AskedIn
<1>9. Cardinality(1 .. Len(answers)) = Len(answers)
  <2>1. \A m \in Nat : Cardinality(1 .. m) = m
    BY FS_Interval
  <2>2. QED
    BY <1>6, <2>1
<1>10. QED
  BY <1>3, <1>5, <1>6, <1>8, <1>9

\* The prompt and the lines leave out the same repositories.
LEMMA OmittedIsSaid == RInv => WhatIsOmittedIsCounted
<1> SUFFICES ASSUME RInv, OneAnswer, NEW limit \in Limits, NEW k \in DOMAIN IntentLines(TRUE, limit)
             PROVE  LET line == IntentLines(TRUE, limit)[k]
                    IN /\ Omitted(limit) > 0 <=> line.targets = {}
                       /\ line.targets = {} => line.count = limit + Omitted(limit)
  BY DEF WhatIsOmittedIsCounted
<1> DEFINE n == Len(Ranked)
           line == IntentLines(TRUE, limit)[k]
<1>1. limit \in Nat /\ n \in Nat
  BY LimitsArePositive
<1>2. k \in Speakers(TRUE, limit) /\ line = Line(TRUE, limit, k)
  BY <1>1, LinesOf
<1>3. k \in Indices
  BY <1>2 DEF Speakers
<1>4. Cardinality(Group(TRUE, k)) = n
  BY <1>3, GroupIsTheQueue
<1>5. Omitted(limit) = IF n <= limit THEN 0 ELSE n - limit
  BY <1>1 DEF Omitted, LinesKept
<1> HIDE DEF n, line
<1>6. CASE n > limit
  <2>1. Line(TRUE, limit, k) = [decision |-> approvals[k].decision, targets |-> {}, count |-> n]
    BY <1>4, <1>6 DEF Line, Collapsed
  <2>2. line.targets = {} /\ line.count = n
    <3>1. line = [decision |-> approvals[k].decision, targets |-> {}, count |-> n]
      BY <1>2, <2>1, Zenon
    <3>2. QED
      BY <3>1
  <2>3. Omitted(limit) > 0 /\ limit + Omitted(limit) = n
    BY <1>1, <1>5, <1>6
  <2>4. QED
    BY <2>2, <2>3 DEF line
<1>7. CASE ~(n > limit)
  <2>1. Line(TRUE, limit, k) =
          [decision |-> approvals[k].decision, targets |-> {approvals[k].target}, count |-> 1]
    BY <1>4, <1>7 DEF Line, Collapsed
  <2>2. line.targets # {}
    <3>1. line = [decision |-> approvals[k].decision, targets |-> {approvals[k].target}, count |-> 1]
      BY <1>2, <2>1, Zenon
    <3>2. QED
      BY <3>1
  <2>3. ~(Omitted(limit) > 0)
    BY <1>1, <1>5, <1>7
  <2>4. QED
    BY <2>2, <2>3 DEF line
<1>8. QED
  BY <1>6, <1>7

\* RInv holds in every reachable state, for every queue: each answer has given
\* one approval of each kind it asks for.
THEOREM AnswersAreCounted == Spec => []RInv
<1>1. QED
  BY InitRInv, NextRInv, PTL DEF Spec

\* render_decisions and _bounded_listing: whatever the limit, the intent names or
\* counts every decision of the session once, and after one answer to the whole
\* queue the prompt it quotes leaves out as many rows as its lines leave unnamed.
THEOREM IntentSaysItAll == Spec => []IntentIsComplete
<1>1. RInv => IntentIsComplete
  BY EveryDecisionIsSaid, OmittedIsSaid DEF RInv, IInv, IntentIsComplete
<1>2. QED
  BY AnswersAreCounted, <1>1, PTL

-----------------------------------------------------------------------------
(* A session ends: the bound that each step brings down. *)

\* How many of n approvals a loop at i has still to come to.
ToCome(i, n) == IF i <= n THEN n + 1 - i ELSE 0

\* The steps main() may still take at a stage, with n approvals and m performed: what
\* is performed takes two steps more to undo.
StepsFrom(stage, i, n, m) ==
  IF stage = "intent" THEN 2 * m + 5 * n + 10
  ELSE IF stage = "act" THEN 2 * m + 5 * ToCome(i, n) + 4
  ELSE IF stage = "record success" THEN 2 * m + 5 * ToCome(i, n) + 1
  ELSE IF stage = "record call failure" THEN 2 * m + 5 * ToCome(i, n) + 3
  ELSE IF stage = "skip" THEN 2 * m + ToCome(i, n) + 3
  ELSE IF stage = "undo" THEN 2 * i + 2
  ELSE IF stage \in {"record compensated", "record not compensated"} THEN 2 * i + 1
  ELSE IF stage = "store" THEN 1
  ELSE 0

StepsLeft == StepsFrom(pc, next, Len(approvals), Len(performed))

\* With its answers, main() comes nearer to its end by each step, whatever fails.
SessionGetsShorter ==
  [][pc \notin {"start", "asking"} =>
       /\ StepsLeft' \in Nat /\ StepsLeft' <= StepsLeft
       /\ Work => StepsLeft' < StepsLeft]_vars

\* What a loop has still to come to is a number; an approval at hand is one of it.
LEMMA WhatIsToCome ==
  ASSUME NEW i \in Nat, NEW n \in Nat
  PROVE  /\ ToCome(i, n) \in Nat /\ ToCome(i, n) <= n + 1
         /\ i \in 1 .. n => ToCome(i, n) = ToCome(i + 1, n) + 1
BY DEF ToCome

\* The bound is a number at every stage.
LEMMA StepsAreANumber ==
  ASSUME NEW stage, NEW i \in Nat, NEW n \in Nat, NEW m \in Nat
  PROVE  StepsFrom(stage, i, n, m) \in Nat
<1>1. ToCome(i, n) \in Nat
  BY WhatIsToCome
<1>2. /\ 2 * m + 5 * n + 10 \in Nat
      /\ 2 * m + 5 * ToCome(i, n) + 4 \in Nat
      /\ 2 * m + 5 * ToCome(i, n) + 1 \in Nat
      /\ 2 * m + 5 * ToCome(i, n) + 3 \in Nat
      /\ 2 * m + ToCome(i, n) + 3 \in Nat
      /\ 2 * i + 2 \in Nat /\ 2 * i + 1 \in Nat /\ 1 \in Nat /\ 0 \in Nat
  BY <1>1
<1> QED
  BY <1>2, Zenon DEF StepsFrom

\* The bound falls when the loop of the actions begins and with each call.
LEMMA StepsFall ==
  ASSUME NEW i \in Nat, NEW n \in Nat, NEW m \in Nat
  PROVE  /\ StepsFrom("act", i, n, m) < StepsFrom("intent", i, n, m)
         /\ StepsFrom("record success", i, n, m + 1) < StepsFrom("act", i, n, m)
         /\ StepsFrom("record call failure", i, n, m) < StepsFrom("act", i, n, m)
<1>1. ToCome(i, n) \in Nat /\ ToCome(i, n) <= n + 1
  BY WhatIsToCome
<1>2. StepsFrom("act", i, n, m) < StepsFrom("intent", i, n, m)
  <2>1. StepsFrom("act", i, n, m) = 2 * m + 5 * ToCome(i, n) + 4
    BY DEF StepsFrom
  <2>2. StepsFrom("intent", i, n, m) = 2 * m + 5 * n + 10
    BY DEF StepsFrom
  <2>3. 2 * m + 5 * ToCome(i, n) + 4 < 2 * m + 5 * n + 10
    BY <1>1
  <2> QED
    BY <2>1, <2>2, <2>3, Zenon
<1>3. StepsFrom("record success", i, n, m + 1) < StepsFrom("act", i, n, m)
  <2>1. StepsFrom("record success", i, n, m + 1) = 2 * (m + 1) + 5 * ToCome(i, n) + 1
    BY DEF StepsFrom
  <2>2. StepsFrom("act", i, n, m) = 2 * m + 5 * ToCome(i, n) + 4
    BY DEF StepsFrom
  <2>3. 2 * (m + 1) + 5 * ToCome(i, n) + 1 < 2 * m + 5 * ToCome(i, n) + 4
    BY <1>1
  <2> QED
    BY <2>1, <2>2, <2>3, Zenon
<1>4. StepsFrom("record call failure", i, n, m) < StepsFrom("act", i, n, m)
  <2>1. StepsFrom("record call failure", i, n, m) = 2 * m + 5 * ToCome(i, n) + 3
    BY DEF StepsFrom
  <2>2. StepsFrom("act", i, n, m) = 2 * m + 5 * ToCome(i, n) + 4
    BY DEF StepsFrom
  <2>3. 2 * m + 5 * ToCome(i, n) + 3 < 2 * m + 5 * ToCome(i, n) + 4
    BY <1>1
  <2> QED
    BY <2>1, <2>2, <2>3, Zenon
<1> QED
  BY <1>2, <1>3, <1>4

\* With the approval at hand behind it, the bound has fallen.
LEMMA StepsFallInTheLoop ==
  ASSUME NEW n \in Nat, NEW m \in Nat, NEW i \in 1 .. n
  PROVE  /\ StepsFrom("act", i + 1, n, m) < StepsFrom("act", i, n, m)
         /\ StepsFrom("skip", i + 1, n, m) < StepsFrom("skip", i, n, m)
         /\ StepsFrom("act", i + 1, n, m) < StepsFrom("record success", i, n, m)
         /\ StepsFrom("skip", i + 1, n, m) < StepsFrom("record success", i, n, m)
         /\ StepsFrom("skip", i + 1, n, m) < StepsFrom("record call failure", i, n, m)
<1>1. ToCome(i + 1, n) \in Nat /\ ToCome(i, n) = ToCome(i + 1, n) + 1
  <2>1. i \in Nat /\ i + 1 \in Nat
    OBVIOUS
  <2> QED
    BY <2>1, WhatIsToCome
<1>2. StepsFrom("act", i + 1, n, m) < StepsFrom("act", i, n, m)
  <2>1. StepsFrom("act", i + 1, n, m) = 2 * m + 5 * ToCome(i + 1, n) + 4
    BY DEF StepsFrom
  <2>2. StepsFrom("act", i, n, m) = 2 * m + 5 * ToCome(i, n) + 4
    BY DEF StepsFrom
  <2>3. 2 * m + 5 * ToCome(i + 1, n) + 4 < 2 * m + 5 * ToCome(i, n) + 4
    BY <1>1
  <2> QED
    BY <2>1, <2>2, <2>3, Zenon
<1>3. StepsFrom("skip", i + 1, n, m) < StepsFrom("skip", i, n, m)
  <2>1. StepsFrom("skip", i + 1, n, m) = 2 * m + ToCome(i + 1, n) + 3
    BY DEF StepsFrom
  <2>2. StepsFrom("skip", i, n, m) = 2 * m + ToCome(i, n) + 3
    BY DEF StepsFrom
  <2>3. 2 * m + ToCome(i + 1, n) + 3 < 2 * m + ToCome(i, n) + 3
    BY <1>1
  <2> QED
    BY <2>1, <2>2, <2>3, Zenon
<1>4. StepsFrom("act", i + 1, n, m) < StepsFrom("record success", i, n, m)
  <2>1. StepsFrom("act", i + 1, n, m) = 2 * m + 5 * ToCome(i + 1, n) + 4
    BY DEF StepsFrom
  <2>2. StepsFrom("record success", i, n, m) = 2 * m + 5 * ToCome(i, n) + 1
    BY DEF StepsFrom
  <2>3. 2 * m + 5 * ToCome(i + 1, n) + 4 < 2 * m + 5 * ToCome(i, n) + 1
    BY <1>1
  <2> QED
    BY <2>1, <2>2, <2>3, Zenon
<1>5. StepsFrom("skip", i + 1, n, m) < StepsFrom("record success", i, n, m)
  <2>1. StepsFrom("skip", i + 1, n, m) = 2 * m + ToCome(i + 1, n) + 3
    BY DEF StepsFrom
  <2>2. StepsFrom("record success", i, n, m) = 2 * m + 5 * ToCome(i, n) + 1
    BY DEF StepsFrom
  <2>3. 2 * m + ToCome(i + 1, n) + 3 < 2 * m + 5 * ToCome(i, n) + 1
    BY <1>1
  <2> QED
    BY <2>1, <2>2, <2>3, Zenon
<1>6. StepsFrom("skip", i + 1, n, m) < StepsFrom("record call failure", i, n, m)
  <2>1. StepsFrom("skip", i + 1, n, m) = 2 * m + ToCome(i + 1, n) + 3
    BY DEF StepsFrom
  <2>2. StepsFrom("record call failure", i, n, m) = 2 * m + 5 * ToCome(i, n) + 3
    BY DEF StepsFrom
  <2>3. 2 * m + ToCome(i + 1, n) + 3 < 2 * m + 5 * ToCome(i, n) + 3
    BY <1>1
  <2> QED
    BY <2>1, <2>2, <2>3, Zenon
<1> QED
  BY <1>2, <1>3, <1>4, <1>5, <1>6

\* What is left at the end of a loop is less, whatever the loops count.
LEMMA StepsFallAtTheEnd ==
  ASSUME NEW i \in Nat, NEW n \in Nat, NEW m \in Nat, NEW j, NEW k, NEW l
  PROVE  /\ StepsFrom("store", j, k, l) < StepsFrom("intent", i, n, m)
         /\ StepsFrom("store", j, k, l) < StepsFrom("act", i, n, m)
         /\ StepsFrom("store", j, k, l) < StepsFrom("undo", i, n, m)
         /\ StepsFrom("exit", j, k, l) < StepsFrom("store", i, n, m)
<1>1. ToCome(i, n) \in Nat
  BY WhatIsToCome
<1>2. StepsFrom("store", j, k, l) < StepsFrom("intent", i, n, m)
  <2>1. StepsFrom("store", j, k, l) = 1
    BY DEF StepsFrom
  <2>2. StepsFrom("intent", i, n, m) = 2 * m + 5 * n + 10
    BY DEF StepsFrom
  <2>3. 1 < 2 * m + 5 * n + 10
    BY <1>1
  <2> QED
    BY <2>1, <2>2, <2>3, Zenon
<1>3. StepsFrom("store", j, k, l) < StepsFrom("act", i, n, m)
  <2>1. StepsFrom("store", j, k, l) = 1
    BY DEF StepsFrom
  <2>2. StepsFrom("act", i, n, m) = 2 * m + 5 * ToCome(i, n) + 4
    BY DEF StepsFrom
  <2>3. 1 < 2 * m + 5 * ToCome(i, n) + 4
    BY <1>1
  <2> QED
    BY <2>1, <2>2, <2>3, Zenon
<1>4. StepsFrom("store", j, k, l) < StepsFrom("undo", i, n, m)
  <2>1. StepsFrom("store", j, k, l) = 1
    BY DEF StepsFrom
  <2>2. StepsFrom("undo", i, n, m) = 2 * i + 2
    BY DEF StepsFrom
  <2>3. 1 < 2 * i + 2
    BY <1>1
  <2> QED
    BY <2>1, <2>2, <2>3, Zenon
<1>5. StepsFrom("exit", j, k, l) < StepsFrom("store", i, n, m)
  <2>1. StepsFrom("exit", j, k, l) = 0
    BY DEF StepsFrom
  <2>2. StepsFrom("store", i, n, m) = 1
    BY DEF StepsFrom
  <2>3. 0 < 1
    BY <1>1
  <2> QED
    BY <2>1, <2>2, <2>3, Zenon
<1> QED
  BY <1>2, <1>3, <1>4, <1>5

\* The bound falls with each action that is undone, and with its outcome.
LEMMA StepsFallUndoing ==
  ASSUME NEW i \in Nat, NEW n \in Nat, NEW m \in Nat, NEW k, NEW l
  PROVE  /\ StepsFrom("undo", m, k, l) < StepsFrom("skip", i, n, m)
         /\ StepsFrom("record compensated", i, k, l) < StepsFrom("undo", i, n, m)
         /\ StepsFrom("record not compensated", i, k, l) < StepsFrom("undo", i, n, m)
         /\ StepsFrom("undo", i - 1, k, l) < StepsFrom("record compensated", i, n, m)
         /\ StepsFrom("undo", i - 1, k, l) < StepsFrom("record not compensated", i, n, m)
<1>1. ToCome(i, n) \in Nat
  BY WhatIsToCome
<1>2. StepsFrom("undo", m, k, l) < StepsFrom("skip", i, n, m)
  <2>1. StepsFrom("undo", m, k, l) = 2 * m + 2
    BY DEF StepsFrom
  <2>2. StepsFrom("skip", i, n, m) = 2 * m + ToCome(i, n) + 3
    BY DEF StepsFrom
  <2>3. 2 * m + 2 < 2 * m + ToCome(i, n) + 3
    BY <1>1
  <2> QED
    BY <2>1, <2>2, <2>3, Zenon
<1>3. StepsFrom("record compensated", i, k, l) < StepsFrom("undo", i, n, m)
  <2>1. StepsFrom("record compensated", i, k, l) = 2 * i + 1
    BY DEF StepsFrom
  <2>2. StepsFrom("undo", i, n, m) = 2 * i + 2
    BY DEF StepsFrom
  <2>3. 2 * i + 1 < 2 * i + 2
    BY <1>1
  <2> QED
    BY <2>1, <2>2, <2>3, Zenon
<1>4. StepsFrom("record not compensated", i, k, l) < StepsFrom("undo", i, n, m)
  <2>1. StepsFrom("record not compensated", i, k, l) = 2 * i + 1
    BY DEF StepsFrom
  <2>2. StepsFrom("undo", i, n, m) = 2 * i + 2
    BY DEF StepsFrom
  <2>3. 2 * i + 1 < 2 * i + 2
    BY <1>1
  <2> QED
    BY <2>1, <2>2, <2>3, Zenon
<1>5. StepsFrom("undo", i - 1, k, l) < StepsFrom("record compensated", i, n, m)
  <2>1. StepsFrom("undo", i - 1, k, l) = 2 * (i - 1) + 2
    BY DEF StepsFrom
  <2>2. StepsFrom("record compensated", i, n, m) = 2 * i + 1
    BY DEF StepsFrom
  <2>3. 2 * (i - 1) + 2 < 2 * i + 1
    BY <1>1
  <2> QED
    BY <2>1, <2>2, <2>3, Zenon
<1>6. StepsFrom("undo", i - 1, k, l) < StepsFrom("record not compensated", i, n, m)
  <2>1. StepsFrom("undo", i - 1, k, l) = 2 * (i - 1) + 2
    BY DEF StepsFrom
  <2>2. StepsFrom("record not compensated", i, n, m) = 2 * i + 1
    BY DEF StepsFrom
  <2>3. 2 * (i - 1) + 2 < 2 * i + 1
    BY <1>1
  <2> QED
    BY <2>1, <2>2, <2>3, Zenon
<1> QED
  BY <1>2, <1>3, <1>4, <1>5, <1>6

\* Each step of main() brings the bound down.
LEMMA WorkBringsItDown ==
  ASSUME IInv, Work
  PROVE  StepsLeft' < StepsLeft
<1> DEFINE n  == Len(approvals)
           m  == Len(performed)
           n1 == Len(approvals')
           m1 == Len(performed')
<1>n. next \in Nat /\ n \in Nat /\ m \in Nat
  BY DEF IInv, TypeOK
<1>b. StepsLeft = StepsFrom(pc, next, n, m) /\ StepsLeft' = StepsFrom(pc', next', n1, m1)
  BY DEF StepsLeft
<1>a. AtApproval <=> next \in 1 .. n
  BY DEF AtApproval, Indices
<1> HIDE DEF n, m, n1, m1
<1>1. CASE NothingDecided \/ CommitIntent
  <2>1. pc = "intent" /\ pc' = "act" /\ next' = next /\ n1 = n /\ m1 = m
    BY <1>1 DEF NothingDecided, CommitIntent, Goto, session, n, m, n1, m1
  <2>2. StepsFrom("act", next, n, m) < StepsFrom("intent", next, n, m)
    BY <1>n, StepsFall
  <2> QED
    BY <1>b, <2>1, <2>2
<1>2. CASE IntentFails
  <2>1. pc = "intent" /\ pc' = "store"
    BY <1>2 DEF IntentFails, Goto
  <2>2. StepsFrom("store", next', n1, m1) < StepsFrom("intent", next, n, m)
    BY <1>n, StepsFallAtTheEnd
  <2> QED
    BY <1>b, <2>1, <2>2
<1>3. CASE ActRejected \/ SkipRejected \/ RecordNotAttempted
  <2>1. /\ pc \in {"act", "skip"} /\ pc' = pc /\ AtApproval /\ next' = next + 1
        /\ n1 = n /\ m1 = m
    BY <1>3 DEF ActRejected, SkipRejected, RecordNotAttempted, session, n, m, n1, m1
  <2>2. next \in 1 .. n
    BY <1>a, <2>1
  <2>3. /\ StepsFrom("act", next + 1, n, m) < StepsFrom("act", next, n, m)
        /\ StepsFrom("skip", next + 1, n, m) < StepsFrom("skip", next, n, m)
    BY <1>n, <2>2, StepsFallInTheLoop
  <2> QED
    BY <1>b, <2>1, <2>3
<1>4. CASE Perform
  <2>1. pc = "act" /\ pc' = "record success" /\ next' = next /\ n1 = n
    BY <1>4 DEF Perform, Goto, n, n1
  <2>2. performed \in Seq(Nat) /\ performed' = Append(performed, next)
    BY <1>4 DEF Perform, IInv, TypeOK
  <2>3. m1 = m + 1
    BY <1>n, <2>2, AppendProperties DEF m, m1
  <2>4. StepsFrom("record success", next, n, m + 1) < StepsFrom("act", next, n, m)
    BY <1>n, StepsFall
  <2> QED
    BY <1>b, <2>1, <2>3, <2>4
<1>5. CASE PerformFails
  <2>1. /\ pc = "act" /\ pc' = "record call failure" /\ next' = next
        /\ n1 = n /\ m1 = m
    BY <1>5 DEF PerformFails, Goto, session, n, m, n1, m1
  <2>2. StepsFrom("record call failure", next, n, m) < StepsFrom("act", next, n, m)
    BY <1>n, StepsFall
  <2> QED
    BY <1>b, <2>1, <2>2
<1>6. CASE RecordSuccess \/ RecordSuccessFails \/ RecordCallFailure
  <2>1. /\ \/ pc = "record success" /\ pc' \in {"act", "skip"}
           \/ pc = "record call failure" /\ pc' = "skip"
        /\ next' = next + 1 /\ n1 = n /\ m1 = m
    BY <1>6 DEF RecordSuccess, RecordSuccessFails, RecordCallFailure, Goto, session, n, m, n1, m1
  <2>2. next \in 1 .. n
    BY <1>a, <2>1 DEF IInv, LoopsAreInBounds
  <2>3. /\ StepsFrom("act", next + 1, n, m) < StepsFrom("record success", next, n, m)
        /\ StepsFrom("skip", next + 1, n, m) < StepsFrom("record success", next, n, m)
        /\ StepsFrom("skip", next + 1, n, m) < StepsFrom("record call failure", next, n, m)
    BY <1>n, <2>2, StepsFallInTheLoop
  <2> QED
    BY <1>b, <2>1, <2>3
<1>7. CASE AllDone
  <2>1. pc = "act" /\ pc' = "store"
    BY <1>7 DEF AllDone, Goto
  <2>2. StepsFrom("store", next', n1, m1) < StepsFrom("act", next, n, m)
    BY <1>n, StepsFallAtTheEnd
  <2> QED
    BY <1>b, <2>1, <2>2
<1>8. CASE StartUndo
  <2>1. pc = "skip" /\ pc' = "undo" /\ next' = m
    BY <1>8 DEF StartUndo, Goto, m
  <2>2. StepsFrom("undo", m, n1, m1) < StepsFrom("skip", next, n, m)
    BY <1>n, StepsFallUndoing
  <2> QED
    BY <1>b, <2>1, <2>2
<1>9. CASE Undo \/ UndoFails
  <2>1. /\ pc = "undo" /\ pc' \in {"record compensated", "record not compensated"}
        /\ next' = next
    BY <1>9 DEF Undo, UndoFails, Goto
  <2>2. /\ StepsFrom("record compensated", next, n1, m1) < StepsFrom("undo", next, n, m)
        /\ StepsFrom("record not compensated", next, n1, m1) < StepsFrom("undo", next, n, m)
    BY <1>n, StepsFallUndoing
  <2> QED
    BY <1>b, <2>1, <2>2
<1>10. CASE RecordUndo
  <2>1. /\ pc \in {"record compensated", "record not compensated"} /\ pc' = "undo"
        /\ next' = next - 1
    BY <1>10 DEF RecordUndo, Goto
  <2>2. /\ StepsFrom("undo", next - 1, n1, m1) < StepsFrom("record compensated", next, n, m)
        /\ StepsFrom("undo", next - 1, n1, m1) < StepsFrom("record not compensated", next, n, m)
    BY <1>n, StepsFallUndoing
  <2> QED
    BY <1>b, <2>1, <2>2
<1>11. CASE AllUndone
  <2>1. pc = "undo" /\ pc' = "store"
    BY <1>11 DEF AllUndone, Goto
  <2>2. StepsFrom("store", next', n1, m1) < StepsFrom("undo", next, n, m)
    BY <1>n, StepsFallAtTheEnd
  <2> QED
    BY <1>b, <2>1, <2>2
<1>12. CASE StoreRun \/ StoreFails
  <2>1. pc = "store" /\ pc' = "exit"
    BY <1>12 DEF StoreRun, StoreFails, Goto
  <2>2. StepsFrom("exit", next', n1, m1) < StepsFrom("store", next, n, m)
    BY <1>n, StepsFallAtTheEnd
  <2> QED
    BY <1>b, <2>1, <2>2
<1> QED
  BY <1>1, <1>2, <1>3, <1>4, <1>5, <1>6, <1>7, <1>8, <1>9, <1>10, <1>11, <1>12 DEF Work

\* A session that has its answers comes to its end for every queue: each step of
\* main() brings down a bound that nothing raises - no failure, no late call.
THEOREM SessionIsFinite == Spec => SessionGetsShorter
<1>1. ASSUME IInv, IInv', [Next]_vars
      PROVE  [pc \notin {"start", "asking"} =>
                /\ StepsLeft' \in Nat /\ StepsLeft' <= StepsLeft
                /\ Work => StepsLeft' < StepsLeft]_vars
  <2> SUFFICES ASSUME Next, pc \notin {"start", "asking"}
               PROVE  /\ StepsLeft' \in Nat /\ StepsLeft' <= StepsLeft
                      /\ Work => StepsLeft' < StepsLeft
    BY <1>1
  <2>1. StepsLeft \in Nat /\ StepsLeft' \in Nat
    <3>1. next \in Nat /\ Len(approvals) \in Nat /\ Len(performed) \in Nat
      BY <1>1 DEF IInv, TypeOK
    <3>2. next' \in Nat /\ Len(approvals') \in Nat /\ Len(performed') \in Nat
      BY <1>1 DEF IInv, TypeOK
    <3> QED
      BY <3>1, <3>2, StepsAreANumber DEF StepsLeft
  <2>2. CASE Work
    BY <1>1, <2>1, <2>2, WorkBringsItDown
  <2>3. CASE Die /\ ~Work
    <3>1. pc' = "dead"
      BY <2>3 DEF Die
    <3>2. StepsLeft' = 0
      BY <3>1 DEF StepsLeft, StepsFrom
    <3> QED
      BY <2>1, <2>3, <3>2
  <2>4. CASE LandLate /\ ~Work
    <3>1. UNCHANGED <<pc, next, approvals, performed>>
      BY <2>4 DEF LandLate, session
    <3>2. StepsLeft' = StepsLeft
      BY <3>1 DEF StepsLeft
    <3> QED
      BY <2>1, <2>4, <3>2
  <2> QED
    BY <2>2, <2>3, <2>4 DEF Next, NoReview, Ask, Quit, Answer, AnswerAll, Goto
<1> QED
  BY <1>1, InductiveInvariant, PTL DEF Spec, SessionGetsShorter
=============================================================================
