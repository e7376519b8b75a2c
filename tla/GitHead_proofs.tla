--------------------------- MODULE GitHead_proofs ---------------------------
(***************************************************************************)
(* Proofs about GitHead for any set of processes, commits, branches and    *)
(* trees: the inductive invariant IInv, the safety property it implies,    *)
(* the two action properties, and the refinement of DecisionLog.           *)
(***************************************************************************)
EXTENDS GitHead, TLAPS

USE EmptyTreeIsATree, UnbornIsNoSha, SomeBranch

-----------------------------------------------------------------------------
(* Facts about one step. *)

\* Commit objects are immutable: a step may add some, and changes neither the
\* tree nor the ancestors of one that exists (NewObject takes a fresh id).
LEMMA ObjectsImmutable ==
  ASSUME TypeOK, [Next]_vars
  PROVE  /\ objects \subseteq objects'
         /\ \A s \in objects : anc'[s] = anc[s] /\ treeOf'[s] = treeOf[s]
<1>1. ASSUME NEW s \in Shas, NEW t \in Trees, NEW old, NewObject(s, t, old)
      PROVE  /\ objects \subseteq objects'
             /\ \A x \in objects : anc'[x] = anc[x] /\ treeOf'[x] = treeOf[x]
  BY <1>1 DEF NewObject, TypeOK
<1>2. ASSUME NEW p \in Procs, CommitTree(p)
      PROVE  /\ objects \subseteq objects'
             /\ \A x \in objects : anc'[x] = anc[x] /\ treeOf'[x] = treeOf[x]
  BY <1>1, <1>2 DEF CommitTree, TypeOK
<1>3. CASE ExternalCommit
  BY <1>1, <1>3 DEF ExternalCommit
<1>4. CASE UNCHANGED <<objects, anc, treeOf>>
  BY <1>4
<1>5. QED
  BY <1>2, <1>3, <1>4 DEF Next, CallStep, vars, repo, local, Call, ReadHead,
     ReadTree, UpdateRef, Return, Abandon, ExternalSwitch, ExternalOrphan

\* History and tree of a tip that exists are the same after a step.
LEMMA TipsImmutable ==
  ASSUME TypeOK, [Next]_vars, NEW s \in objects \union {Unborn}
  PROVE  /\ s \in objects' \union {Unborn}
         /\ History(s)' = History(s)
         /\ TreeAt(s)' = TreeAt(s)
BY ObjectsImmutable DEF History, TreeAt

\* Being reachable, spelled out.
LEMMA InReachable ==
  /\ \A x : x \in Reachable <=> \E b \in Branches : x \in History(ref[b])
  /\ \A x : x \in Reachable' <=> \E b \in Branches : x \in History(ref[b])'
BY DEF Reachable

\* Only commits that exist are reachable.
LEMMA ReachableExists ==
  ASSUME TipsExist PROVE Reachable \subseteq objects
BY DEF TipsExist, Reachable, History

\* How a branch can move: it stays, gitseed lands a record on the tip it read,
\* somebody commits on top of the tip, or an unborn branch gets its first tip.
LEMMA BranchMoves ==
  ASSUME IInv, [Next]_vars, NEW b \in Branches
  PROVE  \/ ref'[b] = ref[b]
         \/ /\ \E p \in Procs :
                 UpdateRef(p) /\ b = branch /\ ref[b] = parent[p] /\ ref'[b] = sha[p]
         \/ /\ ref'[b] \in Shas \ objects
            /\ own' = own
            /\ anc'[ref'[b]] = {ref'[b]} \union History(ref[b])
         \/ ref[b] = Unborn /\ ref'[b] = ref[branch]
<1> USE DEF IInv, TypeOK
<1>1. ASSUME NEW p \in Procs, UpdateRef(p)
      PROVE  \/ ref'[b] = ref[b]
             \/ b = branch /\ ref[b] = parent[p] /\ ref'[b] = sha[p]
  BY <1>1 DEF UpdateRef
<1>2. ASSUME ExternalCommit
      PROVE  \/ ref'[b] = ref[b]
             \/ /\ ref'[b] \in Shas \ objects
                /\ own' = own
                /\ anc'[ref'[b]] = {ref'[b]} \union History(ref[b])
  BY <1>2 DEF ExternalCommit, NewObject
<1>3. ASSUME NEW c \in Branches, ExternalSwitch(c)
      PROVE  ref'[b] = ref[b] \/ (ref[b] = Unborn /\ ref'[b] = ref[branch])
  BY <1>3 DEF ExternalSwitch
<1>4. CASE UNCHANGED ref
  BY <1>4
<1>5. QED
  BY <1>1, <1>2, <1>3, <1>4 DEF Next, CallStep, vars, repo, local, Call, ReadHead,
     ReadTree, CommitTree, Return, Abandon, ExternalOrphan

\* No step takes a commit out of a branch's history: the compare-and-set of
\* update-ref is what makes the second case of BranchMoves an extension.
LEMMA HistoryGrows ==
  ASSUME IInv, [Next]_vars, NEW b \in Branches
  PROVE  History(ref[b]) \subseteq History(ref[b])'
<1> USE DEF IInv
<1>1. ref[b] \in objects \union {Unborn}
  BY DEF TipsExist
<1>2. History(ref[b]) = (IF ref[b] = Unborn THEN {} ELSE anc'[ref[b]])
  BY <1>1, ObjectsImmutable DEF History
<1>3. CASE ref'[b] = ref[b]
  BY <1>2, <1>3 DEF History
<1>4. ASSUME NEW p \in Procs, UpdateRef(p), b = branch, ref[b] = parent[p], ref'[b] = sha[p]
      PROVE  History(ref[b]) \subseteq History(ref[b])'
  <2>1. pc[p] = "update-ref" /\ anc' = anc
    BY <1>4 DEF UpdateRef, Goto
  <2>2. sha[p] \in Shas /\ anc[sha[p]] = {sha[p]} \union History(parent[p])
    BY <2>1 DEF CallsAreCurrent, TypeOK
  <2>3. QED
    BY <1>4, <2>1, <2>2 DEF History
<1>5. CASE ref'[b] \in Shas \ objects /\ anc'[ref'[b]] = {ref'[b]} \union History(ref[b])
  BY <1>5 DEF History
<1>6. CASE ref[b] = Unborn
  BY <1>6 DEF History
<1>7. QED
  BY <1>3, <1>4, <1>5, <1>6, BranchMoves

\* What is in some branch's history stays in some branch's history.
LEMMA ReachableGrows ==
  ASSUME IInv, [Next]_vars
  PROVE  Reachable \subseteq Reachable'
BY HistoryGrows DEF Reachable

-----------------------------------------------------------------------------
(* The inductive invariant. *)

\* The invariant holds when no process has called the committer yet.
LEMMA InitIInv == Init => IInv
BY DEF Init, IInv, TypeOK, TipsExist, CallsAreCurrent, Stages, Tips

\* TypeOK alone is not inductive: that `commit` returns a sha is part of IInv.
LEMMA NextTypeOK == IInv /\ [Next]_vars => TypeOK'
<1> SUFFICES ASSUME IInv, [Next]_vars PROVE TypeOK'
  OBVIOUS
<1>a. TypeOK
  BY DEF IInv
<1> USE <1>a DEF TypeOK, Stages, Tips, Goto, Hangup
<1>0. ASSUME NEW s \in Tips PROVE TreeAt(s) \in Trees /\ History(s) \subseteq Shas
  BY DEF TreeAt, History
<1>1. ASSUME NEW p \in Procs, Call(p) PROVE TypeOK'
  BY <1>1 DEF Call, repo
<1>2. ASSUME NEW p \in Procs, ReadHead(p) PROVE TypeOK'
  <2>1. PICK head \in {ref[branch], Unborn} : parent' = [parent EXCEPT ![p] = head]
    BY <1>2 DEF ReadHead
  <2>2. QED
    BY <1>2, <2>1 DEF ReadHead, repo
<1>3. ASSUME NEW p \in Procs, ReadTree(p) PROVE TypeOK'
  BY <1>0, <1>3 DEF ReadTree, repo
<1>4. ASSUME NEW s \in Shas, NEW t \in Trees, NEW old \in Tips, NewObject(s, t, old)
      PROVE  /\ objects' \subseteq Shas
             /\ treeOf' \in [Shas -> Trees]
             /\ anc' \in [Shas -> SUBSET Shas]
  BY <1>0, <1>4 DEF NewObject
<1>5. ASSUME NEW p \in Procs, CommitTree(p) PROVE TypeOK'
  <2>1. PICK s \in Shas : /\ NewObject(s, tree[p], parent[p])
                          /\ own' = own \union {s}
                          /\ sha' = [sha EXCEPT ![p] = s]
    BY <1>5 DEF CommitTree
  <2>2. QED
    BY <1>4, <1>5, <2>1 DEF CommitTree
<1>6. ASSUME NEW p \in Procs, UpdateRef(p) PROVE TypeOK'
  BY <1>6 DEF UpdateRef
<1>7. ASSUME NEW p \in Procs, Abandon(p) PROVE TypeOK'
  BY <1>7 DEF Abandon, repo
<1>8. CASE ExternalCommit
  BY <1>4, <1>8 DEF ExternalCommit, local
<1>9. ASSUME NEW b \in Branches, ExternalSwitch(b) \/ ExternalOrphan(b) PROVE TypeOK'
  BY <1>9 DEF ExternalSwitch, ExternalOrphan, local
<1>10. ASSUME NEW p \in Procs, Return(p) PROVE TypeOK'
  <2>1. sha[p] \in Shas
    BY <1>10 DEF Return, IInv, CallsAreCurrent
  <2>2. QED
    BY <1>10, <2>1 DEF Return
<1>11. CASE UNCHANGED vars
  BY <1>11 DEF vars, repo, local
<1>12. QED
  BY <1>1, <1>2, <1>3, <1>5, <1>6, <1>7, <1>8, <1>9, <1>10, <1>11 DEF Next, CallStep

\* A call in flight keeps describing the repository, whatever the other actors
\* do, because what it read is immutable and histories only grow.
LEMMA OthersKeepCallsCurrent ==
  ASSUME IInv, [Next]_vars, NEW p \in Procs,
         pc'[p] = pc[p], parent'[p] = parent[p], tree'[p] = tree[p], sha'[p] = sha[p],
         own \subseteq own'
  PROVE  /\ parent'[p] \in objects' \union {Unborn}
         /\ pc'[p] = "commit-tree" => tree'[p] = TreeAt(parent[p])'
         /\ pc'[p] = "update-ref" =>
              /\ sha'[p] \in own'
              /\ anc'[sha'[p]] = {sha'[p]} \union History(parent[p])'
              /\ treeOf'[sha'[p]] = TreeAt(parent[p])'
         /\ pc'[p] = "return" => sha'[p] \in own' \intersect Reachable'
<1> USE DEF IInv
<1>1. parent[p] \in objects \union {Unborn}
  BY DEF CallsAreCurrent
<1>2. History(parent[p])' = History(parent[p]) /\ TreeAt(parent[p])' = TreeAt(parent[p])
  BY <1>1, ObjectsImmutable DEF History, TreeAt
<1>3. parent'[p] \in objects' \union {Unborn}
  BY <1>1, ObjectsImmutable
<1>4. pc[p] = "update-ref" => sha[p] \in objects
  BY DEF CallsAreCurrent
<1>5. QED
  BY <1>2, <1>3, <1>4, ObjectsImmutable, ReachableGrows DEF CallsAreCurrent

\* A step of p touches only p's own local variables.
LEMMA OnlyOwnLocals ==
  ASSUME TypeOK, NEW p \in Procs, Call(p) \/ CallStep(p) \/ Abandon(p),
         NEW q \in Procs, q # p
  PROVE  pc'[q] = pc[q] /\ parent'[q] = parent[q] /\ tree'[q] = tree[q] /\ sha'[q] = sha[q]
BY DEF TypeOK, CallStep, Call, ReadHead, ReadTree, CommitTree, UpdateRef, Return,
   Abandon, Hangup, Goto, repo

\* A record stays a record: no step takes one out of the object store.
LEMMA OwnGrows ==
  ASSUME [Next]_vars PROVE own \subseteq own'
BY DEF Next, CallStep, vars, repo, local, Call, ReadHead, ReadTree, CommitTree,
   UpdateRef, Return, Abandon, ExternalCommit, ExternalSwitch, ExternalOrphan

\* A branch always points to a commit that is there.
LEMMA NextTipsExist == IInv /\ [Next]_vars => TipsExist'
<1> SUFFICES ASSUME IInv, [Next]_vars PROVE TipsExist'
  OBVIOUS
<1> USE DEF IInv
<1>1. ASSUME NEW b \in Branches PROVE ref'[b] \in objects' \union {Unborn}
  <2>1. ref[b] \in objects \union {Unborn} /\ ref[branch] \in objects \union {Unborn}
    BY DEF TipsExist, TypeOK
  <2>2. ASSUME NEW p \in Procs, UpdateRef(p) PROVE sha[p] \in objects'
    BY <2>2 DEF UpdateRef, Goto, CallsAreCurrent
  <2>3. ASSUME ExternalCommit PROVE ref'[b] \in objects' \union {Unborn}
    BY <2>1, <2>3, ObjectsImmutable DEF ExternalCommit, NewObject, TypeOK
  <2>4. ASSUME NEW p \in Procs, UpdateRef(p) PROVE ref'[b] \in objects' \union {Unborn}
    BY <2>1, <2>2, <2>4, ObjectsImmutable DEF UpdateRef, TypeOK
  <2>5. ASSUME NEW c \in Branches, ExternalSwitch(c) PROVE ref'[b] \in objects' \union {Unborn}
    BY <2>1, <2>5, ObjectsImmutable DEF ExternalSwitch, TypeOK
  <2>6. CASE UNCHANGED ref
    BY <2>1, <2>6, ObjectsImmutable
  <2>7. QED
    BY <2>3, <2>4, <2>5, <2>6 DEF Next, CallStep, vars, repo, local, Call, ReadHead,
       ReadTree, CommitTree, Return, Abandon, ExternalOrphan
<1>2. ASSUME NEW s \in Shas, NEW t, NEW old \in objects \union {Unborn}, NewObject(s, t, old)
      PROVE  \A x \in objects' : x \in anc'[x] /\ anc'[x] \subseteq objects'
  <2>1. History(old) \subseteq objects
    BY DEF History, TipsExist
  <2>2. QED
    BY <1>2, <2>1 DEF NewObject, TipsExist, TypeOK
<1>3. ASSUME UNCHANGED <<objects, anc>> PROVE \A x \in objects' : x \in anc'[x] /\ anc'[x] \subseteq objects'
  BY <1>3 DEF TipsExist
<1>4. ASSUME NEW p \in Procs, CommitTree(p) PROVE \A x \in objects' : x \in anc'[x] /\ anc'[x] \subseteq objects'
  BY <1>2, <1>4 DEF CommitTree, CallsAreCurrent
<1>5. CASE ExternalCommit
  BY <1>1, <1>2, <1>5 DEF ExternalCommit, TipsExist, TypeOK
<1>6. QED
  BY <1>1, <1>3, <1>4, <1>5 DEF TipsExist, Next, CallStep, vars, repo, local, Call,
     ReadHead, ReadTree, UpdateRef, Return, Abandon, ExternalSwitch, ExternalOrphan

\* What a call has read stays consistent with the objects it read it from.
LEMMA NextCallsAreCurrent == IInv /\ [Next]_vars => CallsAreCurrent'
<1> SUFFICES ASSUME IInv, [Next]_vars, NEW q \in Procs
             PROVE  /\ parent'[q] \in objects' \union {Unborn}
                    /\ pc'[q] = "commit-tree" => tree'[q] = TreeAt(parent[q])'
                    /\ pc'[q] = "update-ref" =>
                         /\ sha'[q] \in own'
                         /\ anc'[sha'[q]] = {sha'[q]} \union History(parent[q])'
                         /\ treeOf'[sha'[q]] = TreeAt(parent[q])'
                    /\ pc'[q] = "return" => sha'[q] \in own' \intersect Reachable'
  BY DEF CallsAreCurrent
<1> USE DEF IInv
<1>0. parent[q] \in objects \union {Unborn}
  BY DEF CallsAreCurrent
<1>00. parent[q] \in objects' \union {Unborn}
  BY <1>0, TipsImmutable
<1>1. CASE Call(q)
  BY <1>0, <1>1 DEF Call, Goto, repo, TypeOK
<1>2. CASE ReadHead(q)
  BY <1>2 DEF ReadHead, Goto, repo, TypeOK, TipsExist
<1>3. CASE ReadTree(q)
  BY <1>0, <1>3 DEF ReadTree, Goto, repo, TypeOK, TreeAt
<1>4. CASE CommitTree(q)
  <2>1. PICK s \in Shas : /\ NewObject(s, tree[q], parent[q])
                          /\ own' = own \union {s}
                          /\ sha' = [sha EXCEPT ![q] = s]
    BY <1>4 DEF CommitTree
  <2>2. pc[q] = "commit-tree" /\ pc'[q] = "update-ref" /\ parent' = parent /\ sha'[q] = s
    BY <1>4, <2>1 DEF CommitTree, Goto, TypeOK
  <2>3. History(parent[q])' = History(parent[q]) /\ TreeAt(parent[q])' = TreeAt(parent[q])
    BY <1>0, <2>2, ObjectsImmutable DEF History, TreeAt
  <2>4. anc'[s] = {s} \union History(parent[q]) /\ treeOf'[s] = TreeAt(parent[q])
    BY <2>1, <2>2 DEF NewObject, TypeOK, CallsAreCurrent
  <2>5. QED
    BY <1>00, <2>1, <2>2, <2>3, <2>4
<1>5. CASE UpdateRef(q)
  <2>1. /\ sha[q] \in own /\ anc[sha[q]] = {sha[q]} \union History(parent[q])
        /\ branch \in Branches /\ sha[q] # Unborn
    BY <1>5 DEF UpdateRef, Goto, CallsAreCurrent, TypeOK
  <2>2. /\ pc'[q] = "return" /\ sha' = sha /\ own' = own /\ parent' = parent /\ anc' = anc
        /\ ref'[branch] = sha[q]
    BY <1>5 DEF UpdateRef, Goto, TypeOK
  <2>3. sha[q] \in Reachable'
    BY <2>1, <2>2 DEF Reachable, History
  <2>4. QED
    BY <1>00, <2>1, <2>2, <2>3
<1>6. CASE Return(q) \/ Abandon(q)
  <2>1. pc'[q] = "idle" /\ parent'[q] = Unborn
    BY <1>6 DEF Return, Abandon, Hangup, TypeOK
  <2>2. QED
    BY <2>1
<1>7. ASSUME NEW p \in Procs, p # q, Call(p) \/ CallStep(p) \/ Abandon(p)
      PROVE  UNCHANGED <<pc[q], parent[q], tree[q], sha[q]>>
  BY <1>7, OnlyOwnLocals
<1>8. CASE UNCHANGED local
  BY <1>8, OwnGrows, OthersKeepCallsCurrent DEF local
<1>9. CASE UNCHANGED <<pc[q], parent[q], tree[q], sha[q]>>
  BY <1>9, OwnGrows, OthersKeepCallsCurrent
<1>10. QED
  BY <1>1, <1>2, <1>3, <1>4, <1>5, <1>6, <1>7, <1>8, <1>9
     DEF Next, CallStep, vars, ExternalCommit, ExternalSwitch, ExternalOrphan

\* `own` and `reported` grow only by commits that exist, are gitseed's and are
\* reachable when the caller hears of them.
LEMMA NextOwnReported ==
  IInv /\ [Next]_vars => own' \subseteq objects' /\ reported' \subseteq own' \intersect Reachable'
<1> SUFFICES ASSUME IInv, [Next]_vars
             PROVE  own' \subseteq objects' /\ reported' \subseteq own' \intersect Reachable'
  OBVIOUS
<1> USE DEF IInv
<1>1. own' \subseteq objects'
  <2>1. ASSUME NEW p \in Procs, CommitTree(p) PROVE own' \subseteq objects'
    BY <2>1 DEF CommitTree, NewObject
  <2>2. QED
    BY <2>1, ObjectsImmutable DEF Next, CallStep, vars, repo, local, Call, ReadHead,
       ReadTree, UpdateRef, Return, Abandon, ExternalCommit, ExternalSwitch, ExternalOrphan
<1>2. ASSUME NEW p \in Procs, Return(p)
      PROVE  reported' \subseteq own' \intersect Reachable'
  BY <1>2, OwnGrows, ReachableGrows DEF Return, CallsAreCurrent
<1>a. own \subseteq own' /\ Reachable \subseteq Reachable'
  BY OwnGrows, ReachableGrows
<1>3. ASSUME UNCHANGED reported
      PROVE  reported' \subseteq own' \intersect Reachable'
  BY <1>3, <1>a
<1>4. QED
  BY <1>1, <1>2, <1>3 DEF Next, CallStep, vars, repo, local, Call, ReadHead, ReadTree,
     CommitTree, UpdateRef, Abandon, ExternalCommit, ExternalSwitch, ExternalOrphan

\* Every reachable state satisfies the inductive invariant.
THEOREM InductiveInvariant == Spec => []IInv
<1>1. IInv /\ [Next]_vars => IInv'
  BY NextTypeOK, NextTipsExist, NextCallsAreCurrent, NextOwnReported DEF IInv
<1>2. QED
  BY InitIInv, <1>1, PTL DEF Spec

-----------------------------------------------------------------------------
(* The theorems. *)

\* Every variable keeps its type.
THEOREM TypeCorrect == Spec => []TypeOK
BY InductiveInvariant, PTL DEF IInv

\* A record `commit` returned is in some branch's history for good, whatever
\* other processes commit to the repository.
THEOREM ReportedRecordsAreDurable == Spec => []ReportedStaysReachable
<1>1. IInv => ReportedStaysReachable
  BY DEF IInv, ReportedStaysReachable
<1>2. QED
  BY InductiveInvariant, <1>1, PTL

\* No step of gitseed or of another tool takes a commit out of a branch.
THEOREM HistoryIsNeverDropped == Spec => NoCommitDropped
<1>1. IInv /\ [Next]_vars =>
        [\A b \in Branches : History(ref[b]) \subseteq History(ref[b])']_vars
  BY HistoryGrows
<1>2. QED
  BY InductiveInvariant, <1>1, PTL DEF Spec, NoCommitDropped

\* The commit that lands a record has the tree of the tip it replaces.
THEOREM RecordsCarryNoContent == Spec => RecordLeavesTreeAlone
<1>1. ASSUME IInv, [Next]_vars, NEW b \in Branches, ref'[b] \in own' \ Reachable
      PROVE  TreeAt(ref[b])' = TreeAt(ref[b])
  <2> USE <1>1 DEF IInv
  <2>1. CASE ref'[b] = ref[b]
    BY <1>1, <2>1, TipsImmutable DEF TipsExist, Reachable, History
  <2>2. ASSUME NEW p \in Procs, UpdateRef(p), b = branch, ref[b] = parent[p], ref'[b] = sha[p]
        PROVE  TreeAt(ref[b])' = TreeAt(ref[b])
    <3>1. pc[p] = "update-ref" /\ treeOf' = treeOf
      BY <2>2 DEF UpdateRef, Goto
    <3>2. sha[p] \in Shas /\ treeOf[sha[p]] = TreeAt(parent[p])
      BY <3>1 DEF CallsAreCurrent, TypeOK
    <3>3. QED
      BY <2>2, <3>1, <3>2 DEF TreeAt
  <2>3. ASSUME ref'[b] \in Shas \ objects, own' = own PROVE FALSE
    BY <1>1, <2>3
  <2>4. ASSUME ref'[b] = ref[branch] PROVE FALSE
    <3>0. own' \subseteq Shas
      BY NextTypeOK DEF TypeOK
    <3>1. ref[branch] \in objects
      BY <1>1, <2>4, <3>0 DEF TipsExist, TypeOK
    <3>2. ref[branch] \in Reachable
      BY <3>1 DEF TipsExist, TypeOK, Reachable, History
    <3>3. QED
      BY <1>1, <2>4, <3>2
  <2>5. QED
    BY <1>1, <2>1, <2>2, <2>3, <2>4, BranchMoves
<1>2. IInv /\ [Next]_vars =>
        [\A b \in Branches :
           ref'[b] \in own' \ Reachable => TreeAt(ref[b])' = TreeAt(ref[b])]_vars
  BY <1>1
<1>3. QED
  BY InductiveInvariant, <1>2, PTL DEF Spec, RecordLeavesTreeAlone

\* The log of the refinement is touched by update-ref alone, and grows by the
\* one record it lands; everything else stutters or acknowledges.
THEOREM GitImplementsDecisionLog == Spec => ImplementsLog
<1>1. Init => Log!Init
  BY DEF Init, Log!Init
<1>2. ASSUME IInv, [Next]_vars PROVE [Log!Next]_(Log!vars)
  <2> USE <1>2 DEF IInv
  <2>1. own \intersect Reachable \subseteq own' \intersect Reachable'
    BY OwnGrows, ReachableGrows, <1>2
  <2>2. ASSUME NEW p \in Procs, UpdateRef(p) PROVE [Log!Next]_(Log!vars)
    <3>1. /\ pc[p] = "update-ref" /\ own' = own /\ anc' = anc /\ reported' = reported
          /\ ref[branch] = parent[p] /\ branch \in Branches
          /\ ref' = [ref EXCEPT ![branch] = sha[p]]
      BY <2>2 DEF UpdateRef, Goto, TypeOK
    <3>2. sha[p] \in own /\ sha[p] # Unborn /\ anc[sha[p]] = {sha[p]} \union History(ref[branch])
      BY <3>1 DEF CallsAreCurrent, TypeOK
    <3>3. \A b \in Branches : History(ref[b])' =
            IF b = branch THEN {sha[p]} \union History(ref[b]) ELSE History(ref[b])
      BY <3>1, <3>2 DEF History, TypeOK
    <3>4. Reachable' = Reachable \union {sha[p]}
      <4>1. \A x : x \in Reachable' <=> x \in Reachable \/ x = sha[p]
        <5>1. ASSUME NEW x, x \in Reachable' PROVE x \in Reachable \/ x = sha[p]
          <6>1. PICK b \in Branches : x \in History(ref[b])'
            BY <5>1, InReachable
          <6>2. x \in History(ref[b]) \/ x = sha[p]
            BY <3>3, <6>1
          <6>3. QED
            BY <6>2, InReachable
        <5>2. ASSUME NEW x, x \in Reachable PROVE x \in Reachable'
          BY <5>2, ReachableGrows
        <5>3. sha[p] \in Reachable'
          <6>1. PICK b \in Branches : b = branch
            BY DEF TypeOK
          <6>2. sha[p] \in History(ref[b])'
            BY <3>3, <6>1
          <6>3. QED
            BY <6>2, InReachable
        <5>4. QED
          BY <5>1, <5>2, <5>3
      <4>2. QED
        BY <4>1
    <3>5. own' \intersect Reachable' = (own \intersect Reachable) \union {sha[p]}
      BY <3>1, <3>2, <3>4
    <3>6. CASE sha[p] \in Reachable
      BY <3>1, <3>2, <3>5, <3>6 DEF Log!vars
    <3>7. CASE sha[p] \notin Reachable
      <4>1. Log!Record(sha[p])
        BY <3>1, <3>5, <3>7 DEF Log!Record
      <4>2. QED
        BY <3>2, <4>1 DEF Log!Next, TypeOK
    <3>8. QED
      BY <3>6, <3>7
  <2>3. ASSUME NEW p \in Procs, Return(p) PROVE [Log!Next]_(Log!vars)
    <3>1. sha[p] \in own \intersect Reachable
      BY <2>3 DEF Return, CallsAreCurrent
    <3>2. own' = own /\ Reachable' = Reachable
      BY <2>3 DEF Return, Reachable, History
    <3>3. Log!Acknowledge(sha[p])
      BY <2>3, <3>1, <3>2 DEF Return, Log!Acknowledge
    <3>4. QED
      BY <3>1, <3>3 DEF Log!Next, TypeOK
  <2>4. ASSUME UNCHANGED reported, own' \intersect Reachable' = own \intersect Reachable
        PROVE  [Log!Next]_(Log!vars)
    BY <2>4 DEF Log!vars
  <2>5. ASSUME NEW p \in Procs, CommitTree(p) PROVE [Log!Next]_(Log!vars)
    <3>1. PICK s \in Shas : s \notin objects /\ own' = own \union {s}
      BY <2>5 DEF CommitTree, NewObject
    <3>2. \A b \in Branches : History(ref[b])' = History(ref[b])
      BY <2>5, TipsImmutable DEF CommitTree, TipsExist, History
    <3>3. Reachable' = Reachable
      BY <3>2 DEF Reachable
    <3>4. s \notin Reachable
      BY <3>1, ReachableExists
    <3>5. QED
      BY <2>4, <2>5, <3>1, <3>3, <3>4 DEF CommitTree
  <2>6. ASSUME ExternalCommit PROVE [Log!Next]_(Log!vars)
    <3>1. PICK s \in Shas : /\ s \notin objects
                            /\ anc' = [anc EXCEPT ![s] = {s} \union History(ref[branch])]
                            /\ ref' = [ref EXCEPT ![branch] = s]
      BY <2>6 DEF ExternalCommit, NewObject
    <3>2. \A b \in Branches : History(ref[b])' =
            IF b = branch THEN {s} \union History(ref[b]) ELSE History(ref[b])
      BY <3>1 DEF TipsExist, TypeOK, History
    <3>3. Reachable' = Reachable \union {s} /\ s \notin own
      <4>1. \A x : x \in Reachable' <=> x \in Reachable \/ x = s
        <5>1. ASSUME NEW x, x \in Reachable' PROVE x \in Reachable \/ x = s
          <6>1. PICK b \in Branches : x \in History(ref[b])'
            BY <5>1, InReachable
          <6>2. x \in History(ref[b]) \/ x = s
            BY <3>2, <6>1
          <6>3. QED
            BY <6>2, InReachable
        <5>2. ASSUME NEW x, x \in Reachable PROVE x \in Reachable'
          BY <5>2, ReachableGrows
        <5>3. s \in Reachable'
          <6>1. PICK b \in Branches : b = branch
            BY DEF TypeOK
          <6>2. s \in History(ref[b])'
            BY <3>2, <6>1
          <6>3. QED
            BY <6>2, InReachable
        <5>4. QED
          BY <5>1, <5>2, <5>3
      <4>2. QED
        BY <3>1, <4>1
    <3>4. QED
      BY <2>4, <2>6, <3>3 DEF ExternalCommit
  <2>7. ASSUME NEW b \in Branches, ExternalSwitch(b) PROVE [Log!Next]_(Log!vars)
    <3>1. anc' = anc /\ own' = own /\ reported' = reported
      BY <2>7 DEF ExternalSwitch
    <3>2. ref' = ref \/ (ref[b] = Unborn /\ ref' = [ref EXCEPT ![b] = ref[branch]])
      BY <2>7 DEF ExternalSwitch
    <3>3. CASE ref' = ref
      BY <2>4, <3>1, <3>3 DEF Reachable, History
    <3>4. CASE ref[b] = Unborn /\ ref' = [ref EXCEPT ![b] = ref[branch]]
      <4>1. \A c \in Branches : History(ref[c])' =
              IF c = b THEN History(ref[branch]) ELSE History(ref[c])
        BY <3>1, <3>4 DEF TypeOK, History
      <4>2. Reachable' \subseteq Reachable
        BY <4>1, InReachable DEF TypeOK
      <4>3. Reachable' = Reachable
        BY <4>2, ReachableGrows
      <4>4. QED
        BY <2>4, <3>1, <4>3
    <3>5. QED
      BY <3>2, <3>3, <3>4
  <2>8. ASSUME UNCHANGED <<ref, anc, own, reported>> PROVE [Log!Next]_(Log!vars)
    BY <2>4, <2>8 DEF Reachable, History
  <2>9. QED
    BY <1>2, <2>2, <2>3, <2>5, <2>6, <2>7, <2>8 DEF Next, CallStep, vars, repo, local,
       Call, ReadHead, ReadTree, Abandon, ExternalOrphan
<1>3. QED
  BY InductiveInvariant, <1>1, <1>2, PTL DEF Spec, ImplementsLog, Log!Spec
=============================================================================
