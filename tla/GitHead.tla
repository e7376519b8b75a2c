------------------------------ MODULE GitHead ------------------------------
(***************************************************************************)
(* SubprocessGitCommitter.commit (gitseed/review/commit.py): one decision  *)
(* record is committed by four git processes, with no lock around them:    *)
(*                                                                         *)
(*    rev-parse HEAD; rev-parse HEAD^{tree} or mktree;                     *)
(*    commit-tree; update-ref HEAD <new> <old>                             *)
(*                                                                         *)
(* Several gitseed processes share the repository with whatever else the   *)
(* user runs in it, so other commits and branch switches fall between any  *)
(* two of the four.  A git process that fails (CommitFailed) and a gitseed *)
(* that dies leave the repository as they found it, dangling commit        *)
(* included.  The index and the working tree are never read, and are not   *)
(* modelled; rewriting history (reset, amend, branch -D) is the user's own *)
(* deletion of the record and is not modelled either.                      *)
(***************************************************************************)
CONSTANTS Procs,      \* gitseed processes
          Shas,       \* commit ids; finite Shas bound a behaviour's commits
          Branches,   \* branch names
          Trees,      \* contents a commit can have
          EmptyTree,  \* what `git mktree` makes of no input
          Unborn      \* the tip of a branch without commits ("0" * 40)

ASSUME EmptyTreeIsATree == EmptyTree \in Trees
ASSUME UnbornIsNoSha    == Unborn \notin Shas
ASSUME SomeBranch       == Branches # {}

VARIABLES
  branch,    \* the branch the symbolic ref HEAD names
  ref,       \* ref[b]: the tip of branch b
  objects,   \* the commit objects that exist, reachable or dangling
  treeOf,    \* treeOf[s]: the tree commit s records
  anc,       \* anc[s]: s and all of its ancestors
  own,       \* the commits commit-tree made for gitseed
  reported,  \* the commits `commit` returned to its caller
  pc,        \* pc[p]: the next git process of p's call
  parent,    \* parent[p]: what rev-parse HEAD printed; Unborn when it failed
  tree,      \* tree[p]: the tree p will commit
  sha        \* sha[p]: the commit p made

repo  == <<branch, ref, objects, treeOf, anc, own, reported>>
local == <<pc, parent, tree, sha>>
vars  == <<repo, local>>

Stages == {"idle", "rev-parse", "tree", "commit-tree", "update-ref", "return"}
Tips   == Shas \union {Unborn}

History(s) == IF s = Unborn THEN {} ELSE anc[s]
TreeAt(s)  == IF s = Unborn THEN EmptyTree ELSE treeOf[s]
Reachable  == UNION {History(ref[b]) : b \in Branches}

Init ==
  /\ branch \in Branches
  /\ ref = [b \in Branches |-> Unborn]
  /\ objects = {} /\ own = {} /\ reported = {}
  /\ treeOf = [s \in Shas |-> EmptyTree]
  /\ anc = [s \in Shas |-> {}]
  /\ pc = [p \in Procs |-> "idle"]
  /\ parent = [p \in Procs |-> Unborn]
  /\ tree = [p \in Procs |-> EmptyTree]
  /\ sha = [p \in Procs |-> Unborn]

Goto(p, from, to) == pc[p] = from /\ pc' = [pc EXCEPT ![p] = to]

\* A new commit object s with tree t on top of tip old.
NewObject(s, t, old) ==
  /\ s \notin objects
  /\ objects' = objects \union {s}
  /\ treeOf' = [treeOf EXCEPT ![s] = t]
  /\ anc' = [anc EXCEPT ![s] = {s} \union History(old)]

-----------------------------------------------------------------------------
(* One call of SubprocessGitCommitter.commit. *)

Call(p) ==
  /\ Goto(p, "idle", "rev-parse")
  /\ UNCHANGED <<repo, parent, tree, sha>>

\* `git rev-parse --verify HEAD`.  Any failure is read as "no commits yet".
ReadHead(p) ==
  /\ Goto(p, "rev-parse", "tree")
  /\ \E head \in {ref[branch], Unborn} : parent' = [parent EXCEPT ![p] = head]
  /\ UNCHANGED <<repo, tree, sha>>

\* Mutant: an unborn branch is not given the empty tree.
ReadTreeOfUnborn(p) ==
  /\ Goto(p, "tree", "commit-tree")
  /\ tree' = [tree EXCEPT ![p] = IF parent[p] = Unborn THEN Unborn ELSE treeOf[parent[p]]]
  /\ UNCHANGED <<repo, parent, sha>>

\* Mutant: the tree is read from HEAD again, not from the parent.
ReadTreeOfHead(p) ==
  /\ Goto(p, "tree", "commit-tree")
  /\ tree' = [tree EXCEPT ![p] = TreeAt(ref[branch])]
  /\ UNCHANGED <<repo, parent, sha>>

\* `git rev-parse <parent>^{tree}`, or `git mktree` of nothing.
ReadTree(p) ==
  /\ Goto(p, "tree", "commit-tree")
  /\ tree' = [tree EXCEPT ![p] = TreeAt(parent[p])]
  /\ UNCHANGED <<repo, parent, sha>>

\* Mutant: `-p HEAD` instead of the captured parent.
CommitTreeOnHead(p) ==
  /\ Goto(p, "commit-tree", "update-ref")
  /\ \E s \in Shas :
       /\ NewObject(s, tree[p], ref[branch])
       /\ own' = own \union {s}
       /\ sha' = [sha EXCEPT ![p] = s]
  /\ UNCHANGED <<branch, ref, reported, parent, tree>>

CommitTree(p) ==
  /\ Goto(p, "commit-tree", "update-ref")
  /\ \E s \in Shas :
       /\ NewObject(s, tree[p], parent[p])
       /\ own' = own \union {s}
       /\ sha' = [sha EXCEPT ![p] = s]
  /\ UNCHANGED <<branch, ref, reported, parent, tree>>

\* Mutant: `update-ref HEAD <sha>`, with no expected value.
UpdateRefBlindly(p) ==
  /\ Goto(p, "update-ref", "return")
  /\ ref' = [ref EXCEPT ![branch] = sha[p]]
  /\ UNCHANGED <<branch, objects, treeOf, anc, own, reported, parent, tree, sha>>

\* Mutant: the first commit is made with no expected value.
UpdateRefUnlessUnborn(p) ==
  /\ parent[p] # Unborn => ref[branch] = parent[p]
  /\ Goto(p, "update-ref", "return")
  /\ ref' = [ref EXCEPT ![branch] = sha[p]]
  /\ UNCHANGED <<branch, objects, treeOf, anc, own, reported, parent, tree, sha>>

\* Mutant: the exit status of update-ref is not looked at.
UpdateRefUnchecked(p) ==
  /\ Goto(p, "update-ref", "return")
  /\ ref' = IF ref[branch] = parent[p] THEN [ref EXCEPT ![branch] = sha[p]] ELSE ref
  /\ UNCHANGED <<branch, objects, treeOf, anc, own, reported, parent, tree, sha>>

\* `git update-ref HEAD <sha> <expected>` moves the branch HEAD names now, and
\* only if its tip is the expected one.
UpdateRef(p) ==
  /\ ref[branch] = parent[p]
  /\ Goto(p, "update-ref", "return")
  /\ ref' = [ref EXCEPT ![branch] = sha[p]]
  /\ UNCHANGED <<branch, objects, treeOf, anc, own, reported, parent, tree, sha>>

Hangup(p) ==
  /\ pc' = [pc EXCEPT ![p] = "idle"]
  /\ parent' = [parent EXCEPT ![p] = Unborn]
  /\ tree' = [tree EXCEPT ![p] = EmptyTree]
  /\ sha' = [sha EXCEPT ![p] = Unborn]

Return(p) ==
  /\ pc[p] = "return"
  /\ reported' = reported \union {sha[p]}
  /\ Hangup(p)
  /\ UNCHANGED <<branch, ref, objects, treeOf, anc, own>>

\* A git process fails, the branch moved under update-ref, the disk is full, or
\* gitseed itself dies: the call is over and nobody cleans up.  From "return"
\* it is a git that was killed after it moved the ref.
Abandon(p) ==
  /\ pc[p] # "idle"
  /\ Hangup(p)
  /\ UNCHANGED repo

-----------------------------------------------------------------------------
(* The rest of the world works in the same repository. *)

ExternalCommit ==
  /\ \E s \in Shas, t \in Trees :
       /\ NewObject(s, t, ref[branch])
       /\ ref' = [ref EXCEPT ![branch] = s]
  /\ UNCHANGED <<branch, own, reported, local>>

\* `git switch b`, or `git switch -c b` when there is no b yet.
ExternalSwitch(b) ==
  /\ branch' = b
  /\ ref' = IF ref[b] = Unborn THEN [ref EXCEPT ![b] = ref[branch]] ELSE ref
  /\ UNCHANGED <<objects, treeOf, anc, own, reported, local>>

\* `git switch --orphan b`.
ExternalOrphan(b) ==
  /\ ref[b] = Unborn
  /\ branch' = b
  /\ UNCHANGED <<ref, objects, treeOf, anc, own, reported, local>>

CallStep(p) ==
  \/ ReadHead(p) \/ ReadTree(p) \/ CommitTree(p) \/ UpdateRef(p) \/ Return(p)

Next ==
  \/ \E p \in Procs : Call(p) \/ CallStep(p) \/ Abandon(p)
  \/ ExternalCommit
  \/ \E b \in Branches : ExternalSwitch(b) \/ ExternalOrphan(b)

Spec == Init /\ [][Next]_vars

-----------------------------------------------------------------------------
(* Properties. *)

\* Every variable of the repository and of a call has the values git gives it.
TypeOK ==
  /\ branch \in Branches
  /\ ref \in [Branches -> Tips]
  /\ objects \subseteq Shas /\ own \subseteq Shas /\ reported \subseteq Shas
  /\ treeOf \in [Shas -> Trees]
  /\ anc \in [Shas -> SUBSET Shas]
  /\ pc \in [Procs -> Stages]
  /\ parent \in [Procs -> Tips]
  /\ tree \in [Procs -> Trees]
  /\ sha \in [Procs -> Tips]

\* INV-006: a record whose sha `commit` returned stays in the history of some
\* branch, whatever other gitseed processes and other tools commit meanwhile.
ReportedStaysReachable == reported \subseteq Reachable

\* Moving a branch never drops a commit that was in its history: a record does
\* not overwrite the commit somebody made between rev-parse and update-ref.
NoCommitDropped ==
  [][\A b \in Branches : History(ref[b]) \subseteq History(ref[b])']_vars

\* Landing a record leaves the branch's tree alone: it neither carries other
\* content in nor reverts a change that landed while the record was built.
RecordLeavesTreeAlone ==
  [][\A b \in Branches :
       ref'[b] \in own' \ Reachable => TreeAt(ref[b])' = TreeAt(ref[b])]_vars

\* The four-process commit implements the atomic, append-only decision log.
Log == INSTANCE DecisionLog WITH
         Records <- Shas, log <- own \intersect Reachable, acknowledged <- reported
ImplementsLog == Log!Spec

-----------------------------------------------------------------------------
(* The inductive invariant behind them. *)

\* Branch tips and all their ancestors, themselves included, are commits that exist.
TipsExist ==
  /\ \A b \in Branches : ref[b] \in objects \union {Unborn}
  /\ \A s \in objects : s \in anc[s] /\ anc[s] \subseteq objects

\* What a call holds in its local variables still describes the repository:
\* objects never change once made, only branches move.
CallsAreCurrent == \A p \in Procs :
  /\ parent[p] \in objects \union {Unborn}
  /\ pc[p] = "commit-tree" => tree[p] = TreeAt(parent[p])
  /\ pc[p] = "update-ref" =>
       /\ sha[p] \in own
       /\ anc[sha[p]] = {sha[p]} \union History(parent[p])
       /\ treeOf[sha[p]] = TreeAt(parent[p])
  /\ pc[p] = "return" => sha[p] \in own \intersect Reachable

IInv ==
  /\ TypeOK
  /\ TipsExist
  /\ own \subseteq objects
  /\ CallsAreCurrent
  /\ reported \subseteq own \intersect Reachable
=============================================================================
