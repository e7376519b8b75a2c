---------------------------- MODULE DecisionLog ----------------------------
(***************************************************************************)
(* What gitseed promises of its decision record, whoever keeps it: a       *)
(* record enters the log whole, a caller is told "committed" only about a  *)
(* record the log holds, and nothing ever leaves the log.                  *)
(* `GitCommitter.commit` is the only way in; SubprocessGitCommitter        *)
(* (module GitHead) implements it on top of git plumbing.                  *)
(***************************************************************************)
CONSTANT Records        \* everything that could be recorded

VARIABLES log,          \* the records the history holds
          acknowledged  \* the records some caller was told are committed

vars == <<log, acknowledged>>

Init == log = {} /\ acknowledged = {}

\* One record becomes part of the history, in one step.
Record(r) ==
  /\ r \notin log
  /\ log' = log \union {r}
  /\ UNCHANGED acknowledged

\* `commit` returns the id of a record; the caller may never hear of it.
Acknowledge(r) ==
  /\ r \in log
  /\ acknowledged' = acknowledged \union {r}
  /\ UNCHANGED log

Next == \E r \in Records : Record(r) \/ Acknowledge(r)

Spec == Init /\ [][Next]_vars
=============================================================================
