----------------------------- MODULE MCRunStore -----------------------------
(* Small instances of RunStore for TLC. *)
EXTENDS RunStore, TLC

CONSTANTS r1, r2, app

Run(id, corrects, dated, repos) ==
  [id |-> id, corrects |-> corrects, dated |-> dated, repos |-> repos]

\* A run, another run under the same id, a correction of it by a second run
\* without observations, and one that names itself as the run it corrects.
SomeRuns ==
  {Run(r1, NoRun, TRUE, {app}), Run(r1, NoRun, TRUE, {}),
   Run(r2, r1, FALSE, {app}), Run(r2, r2, TRUE, {app})}

\* Processes are interchangeable.
Symmetry == Permutations(Procs)
=============================================================================
