----------------------------- MODULE MCGitHead -----------------------------
(* Small instance of GitHead for TLC. *)
EXTENDS GitHead, TLC

\* Processes, commit ids and branch names are interchangeable.
Symmetry == Permutations(Procs) \union Permutations(Shas) \union Permutations(Branches)
=============================================================================
