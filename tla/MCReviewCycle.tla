--------------------------- MODULE MCReviewCycle ---------------------------
(* Small instances of ReviewCycle for TLC. *)
EXTENDS DecisionRecord

\* Two repositories of one owner: the second follow repeats the first.
OneOwner == [r \in {"app", "lib"} |-> "dev"]

\* An empty account, and one that already has a star and the follow.
EmptyOrNot == {{}, {Star("app"), Follow("app")}}

\* An account with a star that may be asked for again, tried or not.
SecondStarred == {{Star("lib")}}

TwoRepos == <<"app", "lib">>
=============================================================================
