--------------------------- MODULE ApprovedWrites ---------------------------
(***************************************************************************)
(* What a gitseed review promises of the user's GitHub account (ADR-0006,  *)
(* CHANGELOG "Safety"): a set of actions is granted once, durably and      *)
(* before anything happens; only granted stars and follows are ever put    *)
(* or taken back.  Module ReviewCycle implements it.                       *)
(***************************************************************************)
CONSTANT Effects       \* the stars and follows there can be

VARIABLES granted,     \* the actions the decision record authorises
          remote       \* the stars and follows the account has

vars == <<granted, remote>>

Init == granted = {} /\ remote \subseteq Effects

Grant ==
  /\ granted = {}
  /\ granted' \in SUBSET Effects
  /\ UNCHANGED remote

Put(e) ==
  /\ remote' = remote \union {e}
  /\ UNCHANGED granted

TakeBack(e) ==
  /\ remote' = remote \ {e}
  /\ UNCHANGED granted

Next == Grant \/ \E e \in granted : Put(e) \/ TakeBack(e)

Spec == Init /\ [][Next]_vars
=============================================================================
