----------------------------- MODULE MCGrading -----------------------------
(***************************************************************************)
(* Grading with files of one to four bytes a character, around the point   *)
(* where a number in the digest gets its second digit; a structure fits    *)
(* the cap or not by one long path, and a long path of an empty file makes *)
(* a repository too large without a byte of content.                       *)
(***************************************************************************)
EXTENDS Grading

MCGrades == {[idea |-> i, skill |-> s, warns |-> w] :
               i \in {1}, s \in {1, 2}, w \in BOOLEAN} \union
            {[idea |-> 2, skill |-> 1, warns |-> FALSE]}

Every(width, length) == {width * k : k \in 0 .. length}

PathSize == 1

Short == {[path |-> PathSize, cuts |-> c] : c \in {Every(1, 9), Every(3, 4), Every(4, 8)}}

Empty == {[path |-> p, cuts |-> {0}] : p \in {PathSize, 80}}

Files == Short \union {[path |-> PathSize, cuts |-> c] : c \in {{0}, Every(1, 12)}}
         \union {[path |-> 80, cuts |-> Every(1, 2)]}

\* Of more files than a sample has, fewer kinds.
MCRepositories ==
  UNION {[1 .. n -> Files] : n \in 1 .. SampleCap} \union [1 .. SampleCap + 1 -> Short \union Empty]
=============================================================================
