------------------------------- MODULE Digest -------------------------------
(***************************************************************************)
(* What a model is shown of a repository: pipeline/run.py _digest and its  *)
(* helpers.  Bytes are counted, not spelled out: a file is the length of   *)
(* its path and the set of offsets at which its text may be cut, which are *)
(* the boundaries of its characters, in UTF-8.  A digest is what it takes  *)
(* of each file and what it says about that.                               *)
(***************************************************************************)
EXTENDS Naturals, Sequences

CONSTANTS DigestCap,   \* MODEL_DIGEST_BYTE_CAP (23000)
          SampleCap,   \* MODEL_DIGEST_FILE_CAP (16)
          FrameSize,   \* the words around the files: the repository's name and
                       \* the line on the evidence, without its numbers
          MarkerSize   \* the words of a marker, without its numbers and flag

\* The sampling divides by the cap less one.
ASSUME DigestCapIsNatural == DigestCap \in Nat
ASSUME SampleHasTwoEnds == SampleCap \in Nat /\ SampleCap >= 2
ASSUME SizesAreNaturals == FrameSize \in Nat /\ MarkerSize \in Nat

\* A character of UTF-8 has one to four bytes.
CharacterSize == 1 .. 4

LeastOf(a, b) == IF a <= b THEN a ELSE b

Largest(S) == CHOOSE n \in S : \A o \in S : o <= n

\* A text may be cut at its start and at its end, and from a cut the next is a
\* character on.
IsText(cuts) ==
  /\ 0 \in cuts /\ \E end \in cuts : cuts \subseteq 0 .. end
  /\ \A c \in cuts \ {Largest(cuts)} : \E w \in CharacterSize : c + w \in cuts

SumOf(sizes) ==
  LET count == Len(sizes)
      upTo[k \in 0 .. count] == IF k = 0 THEN 0 ELSE upTo[k - 1] + sizes[k]
  IN upTo[count]

\* The length of a number as it is printed.
Digits(n) ==
  LET digits[m \in 0 .. n] == IF m < 10 THEN 1 ELSE 1 + digits[m \div 10]
  IN digits[n]

\* _utf8_size of a file
Size(file) == Largest(file.cuts)

\* Mutant: the bytes of a character that was cut are counted.
PrefixInBytes(file, maximum) == LeastOf(maximum, Size(file))

\* The size of _utf8_prefix: a character that does not fit is dropped.
Prefix(file, maximum) == Largest({c \in file.cuts : c <= maximum})

-----------------------------------------------------------------------------
(* Which files, and how much of each. *)

\* Mutant: the step between samples forgets that there is one step fewer.
EvenlySpacedShort(count) ==
  IF count <= SampleCap THEN [k \in 1 .. count |-> k]
  ELSE [k \in 1 .. SampleCap |-> 1 + ((k - 1) * (count - 1)) \div SampleCap]

\* _evenly_spaced_indices, counted from one
EvenlySpaced(count) ==
  IF count <= SampleCap THEN [k \in 1 .. count |-> k]
  ELSE [k \in 1 .. SampleCap |-> 1 + ((k - 1) * (count - 1)) \div (SampleCap - 1)]

\* Mutant: the first files take what they can.
DivideGreedily(budget, sizes) ==
  [k \in DOMAIN sizes |-> LET before == SumOf(SubSeq(sizes, 1, k - 1))
                          IN IF before >= budget THEN 0 ELSE LeastOf(sizes[k], budget - before)]

\* _divide_content_budget: the same for each, and the rest to the first ones.
Divide(budget, sizes) ==
  LET count == Len(sizes)
  IN [k \in 1 .. count |->
        LeastOf(sizes[k], budget \div count + (IF k <= budget % count THEN 1 ELSE 0))]

Sampled(files) ==
  LET at == EvenlySpaced(Len(files)) IN [k \in DOMAIN at |-> files[at[k]]]

\* What each sampled file is asked for is cut to whole characters.
Included(sample, budget) ==
  LET asked == Divide(budget, [k \in DOMAIN sample |-> Size(sample[k])])
  IN [k \in DOMAIN sample |-> Prefix(sample[k], asked[k])]

-----------------------------------------------------------------------------
(* _render_digest, as the number of its bytes. *)

\* "true" or "false"
FlagSize(shortened) == IF shortened THEN 4 ELSE 5

MarkerOf(file, included) ==
  MarkerSize + Digits(Size(file)) + Digits(included) + FlagSize(included < Size(file))

\* "--- ", the path, a line break before it and one after it, and the text
SectionSize(file, included, described) ==
  6 + file.path + included + (IF described THEN MarkerOf(file, included) ELSE 0)

Selected(files) == SumOf([k \in DOMAIN files |-> Size(files[k])])

EvidenceSize(files, sample, included) ==
  Digits(Len(files)) + Digits(Len(sample)) + Digits(Selected(files))
  + Digits(SumOf(included)) + Digits(Selected(files) - SumOf(included))

RenderedSize(files, sample, included, described) ==
  FrameSize + EvidenceSize(files, sample, included)
  + SumOf([k \in DOMAIN sample |-> SectionSize(sample[k], included[k], described)])

\* All of every file, without markers.
WholeSize(files) ==
  RenderedSize(files, files, [k \in DOMAIN files |-> Size(files[k])], FALSE)

\* Some of each sampled file, with markers.
CutSize(files, sample, included) == RenderedSize(files, sample, included, TRUE)

\* Nothing of the sampled files, with markers.
StructureSize(files, sample) == CutSize(files, sample, [k \in DOMAIN sample |-> 0])
=============================================================================
