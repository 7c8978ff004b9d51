--------------------------- MODULE MCChapterBatch ---------------------------
(* Small instances of ChapterBatch. *)
EXTENDS ChapterBatch, TLC

CONSTANTS r1, r2

TwoRunners == {r1, r2}

Symmetry == Permutations(TwoRunners)
=============================================================================
