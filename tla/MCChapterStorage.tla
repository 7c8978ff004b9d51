-------------------------- MODULE MCChapterStorage --------------------------
(* Small instances of ChapterStorage: a book of one chapter, opened in two processes. *)
EXTENDS ChapterStorage

CONSTANTS c1, x, y, r1, r2, p1, p2

OneChapter == {c1}
MCContents == {x, y}
TwoRunners == {r1, r2}
TwoProcesses == {p1, p2}
Apart == [r \in {r1, r2} |-> IF r = r1 THEN p1 ELSE p2]
TaskAndDirect == [r \in {r1, r2} |-> IF r = r1 THEN "task1" ELSE NONE]
=============================================================================
