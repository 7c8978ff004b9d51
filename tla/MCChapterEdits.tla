--------------------------- MODULE MCChapterEdits ---------------------------
(* One book of two chapters, downloaded by a server and edited from the command line. *)
EXTENDS ChapterEdits

CONSTANTS x1, x2, r1, r2, r3, server, cli

MCChapters == 1..2
\* One body under the titles of both chapters.
MCContents == {x1, x2}
MCNumber == [content \in {x1, x2} |-> IF content = x1 THEN 1 ELSE 2]
MCBody == [content \in {x1, x2} |-> "x"]

ThreeRunners == {r1, r2, r3}
OneProcess == {server}
AllInServer == [r \in {r1, r2, r3} |-> server]
\* Two tasks and a direct download.
TwoTasksAndDirect == [r \in {r1, r2, r3} |-> IF r = r1 THEN "task1" ELSE IF r = r2 THEN "task2" ELSE NONE]
CommandLine == {cli}
=============================================================================
