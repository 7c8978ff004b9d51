---------------------------- MODULE ChapterEdits ----------------------------
(***************************************************************************)
(* The two commands that edit a downloaded book: dedup --remove            *)
(* (core/dedup.py) and fix-titles (core/title_fixer.py).  Both work on the *)
(* done chapters of a book while runners may still download it.  A command *)
(* lists the chapters once and then goes through them in the book's order; *)
(* it holds no claim.  Without --remove, and with dry_run, the commands    *)
(* only read and are left out.                                             *)
(*                                                                         *)
(* Of a content the commands see two parts: the number in its title        *)
(* (an empty title has a wrong one) and its body.  Storage's digest covers *)
(* both, so that two done chapters may have one body.                      *)
(***************************************************************************)
EXTENDS ChapterStorage

CONSTANTS
  Editors,  \* the processes of the commands, one at a time in each; no runner is in them
  Number,   \* content -> the chapter number in its title, 0 for a title without one
  Body      \* content -> its text without the title

\* Chapters are their indices, and every title with a number can be given another one.
ASSUME EditsAssumption ==
  /\ Chapters \subseteq Nat \ {0}
  /\ Number \in [Contents -> Nat] /\ DOMAIN Body = Contents
  /\ \A ch \in Chapters, content \in Contents : Number[content] # 0 =>
       \E fixed \in Contents : Number[fixed] = ch /\ Body[fixed] = Body[content]

VARIABLE edits  \* process -> the command it runs

evars == <<vars, edits>>

\* todo are the chapters still to be looked at, and content the one about to be confirmed.
Edit == [op : {"none", "remove", "titles"}, todo : SUBSET Chapters, content : Contents \cup {NONE}]
Ended == [op |-> "none", todo |-> {}, content |-> NONE]
Remaining(op, todo) ==
  IF todo = {} THEN Ended ELSE [op |-> op, todo |-> todo, content |-> NONE]

EditsTypeOK == TypeOK /\ edits \in [Editors -> Edit]

EditInit == Init /\ edits = [p \in Editors |-> Ended]

-----------------------------------------------------------------------------
Readable(ch) == rows[ch].status = "done" /\ files[ch] # NONE

\* The chapter is the next of the command's list.
Reaches(p, op, ch) ==
  /\ edits[p].op = op
  /\ ch \in edits[p].todo
  /\ \A dh \in edits[p].todo : ch <= dh

Lists(p, op, list) ==
  /\ edits[p] = Ended
  /\ edits' = [edits EXCEPT ![p] = Remaining(op, list)]
  /\ UNCHANGED vars

Passes(p, ch) ==
  edits' = [edits EXCEPT ![p] = Remaining(edits[p].op, edits[p].todo \ {ch})]

Ends(p) == edits' = [edits EXCEPT ![p] = Ended]

\* Deduplicator.scan: the chapters whose body an earlier one has.
Duplicates ==
  {ch \in Chapters : Readable(ch) /\ \E first \in Chapters :
     first < ch /\ Readable(first) /\ Body[files[first]] = Body[files[ch]]}

remove_duplicates(p) == Lists(p, "remove", Duplicates)

\* Mutant: the update takes a done row for any other.
mark_duplicate_done(p, ch) ==
  LET claimed == Active(rows[ch]) IN
  /\ Reaches(p, "remove", ch) /\ reserved = NONE
  /\ rows' = IF claimed THEN rows ELSE [rows EXCEPT ![ch] = Unclaimed(@, "failed")]
  /\ IF claimed THEN Ends(p) ELSE Passes(p, ch)
  /\ UNCHANGED <<files, reserved, locks, runners, now, crashes>>

\* mark_failed without a claim: a live claim's conflict ends the command, and the update
\* skips a row that is done, as every listed one is: no duplicate is marked.
mark_duplicate(p, ch) ==
  LET claimed == Active(rows[ch]) IN
  /\ Reaches(p, "remove", ch) /\ reserved = NONE
  /\ rows' = IF claimed \/ rows[ch].status = "done" THEN rows
             ELSE [rows EXCEPT ![ch] = Unclaimed(@, "failed")]
  /\ IF claimed THEN Ends(p) ELSE Passes(p, ch)
  /\ UNCHANGED <<files, reserved, locks, runners, now, crashes>>

fix_titles(p) ==
  Lists(p, "titles", {ch \in Chapters : rows[ch].status = "done"})

RightTitle(ch, content) == Number[content] \in {0, ch}

FixedTitle(ch, content) ==
  CHOOSE fixed \in Contents : Number[fixed] = ch /\ Body[fixed] = Body[content]

\* The chapter's file is read outside every lock.
read_chapter(p, ch) ==
  /\ Reaches(p, "titles", ch) /\ edits[p].content = NONE
  /\ IF files[ch] = NONE \/ RightTitle(ch, files[ch])
     THEN Passes(p, ch)
     ELSE edits' = [edits EXCEPT ![p].content = FixedTitle(ch, files[ch])]
  /\ UNCHANGED vars

\* mark_done without a claim.  The chapter was listed as done and is done for good
\* (DoneIsFinal): the call returns its path if this is the content it was confirmed with,
\* and otherwise its conflict ends the command, so that no title is fixed.
fix_title(p, ch) ==
  /\ Reaches(p, "titles", ch) /\ edits[p].content # NONE /\ reserved = NONE
  /\ IF rows[ch].content = edits[p].content /\ files[ch] # NONE
     THEN Passes(p, ch) ELSE Ends(p)
  /\ UNCHANGED vars

\* The command's process dies.
edit_dies(p) == Ends(p) /\ UNCHANGED vars

EditStep(p) ==
  \/ remove_duplicates(p) \/ fix_titles(p) \/ edit_dies(p)
  \/ \E ch \in Chapters : mark_duplicate(p, ch) \/ read_chapter(p, ch) \/ fix_title(p, ch)

EditNext ==
  \/ \E p \in Editors : EditStep(p)
  \/ Next /\ UNCHANGED edits

EditSpec == EditInit /\ [][EditNext]_evars
=============================================================================
