------------------------ MODULE DeletionJobs_proofs ------------------------
(***************************************************************************)
(* Proofs about DeletionJobs, for every set of books, titles, chapters and  *)
(* runners.  The argument is what a manifest says (ManifestInv): its files  *)
(* and trees are no stored book's, and stay so, because its book is deleted *)
(* for good and a book that is stored later writes under its own id only.   *)
(* So a runner may be late, or not alone, and removes nothing of a stored   *)
(* book; and when it takes the job off, nothing the job answered for is     *)
(* left (RemovedInv).                                                       *)
(***************************************************************************)
EXTENDS DeletionJobs, WellFoundedInduction, TLAPS

Book == [state : {"unknown", "stored", "deleted"}, title : Titles \cup {NoTitle}, paths : SUBSET Paths]

DeletionJob == [state : {"none", "pending", "blocked"}, error : {"", "retryable", "blocked"},
                files : SUBSET Paths, trees : SUBSET Trees, caches : SUBSET (Titles \cup {NoTitle})]

Runner == [pc : {"idle", "take", "files", "trees", "caches", "finish"}, job : Books \cup {0},
           todo : SUBSET Books]

Types ==
  /\ books \in [Books -> Book] /\ jobs \in [Books -> DeletionJob] /\ runners \in [Runners -> Runner]
  /\ content \subseteq Paths

\* A book's chapters are in its own directory, or in one named by a title.
Own(b) == {b} \cup Titles

BooksInv == \A b \in Books : \A path \in books[b].paths : Tree(path) \in Own(b)

\* What a job will remove was its book's, and is nobody's who is stored.
ManifestInv ==
  \A b \in Books :
    /\ \A path \in jobs[b].files :
         Tree(path) \in Own(b) /\ \A c \in Stored : path \notin books[c].paths
    /\ \A tree \in jobs[b].trees :
         tree \in Own(b) /\ \A c \in Stored : \A path \in books[c].paths : Tree(path) # tree
    /\ jobs[b].state # "none" \/ jobs[b].files # {} \/ jobs[b].trees # {} => books[b].state = "deleted"

\* A runner works on a book that is deleted, and will after it on others that are.
RunnersInv ==
  \A r \in Runners :
    /\ runners[r].pc # "idle" => runners[r].job \in Books /\ books[runners[r].job].state = "deleted"
    /\ \A b \in runners[r].todo : books[b].state = "deleted"

\* What a runner has passed is gone.
RemovedInv ==
  \A r \in Runners :
    /\ runners[r].pc \in {"trees", "caches", "finish"} => Job(r).files \cap content = {}
    /\ runners[r].pc \in {"caches", "finish"} => Under(Job(r).trees) = {}

IInv ==
  /\ Types /\ BooksInv /\ ManifestInv /\ RunnersInv /\ RemovedInv
  /\ KeepsContent /\ NoOrphanContent

-----------------------------------------------------------------------------
(* The job a runner takes next is one of those it has listed.                *)

LEMMA LeastBook ==
  ASSUME NEW todo \in SUBSET Books, todo # {}
  PROVE  \E b \in todo : \A c \in todo : b <= c
<1> DEFINE R == OpToRel(<, Nat)
<1>1. todo \subseteq Nat
  BY DeletionAssumption
<1>2. PICK b \in todo : \A c \in todo : ~ (<<c, b>> \in R)
  BY <1>1, NatLessThanWellFounded, WFMin
<1>3. ASSUME NEW c \in todo PROVE b <= c
  <2>1. <<c, b>> \notin R
    BY <1>2
  <2>2. b \in Nat /\ c \in Nat
    BY <1>1
  <2>3. ~ (c < b)
    BY <2>1, <2>2 DEF OpToRel
  <2> QED BY <2>2, <2>3
<1> QED BY <1>3

LEMMA NextJobTyped ==
  ASSUME NEW todo \in SUBSET Books
  PROVE  /\ NextJob(todo) \in Runner
         /\ NextJob(todo).pc \in {"idle", "take"}
         /\ NextJob(todo).pc # "idle" => NextJob(todo).job \in todo
         /\ NextJob(todo).todo \subseteq todo
<1>1. CASE todo = {}
  BY <1>1 DEF NextJob, Idle, Runner
<1>2. CASE todo # {}
  <2> DEFINE b == CHOOSE b \in todo : \A c \in todo : b <= c
  <2>1. b \in todo
    BY <1>2, LeastBook
  <2>2. NextJob(todo) = [pc |-> "take", job |-> b, todo |-> todo \ {b}]
    BY <1>2 DEF NextJob
  <2> HIDE DEF b
  <2> QED BY <2>1, <2>2 DEF Runner
<1> QED BY <1>1, <1>2

-----------------------------------------------------------------------------
LEMMA InitInv == Init => IInv
<1> SUFFICES ASSUME Init PROVE IInv
  OBVIOUS
<1>1. ASSUME NEW b \in Books
      PROVE  /\ books[b] \in Book
             /\ \A path \in books[b].paths : Tree(path) \in Titles /\ b \in Stored
  <2>1. books[b] = Unknown \/ \E t \in Titles, cs \in SUBSET Chapters :
                                books[b] = [state |-> "stored", title |-> t, paths |-> {t} \X cs]
    <3>1. books[b] = Unknown \/ books[b] \in Legacy
      BY DEF Init
    <3>2. CASE books[b] \in Legacy
      <4>1. PICK t \in Titles :
              books[b] \in {[state |-> "stored", title |-> t, paths |-> {t} \X cs] : cs \in SUBSET Chapters}
        BY <3>2, Zenon DEF Legacy
      <4>2. PICK cs \in SUBSET Chapters : books[b] = [state |-> "stored", title |-> t, paths |-> {t} \X cs]
        BY <4>1, Zenon
      <4> QED BY <4>2
    <3> QED BY <3>1, <3>2
  <2>2. CASE books[b] = Unknown
    BY <2>2 DEF Unknown, Book
  <2>3. ASSUME NEW t \in Titles, NEW cs \in SUBSET Chapters,
               books[b] = [state |-> "stored", title |-> t, paths |-> {t} \X cs]
        PROVE  books[b] \in Book /\ \A path \in books[b].paths : Tree(path) \in Titles /\ b \in Stored
    BY <2>3 DEF Book, Paths, Trees, Tree, Stored
  <2> QED BY <2>1, <2>2, <2>3
<1>2. content = UNION {books[b].paths : b \in Books}
  BY DEF Init
<1>3. NoJob \in DeletionJob /\ Idle \in Runner
  BY DEF NoJob, DeletionJob, Idle, Runner
<1>4. books \in [Books -> Book]
  <2>1. \E S : books \in [Books -> S]
    BY DEF Init
  <2> QED BY <1>1, <2>1
<1>5. content \subseteq Paths
  BY <1>1, <1>2 DEF Book
<1>6. Types
  BY <1>3, <1>4, <1>5 DEF Types, Init
<1>7. BooksInv
  BY <1>1 DEF BooksInv, Own
<1>8. ManifestInv /\ RunnersInv /\ RemovedInv
  BY DEF Init, NoJob, Idle, ManifestInv, RunnersInv, RemovedInv
<1>9. KeepsContent
  BY <1>2 DEF KeepsContent, Stored
<1>10. NoOrphanContent
  BY <1>1, <1>2 DEF NoOrphanContent
<1> QED BY <1>6, <1>7, <1>8, <1>9, <1>10 DEF IInv

-----------------------------------------------------------------------------
(* A runner's step: it keeps the books and every manifest, removes nothing   *)
(* of a stored book, and takes a job off only when nothing of it is left.    *)

LEMMA RunnerStep ==
  ASSUME IInv, NEW r \in Runners, NEW x \in Runner,
         runners' = [runners EXCEPT ![r] = x],
         books' = books, content' \subseteq content,
         \A path \in content \ content' : \A c \in Stored : path \notin books[c].paths,
         jobs' \in [Books -> DeletionJob],
         \A b \in Books : /\ jobs'[b].files = jobs[b].files /\ jobs'[b].trees = jobs[b].trees
                          /\ jobs[b].state = "none" => jobs'[b].state = "none",
         \A b \in Books : jobs'[b].state = "none" /\ jobs[b].state # "none" =>
           \A path \in content' : path \notin jobs[b].files /\ Tree(path) \notin jobs[b].trees,
         x.pc # "idle" => x.job \in Books /\ books[x.job].state = "deleted",
         \A b \in x.todo : books[b].state = "deleted",
         x.pc \in {"trees", "caches", "finish"} => \A path \in content' : path \notin jobs[x.job].files,
         x.pc \in {"caches", "finish"} => \A path \in content' : Tree(path) \notin jobs[x.job].trees
  PROVE  IInv'
<1> USE DEF IInv
<1>1. Types'
  BY DEF Types
<1>2. Stored' = Stored
  BY DEF Stored
<1>3. BooksInv'
  BY DEF BooksInv
<1>4. ManifestInv'
  BY <1>2 DEF ManifestInv
<1>5. ASSUME NEW q \in Runners PROVE runners'[q] = IF q = r THEN x ELSE runners[q]
  BY DEF Types
<1>6. RunnersInv'
  BY <1>5 DEF RunnersInv
<1>7. RemovedInv'
  <2> SUFFICES ASSUME NEW q \in Runners
               PROVE  /\ runners'[q].pc \in {"trees", "caches", "finish"} => jobs'[runners'[q].job].files \cap content' = {}
                      /\ runners'[q].pc \in {"caches", "finish"} =>
                           \A path \in content' : Tree(path) \notin jobs'[runners'[q].job].trees
    BY DEF RemovedInv, Job, Under
  <2>1. CASE q = r
    BY <1>5, <2>1
  <2>2. CASE q # r
    <3>1. runners'[q] = runners[q]
      BY <1>5, <2>2
    <3>2. runners[q].pc # "idle" => runners[q].job \in Books
      BY DEF RunnersInv
    <3> QED BY <3>1, <3>2 DEF RemovedInv, Job, Under
  <2> QED BY <2>1, <2>2
<1>8. KeepsContent'
  BY <1>2 DEF KeepsContent, Stored
<1>9. NoOrphanContent'
  BY <1>2 DEF NoOrphanContent
<1> QED BY <1>1, <1>3, <1>4, <1>6, <1>7, <1>8, <1>9

\* The runner goes to another step of its job.
LEMMA GotoStep ==
  ASSUME IInv, NEW r \in Runners, NEW pc \in {"files", "trees", "caches", "finish"}, Goto(r, pc),
         runners[r].pc # "idle",
         books' = books, jobs' = jobs, content' \subseteq content,
         \A path \in content \ content' : \A c \in Stored : path \notin books[c].paths,
         pc \in {"trees", "caches", "finish"} => \A path \in content' : path \notin Job(r).files,
         pc \in {"caches", "finish"} => \A path \in content' : Tree(path) \notin Job(r).trees
  PROVE  IInv'
<1> DEFINE x == [runners[r] EXCEPT !.pc = pc]
<1>1. runners' = [runners EXCEPT ![r] = x]
  BY DEF Goto
<1>2. runners[r] \in Runner
  BY DEF IInv, Types
<1>3. x \in Runner /\ x.pc = pc /\ x.job = runners[r].job /\ x.todo = runners[r].todo
  BY <1>2 DEF Runner
<1>4. x.job \in Books /\ books[x.job].state = "deleted" /\ \A b \in x.todo : books[b].state = "deleted"
  BY <1>3 DEF IInv, RunnersInv
<1>5. jobs' \in [Books -> DeletionJob]
  BY DEF IInv, Types
<1> HIDE DEF x
<1> QED BY <1>1, <1>3, <1>4, <1>5, RunnerStep DEF Job

\* The runner takes the next job it has listed, or stops.
LEMMA ReturnsStep ==
  ASSUME IInv, NEW r \in Runners, Returns(r),
         books' = books, content' \subseteq content,
         \A path \in content \ content' : \A c \in Stored : path \notin books[c].paths,
         jobs' \in [Books -> DeletionJob],
         \A b \in Books : /\ jobs'[b].files = jobs[b].files /\ jobs'[b].trees = jobs[b].trees
                          /\ jobs[b].state = "none" => jobs'[b].state = "none",
         \A b \in Books : jobs'[b].state = "none" /\ jobs[b].state # "none" =>
           \A path \in content' : path \notin jobs[b].files /\ Tree(path) \notin jobs[b].trees
  PROVE  IInv'
<1> DEFINE x == NextJob(runners[r].todo)
<1>1. runners[r] \in Runner
  BY DEF IInv, Types
<1>2. runners[r].todo \in SUBSET Books
  BY <1>1 DEF Runner
<1>3. runners' = [runners EXCEPT ![r] = x]
  BY DEF Returns
<1>4. /\ x \in Runner /\ x.pc \in {"idle", "take"} /\ x.todo \subseteq runners[r].todo
      /\ x.pc # "idle" => x.job \in runners[r].todo
  BY <1>2, NextJobTyped
<1>5. \A b \in runners[r].todo : books[b].state = "deleted"
  BY DEF IInv, RunnersInv
<1> HIDE DEF x
<1> QED BY <1>2, <1>3, <1>4, <1>5, RunnerStep

\* What a job removes is no stored book's.
LEMMA Removable ==
  ASSUME IInv, NEW b \in Books, NEW c \in Stored, NEW path \in books[c].paths
  PROVE  path \notin jobs[b].files /\ Tree(path) \notin jobs[b].trees
BY DEF IInv, ManifestInv

-----------------------------------------------------------------------------
(* A job's state and error are written; what it will remove is as it was.    *)

LEMMA StateWritten ==
  ASSUME jobs \in [Books -> DeletionJob], NEW b \in Books, NEW s \in {"none", "pending", "blocked"},
         NEW new, new = [jobs EXCEPT ![b].state = s]
  PROVE  /\ new \in [Books -> DeletionJob] /\ new[b].state = s
         /\ \A c \in Books : new[c].files = jobs[c].files /\ new[c].trees = jobs[c].trees
         /\ \A c \in Books \ {b} : new[c] = jobs[c]
BY DEF DeletionJob

\* A job that is off the table is left alone.
Outcome(j, s, e) == IF j.state = "none" THEN j ELSE [j EXCEPT !.state = s, !.error = e]

LEMMA OutcomeTyped ==
  ASSUME NEW j \in DeletionJob, NEW s \in {"pending", "blocked"}, NEW e \in {"retryable", "blocked"}
  PROVE  /\ Outcome(j, s, e) \in DeletionJob
         /\ Outcome(j, s, e).files = j.files /\ Outcome(j, s, e).trees = j.trees
         /\ j.state = "none" <=> Outcome(j, s, e).state = "none"
<1> DEFINE k == [j EXCEPT !.state = s]
           l == [k EXCEPT !.error = e]
<1>1. k \in DeletionJob /\ k.state = s /\ k.files = j.files /\ k.trees = j.trees
  BY DEF DeletionJob
<1>2. Outcome(j, s, e) = IF j.state = "none" THEN j ELSE l
  BY DEF Outcome
<1> HIDE DEF k
<1>3. l \in DeletionJob /\ l.state = s /\ l.files = j.files /\ l.trees = j.trees
  BY <1>1 DEF DeletionJob
<1> HIDE DEF l
<1> QED BY <1>2, <1>3

-----------------------------------------------------------------------------
(* The steps of a runner. *)

\* The job is left, and what became of it is written.
LEMMA GivesUpStep ==
  ASSUME IInv, NEW r \in Runners, runners[r].pc # "idle", books' = books, content' \subseteq content,
         \A path \in content \ content' : \A c \in Stored : path \notin books[c].paths,
         NEW s \in {"pending", "blocked"}, NEW e \in {"retryable", "blocked"},
         jobs' = [jobs EXCEPT ![runners[r].job] = Outcome(@, s, e)], Returns(r)
  PROVE  IInv'
<1>1. jobs \in [Books -> DeletionJob] /\ runners[r].job \in Books
  BY DEF IInv, Types, RunnersInv
<1> DEFINE j == jobs[runners[r].job]
           k == Outcome(j, s, e)
<1>2. /\ k \in DeletionJob /\ k.files = j.files /\ k.trees = j.trees
      /\ j.state = "none" <=> k.state = "none"
  <2>1. j \in DeletionJob
    BY <1>1
  <2> HIDE DEF j
  <2> QED BY <2>1, OutcomeTyped
<1>3. jobs' = [jobs EXCEPT ![runners[r].job] = k]
  OBVIOUS
<1> HIDE DEF k
<1>4. /\ jobs' \in [Books -> DeletionJob]
      /\ \A b \in Books : /\ jobs'[b].files = jobs[b].files /\ jobs'[b].trees = jobs[b].trees
                          /\ jobs[b].state = "none" <=> jobs'[b].state = "none"
  BY <1>1, <1>2, <1>3
<1> QED BY <1>4, ReturnsStep

LEMMA RemovesStep ==
  ASSUME IInv, NEW r \in Runners, NEW next \in {"trees", "caches", "finish"}, NEW things,
         runners[r].pc # "idle", books' = books,
         NEW gone \in SUBSET (things \cap content), content' = content \ gone,
         \/ gone = things \cap content /\ Goto(r, next) /\ jobs' = jobs
         \/ /\ jobs' = [jobs EXCEPT ![runners[r].job] = Outcome(@, "pending", "retryable")]
            /\ Returns(r),
         \A path \in things : \A c \in Stored : path \notin books[c].paths,
         next \in {"trees", "caches", "finish"} => \A path \in content \ things : path \notin Job(r).files,
         next \in {"caches", "finish"} => \A path \in content \ things : Tree(path) \notin Job(r).trees
  PROVE  IInv'
<1>1. content' \subseteq content /\ \A path \in content \ content' : \A c \in Stored : path \notin books[c].paths
  OBVIOUS
<1>2. CASE gone = things \cap content /\ Goto(r, next) /\ jobs' = jobs
  <2>1. content' = content \ things
    BY <1>2
  <2> QED BY <1>1, <1>2, <2>1, GotoStep
<1>3. CASE /\ jobs' = [jobs EXCEPT ![runners[r].job] = Outcome(@, "pending", "retryable")]
           /\ Returns(r)
  BY <1>1, <1>3, GivesUpStep
<1> QED BY <1>2, <1>3

LEMMA RunsStep == ASSUME IInv, NEW r \in Runners, Runs(r) PROVE IInv'
<1>1. jobs \in [Books -> DeletionJob]
  BY DEF IInv, Types
<1>2. runners[r].pc # "idle" => runners[r].job \in Books
  BY DEF IInv, RunnersInv
<1>3. CASE take(r)
  <2>1. books' = books /\ content' = content /\ jobs' = jobs
    BY <1>3 DEF take
  <2>2. CASE Goto(r, "files")
    BY <1>3, <2>1, <2>2, GotoStep DEF take, At
  <2>3. CASE Returns(r)
    BY <1>1, <2>1, <2>3, ReturnsStep
  <2> QED BY <1>3, <2>2, <2>3 DEF take
<1>4. CASE remove_files(r)
  <2>1. runners[r].job \in Books /\ runners[r].pc # "idle" /\ books' = books
    BY <1>2, <1>4 DEF remove_files, removes, At
  <2>2. PICK gone \in SUBSET (Job(r).files \cap content) :
          /\ content' = content \ gone
          /\ \/ gone = Job(r).files \cap content /\ Goto(r, "trees") /\ jobs' = jobs
             \/ /\ jobs' = [jobs EXCEPT ![runners[r].job] = Outcome(@, "pending", "retryable")]
                /\ Returns(r)
    BY <1>4 DEF remove_files, removes, Outcome
  <2>3. \A path \in Job(r).files : \A c \in Stored : path \notin books[c].paths
    BY <2>1, Removable DEF Job
  <2>4. \A path \in content \ Job(r).files : path \notin Job(r).files
    OBVIOUS
  <2> QED BY <2>1, <2>2, <2>3, <2>4, RemovesStep
<1>5. CASE remove_trees(r)
  <2>1. runners[r].job \in Books /\ runners[r].pc = "trees" /\ books' = books
    BY <1>2, <1>5 DEF remove_trees, removes, At
  <2>2. PICK gone \in SUBSET (Under(Job(r).trees) \cap content) :
          /\ content' = content \ gone
          /\ \/ gone = Under(Job(r).trees) \cap content /\ Goto(r, "caches") /\ jobs' = jobs
             \/ /\ jobs' = [jobs EXCEPT ![runners[r].job] = Outcome(@, "pending", "retryable")]
                /\ Returns(r)
    BY <1>5 DEF remove_trees, removes, Outcome
  <2>3. \A path \in Under(Job(r).trees) : \A c \in Stored : path \notin books[c].paths
    BY <2>1, Removable DEF Job, Under
  <2>4. \A path \in content : path \notin Job(r).files
    BY <2>1 DEF IInv, RemovedInv
  <2>5. \A path \in content \ Under(Job(r).trees) : Tree(path) \notin Job(r).trees
    BY DEF Under
  <2> QED BY <2>1, <2>2, <2>3, <2>4, <2>5, RemovesStep
<1>6. CASE remove_caches(r)
  <2>1. runners[r].job \in Books /\ runners[r].pc = "caches" /\ books' = books /\ content' = content
    BY <1>2, <1>6 DEF remove_caches, removes, At
  <2>2. /\ \A path \in content : path \notin Job(r).files
        /\ \A path \in content : Tree(path) \notin Job(r).trees
    BY <2>1 DEF IInv, RemovedInv, Under
  <2>3. CASE Goto(r, "finish") /\ jobs' = jobs
    BY <2>1, <2>2, <2>3, GotoStep
  <2>4. CASE /\ jobs' = [jobs EXCEPT ![runners[r].job] = Outcome(@, "pending", "retryable")]
             /\ Returns(r)
    BY <2>1, <2>4, GivesUpStep
  <2>5. \/ Goto(r, "finish") /\ jobs' = jobs
        \/ /\ jobs' = [jobs EXCEPT ![runners[r].job] = Outcome(@, "pending", "retryable")]
           /\ Returns(r)
    BY <1>6 DEF remove_caches, removes, Outcome
  <2> QED BY <2>3, <2>4, <2>5
<1>7. CASE finish(r)
  <2>1. /\ runners[r].job \in Books /\ runners[r].pc = "finish"
        /\ books' = books /\ content' = content /\ Returns(r)
    BY <1>2, <1>7 DEF finish, At
  <2>2. jobs' = [jobs EXCEPT ![runners[r].job].state = IF @ = "pending" THEN "none" ELSE @]
    BY <1>7 DEF finish
  <2>3. \A path \in content : path \notin Job(r).files /\ Tree(path) \notin Job(r).trees
    BY <2>1 DEF IInv, RemovedInv, Under
  <2> DEFINE s == IF Job(r).state = "pending" THEN "none" ELSE Job(r).state
  <2>4. Job(r) \in DeletionJob
    BY <1>1, <2>1 DEF Job
  <2>5. s \in {"none", "pending", "blocked"} /\ (Job(r).state = "none" => s = "none")
    BY <2>4 DEF DeletionJob
  <2>6. jobs' = [jobs EXCEPT ![runners[r].job].state = s]
    BY <2>2 DEF Job
  <2> HIDE DEF s
  <2>7. /\ jobs' \in [Books -> DeletionJob] /\ jobs'[runners[r].job].state = s
        /\ \A b \in Books : jobs'[b].files = jobs[b].files /\ jobs'[b].trees = jobs[b].trees
        /\ \A b \in Books \ {runners[r].job} : jobs'[b] = jobs[b]
    BY <1>1, <2>1, <2>5, <2>6, StateWritten
  <2>8. \A b \in Books : jobs[b].state = "none" => jobs'[b].state = "none"
    BY <2>5, <2>7 DEF Job
  <2> QED BY <2>1, <2>3, <2>7, <2>8, ReturnsStep DEF Job
<1> QED BY <1>3, <1>4, <1>5, <1>6, <1>7 DEF Runs

LEMMA BlockStep == ASSUME IInv, NEW r \in Runners, _block_deletion_job(r) PROVE IInv'
<1>1. jobs' = [jobs EXCEPT ![runners[r].job] = Outcome(@, "blocked", "blocked")]
  BY DEF _block_deletion_job, Outcome
<1>2. runners[r].pc # "idle" /\ books' = books /\ content' = content /\ Returns(r)
  BY DEF _block_deletion_job
<1> QED BY <1>1, <1>2, GivesUpStep

LEMMA DiesStep == ASSUME IInv, NEW r \in Runners, dies(r) PROVE IInv'
<1>1. Idle \in Runner /\ Idle.pc = "idle" /\ Idle.todo = {}
  BY DEF Idle, Runner
<1>2. jobs \in [Books -> DeletionJob]
  BY DEF IInv, Types
<1> QED BY <1>1, <1>2, RunnerStep DEF dies

LEMMA ListStep == ASSUME IInv, NEW r \in Runners, _retry_deletion_jobs(r) PROVE IInv'
<1>1. Pending \in SUBSET Books /\ \A b \in Pending : books[b].state = "deleted"
  BY DEF Pending, IInv, ManifestInv
<1>2. jobs \in [Books -> DeletionJob]
  BY DEF IInv, Types
<1> DEFINE x == NextJob(Pending)
<1>3. /\ x \in Runner /\ x.pc \in {"idle", "take"} /\ x.todo \subseteq Pending
      /\ x.pc # "idle" => x.job \in Pending
  BY <1>1, NextJobTyped
<1>4. /\ runners' = [runners EXCEPT ![r] = x]
      /\ books' = books /\ content' = content /\ jobs' = jobs
  BY DEF _retry_deletion_jobs
<1> HIDE DEF x
<1> QED BY <1>1, <1>2, <1>3, <1>4, RunnerStep

LEMMA RetryStep == ASSUME IInv, NEW r \in Runners, NEW b \in Books, retry_deletion_job(r, b) PROVE IInv'
<1> DEFINE x == [Idle EXCEPT !.pc = "take", !.job = b]
<1>1. x \in Runner /\ x.pc = "take" /\ x.job = b /\ x.todo = {}
  BY DEF Idle, Runner
<1>2. jobs \in [Books -> DeletionJob] /\ books[b].state = "deleted"
  BY DEF IInv, Types, ManifestInv, retry_deletion_job
<1>3. jobs' = [jobs EXCEPT ![b].state = "pending", ![b].error = IF jobs[b].state = "blocked" THEN "" ELSE @]
  BY DEF retry_deletion_job
<1> DEFINE k == [jobs EXCEPT ![b].state = "pending"]
           e == IF jobs[b].state = "blocked" THEN "" ELSE jobs[b].error
<1>4. /\ k \in [Books -> DeletionJob] /\ k[b].state = "pending"
      /\ \A c \in Books : k[c].files = jobs[c].files /\ k[c].trees = jobs[c].trees
      /\ \A c \in Books \ {b} : k[c] = jobs[c]
  BY <1>2 DEF DeletionJob
<1>5. k[b].error = jobs[b].error /\ e \in {"", "retryable", "blocked"}
  BY <1>2 DEF DeletionJob
<1>6. jobs' = [k EXCEPT ![b].error = e]
  BY <1>3, <1>5
<1> HIDE DEF k, e
<1> DEFINE row == [k[b] EXCEPT !.error = e]
<1>7. row \in DeletionJob /\ row.files = k[b].files /\ row.trees = k[b].trees /\ row.state = k[b].state
  BY <1>4, <1>5 DEF DeletionJob
<1>8. jobs' = [k EXCEPT ![b] = row]
  BY <1>6
<1> HIDE DEF row
<1>9. jobs' \in [Books -> DeletionJob]
  BY <1>4, <1>7, <1>8
<1>10. \A c \in Books : /\ jobs'[c].files = k[c].files /\ jobs'[c].trees = k[c].trees
                        /\ jobs'[c].state = k[c].state
  BY <1>4, <1>7, <1>8
<1>11. \A c \in Books : /\ jobs'[c].files = jobs[c].files /\ jobs'[c].trees = jobs[c].trees
                        /\ jobs[c].state = "none" <=> jobs'[c].state = "none"
  <2>1. jobs[b].state # "none"
    BY DEF retry_deletion_job
  <2> QED BY <1>4, <1>10, <2>1
<1>12. runners' = [runners EXCEPT ![r] = x] /\ books' = books /\ content' = content
  BY DEF retry_deletion_job
<1> HIDE DEF x
<1> QED BY <1>1, <1>2, <1>9, <1>11, <1>12, RunnerStep

-----------------------------------------------------------------------------
(* The steps that change the books. *)

LEMMA UpsertStep == ASSUME IInv, upsert_book PROVE IInv'
<1>1. PICK b \in Books, t \in Titles :
        /\ books[b].state = "unknown"
        /\ books' = [books EXCEPT ![b] = [state |-> "stored", title |-> t, paths |-> {}]]
  BY DEF upsert_book
<1>2. content' = content /\ jobs' = jobs /\ runners' = runners
  BY DEF upsert_book
<1>3. books \in [Books -> Book]
  BY DEF IInv, Types
<1>4. /\ books' \in [Books -> Book] /\ books'[b].paths = {} /\ books'[b].state = "stored"
      /\ \A c \in Books \ {b} : books'[c] = books[c]
  BY <1>1, <1>3 DEF Book
<1>5. Types' /\ BooksInv'
  BY <1>2, <1>4 DEF IInv, Types, BooksInv
<1>6. Stored' = Stored \cup {b} /\ b \notin Stored
  BY <1>1, <1>4 DEF Stored
<1>7. ManifestInv'
  BY <1>1, <1>2, <1>4, <1>6 DEF IInv, ManifestInv
<1>8. RunnersInv'
  BY <1>1, <1>2, <1>4 DEF IInv, Types, Runner, RunnersInv
<1>9. RemovedInv'
  BY <1>2 DEF IInv, RemovedInv, Job, Under
<1>10. KeepsContent'
  BY <1>2, <1>4, <1>6 DEF IInv, KeepsContent, Stored
<1>11. NoOrphanContent'
  BY <1>2, <1>4, <1>6 DEF IInv, NoOrphanContent, Stored
<1> QED BY <1>5, <1>7, <1>8, <1>9, <1>10, <1>11 DEF IInv

LEMMA MarkDoneStep == ASSUME IInv, NEW b \in Books, NEW c \in Chapters, mark_done(b, c) PROVE IInv'
<1> DEFINE new == <<b, c>>
<1>1. /\ b \in Stored /\ content' = content \cup {new} /\ jobs' = jobs /\ runners' = runners
      /\ books' = books \/ books' = [books EXCEPT ![b].paths = @ \cup {new}]
  BY DEF mark_done
<1>2. new \in Paths /\ Tree(new) = b
  BY DEF Paths, Trees, Tree
<1> HIDE DEF new
<1>3. books \in [Books -> Book]
  BY DEF IInv, Types
<1>4. /\ books' \in [Books -> Book]
      /\ \A a \in Books : /\ books'[a].state = books[a].state
                          /\ books[a].paths \subseteq books'[a].paths
                          /\ books'[a].paths \subseteq books[a].paths \cup (IF a = b THEN {new} ELSE {})
  BY <1>1, <1>2, <1>3 DEF Book
<1>5. Types' /\ BooksInv'
  BY <1>1, <1>2, <1>4 DEF IInv, Types, BooksInv, Own
<1>6. Stored' = Stored
  BY <1>4 DEF Stored
<1>7. \A a \in Books : new \notin jobs[a].files /\ Tree(new) \notin jobs[a].trees
  <2> SUFFICES ASSUME NEW a \in Books PROVE new \notin jobs[a].files /\ Tree(new) \notin jobs[a].trees
    OBVIOUS
  <2>1. b \notin Titles
    BY DeletionAssumption
  <2>2. books[b].state = "stored"
    BY <1>1 DEF Stored
  <2>3. CASE a = b
    BY <2>2, <2>3 DEF IInv, ManifestInv
  <2>4. CASE a # b
    BY <1>2, <2>1, <2>4 DEF IInv, ManifestInv, Own
  <2> QED BY <2>3, <2>4
<1>8. ManifestInv'
  <2> SUFFICES ASSUME NEW a \in Books
               PROVE  /\ \A path \in jobs[a].files :
                           Tree(path) \in Own(a) /\ \A d \in Stored : path \notin books'[d].paths
                      /\ \A tree \in jobs[a].trees :
                           tree \in Own(a) /\ \A d \in Stored : \A path \in books'[d].paths : Tree(path) # tree
                      /\ jobs[a].state # "none" \/ jobs[a].files # {} \/ jobs[a].trees # {} => books[a].state = "deleted"
    BY <1>1, <1>4, <1>6 DEF ManifestInv
  <2>1. \A d \in Stored : d \in Books /\ books'[d].paths \subseteq books[d].paths \cup {new}
    BY <1>4 DEF Stored
  <2> QED BY <1>7, <2>1 DEF IInv, ManifestInv
<1>9. RunnersInv'
  BY <1>1, <1>4 DEF IInv, Types, Runner, RunnersInv
<1>10. RemovedInv'
  BY <1>1, <1>7 DEF IInv, RemovedInv, RunnersInv, Job, Under
<1>11. KeepsContent'
  <2> SUFFICES ASSUME NEW d \in Stored PROVE books'[d].paths \subseteq content'
    BY <1>6 DEF KeepsContent
  <2> QED BY <1>1, <1>4 DEF IInv, KeepsContent, Stored
<1>12. NoOrphanContent'
  <2> SUFFICES ASSUME NEW path \in content'
               PROVE  \/ \E a \in Stored : path \in books'[a].paths \/ Tree(path) = a
                      \/ \E a \in Books : jobs[a].state # "none" /\ (path \in jobs[a].files \/ Tree(path) \in jobs[a].trees)
    BY <1>1, <1>6 DEF NoOrphanContent
  <2>1. CASE path = new
    BY <1>1, <1>2, <2>1
  <2>2. CASE path \in content
    BY <1>4, <2>2 DEF IInv, NoOrphanContent, Stored
  <2> QED BY <1>1, <2>1, <2>2
<1> QED BY <1>5, <1>8, <1>9, <1>10, <1>11, <1>12 DEF IInv

LEMMA ManifestOf ==
  ASSUME IInv, NEW b \in Stored
  PROVE  LET m == _build_deletion_manifest_locked(b) IN
         /\ m \in DeletionJob /\ m.state = "pending"
         /\ \A path \in m.files : Tree(path) \in Own(b) /\ \A c \in Others(b) : path \notin books[c].paths
         /\ \A tree \in m.trees :
              tree \in Own(b) /\ \A c \in Others(b) : \A path \in books[c].paths : Tree(path) # tree
         /\ \A path \in books[b].paths : path \in m.files \/ \E c \in Others(b) : path \in books[c].paths
         /\ b \in m.trees
<1> DEFINE m == _build_deletion_manifest_locked(b)
           shared == UNION {books[c].paths : c \in Others(b)}
           titles == {books[c].title : c \in Others(b)}
           candidates == {b} \cup ({Tree(path) : path \in books[b].paths} \ titles)
<1>1. /\ m = [state |-> "pending", error |-> "", files |-> books[b].paths \ shared,
              trees |-> {tree \in candidates : \A path \in shared : Tree(path) # tree},
              caches |-> {books[b].title} \ titles]
  BY DEF _build_deletion_manifest_locked
<1>2. b \in Books /\ books[b] \in Book /\ Others(b) \subseteq Books
  BY DEF Stored, Others, IInv, Types
<1>3. \A path \in books[b].paths : path \in Paths /\ Tree(path) \in Own(b)
  BY <1>2 DEF IInv, BooksInv, Book
<1>4. \A path : path \in shared <=> \E c \in Others(b) : path \in books[c].paths
  OBVIOUS
<1>5. candidates \subseteq Own(b) /\ Own(b) \subseteq Trees /\ b \in candidates
  BY <1>2, <1>3 DEF Own, Trees
<1>6. \A path \in shared : Tree(path) # b
  <2> SUFFICES ASSUME NEW c \in Others(b), NEW path \in books[c].paths PROVE Tree(path) # b
    BY <1>4
  <2>1. Tree(path) \in Own(c) /\ c # b
    BY <1>2 DEF IInv, BooksInv, Others
  <2>2. b \notin Titles
    BY <1>2, DeletionAssumption
  <2> QED BY <2>1, <2>2 DEF Own
<1> HIDE DEF m, shared, titles, candidates
<1>7. m \in DeletionJob
  BY <1>1, <1>2, <1>3, <1>5 DEF DeletionJob, Book
<1>8. m.state = "pending" /\ b \in m.trees
  BY <1>1, <1>5, <1>6
<1>9. m.files = books[b].paths \ shared
  BY <1>1
<1>10. m.trees \subseteq candidates /\ \A tree \in m.trees : \A path \in shared : Tree(path) # tree
  BY <1>1
<1>11. \A path \in m.files : Tree(path) \in Own(b) /\ \A c \in Others(b) : path \notin books[c].paths
  BY <1>3, <1>4, <1>9
<1>12. \A tree \in m.trees :
         tree \in Own(b) /\ \A c \in Others(b) : \A path \in books[c].paths : Tree(path) # tree
  BY <1>4, <1>5, <1>10
<1>13. \A path \in books[b].paths : path \in m.files \/ \E c \in Others(b) : path \in books[c].paths
  BY <1>4, <1>9
<1> QED BY <1>7, <1>8, <1>11, <1>12, <1>13 DEF m

LEMMA DeleteStep == ASSUME IInv, NEW r \in Runners, NEW b \in Books, delete_book(r, b) PROVE IInv'
<1> DEFINE m == _build_deletion_manifest_locked(b)
           x == [Idle EXCEPT !.pc = "take", !.job = b]
           gone == [Unknown EXCEPT !.state = "deleted"]
<1>1. /\ b \in Stored /\ content' = content
      /\ jobs' = [jobs EXCEPT ![b] = m]
      /\ books' = [books EXCEPT ![b] = gone]
      /\ runners' = [runners EXCEPT ![r] = x]
  BY DEF delete_book
<1>2. /\ m \in DeletionJob /\ m.state = "pending"
      /\ \A path \in m.files : Tree(path) \in Own(b) /\ \A c \in Others(b) : path \notin books[c].paths
      /\ \A tree \in m.trees :
           tree \in Own(b) /\ \A c \in Others(b) : \A path \in books[c].paths : Tree(path) # tree
      /\ \A path \in books[b].paths : path \in m.files \/ \E c \in Others(b) : path \in books[c].paths
      /\ b \in m.trees
  BY <1>1, ManifestOf
<1>3. x \in Runner /\ x.pc = "take" /\ x.job = b /\ x.todo = {}
  BY DEF Idle, Runner
<1>4. gone \in Book /\ gone.state = "deleted" /\ gone.paths = {}
  BY DEF Unknown, Book
<1> HIDE DEF m, x, gone
<1>5. books \in [Books -> Book] /\ jobs \in [Books -> DeletionJob] /\ runners \in [Runners -> Runner]
  BY DEF IInv, Types
<1>6. /\ \A c \in Books : books'[c] = IF c = b THEN gone ELSE books[c]
      /\ \A c \in Books : jobs'[c] = IF c = b THEN m ELSE jobs[c]
      /\ \A q \in Runners : runners'[q] = IF q = r THEN x ELSE runners[q]
  BY <1>1, <1>5
<1>7. Types'
  BY <1>1, <1>2, <1>3, <1>4, <1>5 DEF IInv, Types
<1>8. BooksInv'
  BY <1>4, <1>6 DEF IInv, BooksInv
<1>9. Stored' = Others(b) /\ Others(b) \subseteq Stored /\ \A c \in Others(b) : c \in Books /\ books'[c] = books[c]
  BY <1>4, <1>6 DEF Stored, Others
<1>10. ManifestInv'
  <2> SUFFICES ASSUME NEW a \in Books
               PROVE  /\ \A path \in jobs'[a].files :
                           Tree(path) \in Own(a) /\ \A d \in Others(b) : path \notin books[d].paths
                      /\ \A tree \in jobs'[a].trees :
                           tree \in Own(a) /\ \A d \in Others(b) : \A path \in books[d].paths : Tree(path) # tree
                      /\ jobs'[a].state # "none" \/ jobs'[a].files # {} \/ jobs'[a].trees # {} => books'[a].state = "deleted"
    BY <1>9 DEF ManifestInv
  <2>1. CASE a = b
    BY <1>2, <1>4, <1>6, <2>1
  <2>2. CASE a # b
    BY <1>6, <1>9, <2>2 DEF IInv, ManifestInv
  <2> QED BY <2>1, <2>2
<1>11. \A q \in Runners : runners[q].pc # "idle" => runners[q].job # b
  BY <1>1 DEF IInv, RunnersInv, Stored
<1>12. RunnersInv'
  BY <1>3, <1>4, <1>5, <1>6 DEF IInv, RunnersInv, Runner
<1>13. RemovedInv'
  <2> SUFFICES ASSUME NEW q \in Runners
               PROVE  /\ runners'[q].pc \in {"trees", "caches", "finish"} => jobs'[runners'[q].job].files \cap content = {}
                      /\ runners'[q].pc \in {"caches", "finish"} =>
                           \A path \in content : Tree(path) \notin jobs'[runners'[q].job].trees
    BY <1>1 DEF RemovedInv, Job, Under
  <2>1. CASE q = r
    BY <1>3, <1>6, <2>1
  <2>2. CASE q # r /\ runners[q].pc # "idle"
    <3>1. runners'[q] = runners[q] /\ runners[q].job \in Books /\ jobs'[runners[q].job] = jobs[runners[q].job]
      BY <1>6, <1>11, <2>2 DEF IInv, RunnersInv
    <3> QED BY <3>1 DEF IInv, RemovedInv, Job, Under
  <2>3. CASE q # r /\ runners[q].pc = "idle"
    BY <1>6, <2>3
  <2> QED BY <2>1, <2>2, <2>3
<1>14. KeepsContent'
  BY <1>1, <1>9 DEF IInv, KeepsContent
<1>15. NoOrphanContent'
  <2> SUFFICES ASSUME NEW path \in content
               PROVE  \/ \E a \in Others(b) : path \in books[a].paths \/ Tree(path) = a
                      \/ \E a \in Books : jobs'[a].state # "none" /\ (path \in jobs'[a].files \/ Tree(path) \in jobs'[a].trees)
    BY <1>1, <1>9 DEF NoOrphanContent
  <2>1. jobs[b].state = "none"
    BY <1>1 DEF IInv, ManifestInv, Stored
  <2>2. jobs'[b] = m
    BY <1>6
  <2>3. CASE \E a \in Books : jobs[a].state # "none" /\ (path \in jobs[a].files \/ Tree(path) \in jobs[a].trees)
    BY <1>6, <2>1, <2>3
  <2>4. CASE path \in books[b].paths \/ Tree(path) = b
    BY <1>2, <2>2, <2>4
  <2>5. CASE \E a \in Stored \ {b} : path \in books[a].paths \/ Tree(path) = a
    BY <2>5 DEF Others
  <2> QED BY <2>3, <2>4, <2>5 DEF IInv, NoOrphanContent
<1> QED BY <1>7, <1>8, <1>10, <1>12, <1>13, <1>14, <1>15 DEF IInv

-----------------------------------------------------------------------------
LEMMA NextInv == IInv /\ [Next]_vars => IInv'
<1> SUFFICES ASSUME IInv, [Next]_vars PROVE IInv'
  OBVIOUS
<1>1. CASE upsert_book
  BY <1>1, UpsertStep
<1>2. CASE \E b \in Books, c \in Chapters : mark_done(b, c)
  BY <1>2, MarkDoneStep
<1>3. ASSUME NEW r \in Runners,
             Runs(r) \/ _block_deletion_job(r) \/ dies(r) \/ _retry_deletion_jobs(r)
      PROVE  IInv'
  BY <1>3, RunsStep, BlockStep, DiesStep, ListStep
<1>4. ASSUME NEW r \in Runners, NEW b \in Books, delete_book(r, b) \/ retry_deletion_job(r, b)
      PROVE  IInv'
  BY <1>4, DeleteStep, RetryStep
<1>5. CASE UNCHANGED vars
  <2>1. books' = books /\ content' = content /\ jobs' = jobs /\ runners' = runners
    BY <1>5 DEF vars
  <2>2. Types' /\ BooksInv' /\ ManifestInv' /\ RunnersInv'
    BY <2>1 DEF IInv, Types, BooksInv, ManifestInv, RunnersInv, Stored
  <2>3. RemovedInv'
    BY <2>1 DEF IInv, RemovedInv, Job, Under
  <2>4. KeepsContent' /\ NoOrphanContent'
    BY <2>1 DEF IInv, KeepsContent, NoOrphanContent, Stored
  <2> QED BY <2>2, <2>3, <2>4 DEF IInv
<1> QED BY <1>1, <1>2, <1>3, <1>4, <1>5 DEF Next

LEMMA Invariance == Spec => []IInv
BY InitInv, NextInv, PTL DEF Spec

\* No deletion takes content of a book that is stored, however many books share a directory, and
\* however late and however many runners work at the jobs (_build_deletion_manifest_locked,
\* _process_deletion_job).
THEOREM StoredContentIsKept == Spec => []KeepsContent
<1>1. IInv => KeepsContent
  BY DEF IInv
<1> QED BY <1>1, Invariance, PTL

\* Content that is left over always has a book or a job that answers for it, whatever fails or is
\* interrupted (delete_book, _process_deletion_job, mark_done).
THEOREM LeftContentIsListed == Spec => []NoOrphanContent
<1>1. IInv => NoOrphanContent
  BY DEF IInv
<1> QED BY <1>1, Invariance, PTL
=============================================================================
