---------------------- MODULE AdaptiveController_proofs ----------------------
(***************************************************************************)
(* Proofs about AdaptiveController, for any finite set of tasks and any     *)
(* handles, bounds and number of operations and restarts.                  *)
(***************************************************************************)
EXTENDS AdaptiveController, FiniteSetTheorems, FunctionTheorems, SequenceTheorems, TLAPS

\* What a thread is still to do, as a set.
Calls(p) == ToSet(todo[p])

\* Calls made under an interaction's lock or by another call, and those a thread begins with.
InnerOps ==
  {"operation", "cancel_operation", "retry", "retried", "cancel_handle", "hand_over", "wait",
   "transition", "release", "drop", "store", "require_cleanup", "lost", "schedule", "abandon",
   "store_cancel_pending", "enter_cancel_pending", "apply", "complete_cleanup_gate", "expired"}
OuterOps ==
  {"act", "cancel_interaction", "retry_cleanup", "expire", "view", "sweep", "sweep_terminal",
   "sweep_expired", "retry_stored", "reserve", "close_entry", "close_check"}
Inner(c) == c.op \in InnerOps /\ (c.op = "cancel_handle" => c.to # "terminal")
Outer(c) == c.op \in OuterOps \/ (c.op = "cancel_handle" /\ c.to = "terminal")

\* Calls that another call takes the place of.
Deciding ==
  {"operation", "cancel_operation", "retry", "retried", "cancel_handle", "hand_over", "wait",
   "abandon", "apply", "complete_cleanup_gate", "expired", "check", "resolve"}

\* What is left once a call is all done: its lock, the reservation, and what was begun with it.
Ends(c) == c.op \in {"unlock", "unreserve"} \/ Outer(c)

\* b may come after a among the calls of p.
Follows(p, a, b) ==
  /\ b.op = "unlock" => Inner(a)
  /\ Outer(a) \/ a.op = "unlock" => Outer(b)
  /\ a.op # "reserve"
  /\ a.op \in Deciding => Ends(b)
  /\ a.op = "lost" => b.op = "drop" \/ Ends(b)
  /\ wiring = Static /\ p \in Tasks /\ a.op = "drop" => b.op = "schedule" \/ Ends(b)

IsSeq(s) == s \in Seq(ToSet(s))
IsCall(c) == c \in [op : {c.op}, task : {c.task}, row : {c.row}, to : {c.to}, answer : {c.answer},
                    entry : {c.entry}]
List(p, s) ==
  /\ IsSeq(s) /\ \A c \in ToSet(s) : IsCall(c)
  /\ \A i, j \in 1..Len(s) : i < j => Follows(p, s[i], s[j])
Queue(p, s) == List(p, s) /\ (s # <<>> => s[1].op # "unlock")

-----------------------------------------------------------------------------
(* Lists of calls. *)

\* The elements of a list, and of its tail.
LEMMA Elements ==
  ASSUME NEW s, IsSeq(s)
  PROVE  /\ Len(s) \in Nat /\ DOMAIN s = 1..Len(s)
         /\ \A i \in 1..Len(s) : s[i] \in ToSet(s)
         /\ \A c \in ToSet(s) : \E i \in 1..Len(s) : s[i] = c
         /\ s = <<>> <=> Len(s) = 0
         /\ s = <<>> <=> ToSet(s) = {}
<1>1. Len(s) \in Nat /\ DOMAIN s = 1..Len(s) /\ (s = <<>> <=> Len(s) = 0)
  BY LenProperties, EmptySeq DEF IsSeq
<1>2. /\ \A i \in 1..Len(s) : s[i] \in ToSet(s)
      /\ \A c \in ToSet(s) : \E i \in 1..Len(s) : s[i] = c
  BY <1>1 DEF ToSet
<1>3. QED BY <1>1, <1>2

LEMMA TailElements ==
  ASSUME NEW s, IsSeq(s), s # <<>>
  PROVE  /\ Head(s) = s[1] /\ s[1] \in ToSet(s)
         /\ IsSeq(Tail(s)) /\ Len(Tail(s)) = Len(s) - 1
         /\ \A i \in 1..(Len(s) - 1) : Tail(s)[i] = s[i + 1]
         /\ ToSet(Tail(s)) \subseteq ToSet(s)
         /\ \A c \in ToSet(s) : c = Head(s) \/ c \in ToSet(Tail(s))
<1> DEFINE t == Tail(s)
           n == Len(s)
<1>1. /\ n \in Nat \ {0} /\ DOMAIN s = 1..n
      /\ \A i \in 1..n : s[i] \in ToSet(s)
      /\ \A c \in ToSet(s) : \E i \in 1..n : s[i] = c
  BY Elements
<1>2. /\ Head(s) = s[1] /\ t \in Seq(ToSet(s)) /\ Len(t) = n - 1
      /\ \A i \in 1..(n - 1) : t[i] = s[i + 1]
  BY HeadTailProperties DEF IsSeq
<1>3. DOMAIN t = 1..(n - 1)
  BY <1>2, LenProperties
<1>4. ToSet(t) \subseteq ToSet(s)
  <2>1. ASSUME NEW i \in DOMAIN t PROVE t[i] \in ToSet(s)
    <3>1. i \in 1..(n - 1) /\ i + 1 \in 1..n
      BY <1>1, <1>3
    <3>2. QED BY <3>1, <1>1, <1>2
  <2>2. QED BY <2>1 DEF ToSet
<1>5. ASSUME NEW c \in ToSet(s), c # Head(s) PROVE c \in ToSet(t)
  <2>1. PICK i \in 1..n : s[i] = c
    BY <1>1
  <2>2. i - 1 \in 1..(n - 1) /\ t[i - 1] = c
    BY <2>1, <1>1, <1>2, <1>5
  <2>3. QED BY <2>2, <1>3 DEF ToSet
<1>6. t \in [1..(n - 1) -> ToSet(t)]
  <2>1. t \in [1..(n - 1) -> ToSet(s)]
    BY <1>2, LenProperties
  <2>2. \A i \in 1..(n - 1) : t[i] \in ToSet(t)
    BY <1>3 DEF ToSet
  <2>3. QED BY <2>1, <2>2
<1>7. IsSeq(t)
  <2>1. n - 1 \in Nat
    BY <1>1
  <2>2. QED BY <2>1, <1>6, SeqDef DEF IsSeq
<1>8. QED BY <1>1, <1>2, <1>4, <1>5, <1>7

LEMMA Joined ==
  ASSUME NEW x, NEW y, IsSeq(x), IsSeq(y)
  PROVE  /\ IsSeq(x \o y) /\ Len(x \o y) = Len(x) + Len(y)
         /\ \A i \in 1..(Len(x) + Len(y)) : (x \o y)[i] = IF i <= Len(x) THEN x[i] ELSE y[i - Len(x)]
         /\ ToSet(x \o y) = ToSet(x) \cup ToSet(y)
<1> DEFINE S == ToSet(x) \cup ToSet(y)
           z == x \o y
<1>1. x \in Seq(S) /\ y \in Seq(S)
  BY SeqMonotonic DEF IsSeq
<1>2. /\ z \in Seq(S) /\ Len(z) = Len(x) + Len(y)
      /\ \A i \in 1..(Len(x) + Len(y)) : z[i] = IF i <= Len(x) THEN x[i] ELSE y[i - Len(x)]
  BY <1>1, ConcatProperties
<1>3. /\ Len(x) \in Nat /\ Len(y) \in Nat
      /\ \A c \in ToSet(x) : \E i \in 1..Len(x) : x[i] = c
      /\ \A c \in ToSet(y) : \E i \in 1..Len(y) : y[i] = c
  BY Elements
<1>4. DOMAIN z = 1..(Len(x) + Len(y))
  BY <1>2, LenProperties
<1>5. ToSet(z) \subseteq S
  BY <1>2, <1>4, LenProperties DEF ToSet
<1>6. ASSUME NEW c \in S PROVE c \in ToSet(z)
  <2>1. CASE c \in ToSet(x)
    <3>1. PICK i \in 1..Len(x) : x[i] = c
      BY <2>1, <1>3
    <3>2. i \in 1..(Len(x) + Len(y)) /\ z[i] = c
      BY <3>1, <1>2, <1>3
    <3>3. QED BY <3>2, <1>4 DEF ToSet
  <2>2. CASE c \in ToSet(y)
    <3>1. PICK i \in 1..Len(y) : y[i] = c
      BY <2>2, <1>3
    <3>2. Len(x) + i \in 1..(Len(x) + Len(y)) /\ z[Len(x) + i] = c
      BY <3>1, <1>2, <1>3
    <3>3. QED BY <3>2, <1>4 DEF ToSet
  <2>3. QED BY <2>1, <2>2
<1>7. ToSet(z) = S
  BY <1>5, <1>6
<1>8. IsSeq(z)
  BY <1>2, <1>7 DEF IsSeq
<1>9. QED BY <1>2, <1>7, <1>8

\* A list may be put before another if all its calls may come before the other's.
LEMMA JoinedLists ==
  ASSUME NEW p, NEW x, NEW y, List(p, x), List(p, y),
         \A a \in ToSet(x) : \A b \in ToSet(y) : Follows(p, a, b)
  PROVE  List(p, x \o y) /\ ToSet(x \o y) = ToSet(x) \cup ToSet(y)
<1>1. /\ IsSeq(x \o y) /\ Len(x \o y) = Len(x) + Len(y)
      /\ \A i \in 1..(Len(x) + Len(y)) : (x \o y)[i] = IF i <= Len(x) THEN x[i] ELSE y[i - Len(x)]
      /\ ToSet(x \o y) = ToSet(x) \cup ToSet(y)
  BY Joined DEF List
<1>2. /\ Len(x) \in Nat /\ Len(y) \in Nat
      /\ \A i \in 1..Len(x) : x[i] \in ToSet(x)
      /\ \A i \in 1..Len(y) : y[i] \in ToSet(y)
  BY Elements DEF List
<1>3. ASSUME NEW i \in 1..(Len(x) + Len(y)), NEW j \in 1..(Len(x) + Len(y)), i < j
      PROVE  Follows(p, (x \o y)[i], (x \o y)[j])
  <2>1. CASE j <= Len(x)
    BY <2>1, <1>1, <1>2, <1>3 DEF List
  <2>2. CASE i <= Len(x) /\ j > Len(x)
    <3>1. i \in 1..Len(x) /\ j - Len(x) \in 1..Len(y)
      BY <2>2, <1>2
    <3>2. (x \o y)[i] = x[i] /\ (x \o y)[j] = y[j - Len(x)]
      BY <2>2, <1>1, <1>2
    <3>3. QED BY <3>1, <3>2, <1>2
  <2>3. CASE i > Len(x)
    <3>1. i - Len(x) \in 1..Len(y) /\ j - Len(x) \in 1..Len(y) /\ i - Len(x) < j - Len(x)
      BY <2>3, <1>2, <1>3
    <3>2. (x \o y)[i] = y[i - Len(x)] /\ (x \o y)[j] = y[j - Len(x)]
      BY <2>3, <1>1, <1>2, <1>3
    <3>3. QED BY <3>1, <3>2 DEF List
  <2>4. QED BY <2>1, <2>2, <2>3, <1>2
<1>4. QED BY <1>1, <1>3 DEF List

LEMMA Short ==
  ASSUME NEW p
  PROVE  /\ List(p, <<>>) /\ ToSet(<<>>) = {}
         /\ \A a : IsCall(a) => List(p, <<a>>) /\ ToSet(<<a>>) = {a}
         /\ \A a, b : IsCall(a) /\ IsCall(b) /\ Follows(p, a, b) =>
              List(p, <<a, b>>) /\ ToSet(<<a, b>>) = {a, b}
         /\ \A a, b, c : /\ IsCall(a) /\ IsCall(b) /\ IsCall(c)
                         /\ Follows(p, a, b) /\ Follows(p, a, c) /\ Follows(p, b, c)
              => List(p, <<a, b, c>>) /\ ToSet(<<a, b, c>>) = {a, b, c}
<1>1. List(p, <<>>) /\ ToSet(<<>>) = {}
  <2>1. DOMAIN <<>> = {} /\ Len(<<>>) = 0
    OBVIOUS
  <2>2. ToSet(<<>>) = {}
    BY <2>1 DEF ToSet
  <2>3. QED BY <2>1, <2>2 DEF List, IsSeq
<1>2. ASSUME NEW a, IsCall(a) PROVE List(p, <<a>>) /\ ToSet(<<a>>) = {a}
  <2>1. DOMAIN <<a>> = 1..1 /\ <<a>>[1] = a /\ Len(<<a>>) = 1 /\ <<a>> \in Seq({a})
    OBVIOUS
  <2>2. ToSet(<<a>>) = {a}
    BY <2>1 DEF ToSet
  <2>3. QED BY <2>1, <2>2, <1>2 DEF List, IsSeq
<1>3. ASSUME NEW a, NEW b, IsCall(a), IsCall(b), Follows(p, a, b) PROVE List(p, <<a, b>>) /\ ToSet(<<a, b>>) = {a, b}
  <2> DEFINE s == <<a, b>>
  <2>1. DOMAIN s = 1..2 /\ s[1] = a /\ s[2] = b /\ Len(s) = 2 /\ s \in Seq({a, b})
    OBVIOUS
  <2>2. ToSet(s) = {a, b}
    BY <2>1 DEF ToSet
  <2> HIDE DEF s
  <2>3. QED BY <2>1, <2>2, <1>3 DEF List, IsSeq
<1>4. ASSUME NEW a, NEW b, NEW c, IsCall(a), IsCall(b), IsCall(c),
             Follows(p, a, b), Follows(p, a, c), Follows(p, b, c)
      PROVE  List(p, <<a, b, c>>) /\ ToSet(<<a, b, c>>) = {a, b, c}
  <2> DEFINE s == <<a, b, c>>
  <2>1. DOMAIN s = 1..3 /\ s[1] = a /\ s[2] = b /\ s[3] = c /\ Len(s) = 3 /\ s \in Seq({a, b, c})
    OBVIOUS
  <2>2. ToSet(s) = {a, b, c}
    BY <2>1 DEF ToSet
  <2> HIDE DEF s
  <2>3. ASSUME NEW i \in 1..3, NEW j \in 1..3, i < j PROVE Follows(p, s[i], s[j])
    BY <2>1, <2>3, <1>4
  <2>4. QED BY <2>1, <2>2, <2>3, <1>4 DEF List, IsSeq, s
<1>5. QED BY <1>1, <1>2, <1>3, <1>4

-----------------------------------------------------------------------------
(* Threads. *)

Queues == todo = [p \in Threads |-> todo[p]] /\ \A p \in Threads : Queue(p, todo[p])

\* The first call of p, which may be followed by what follows it, gives way to the calls N.
Takes(p, N) ==
  /\ ~ Idle(p)
  /\ \E calls : /\ Queue(p, calls) /\ N = ToSet(calls)
                /\ todo' = [todo EXCEPT ![p] = Unlocked(calls \o Tail(@))]
  /\ \A a \in N, b \in Calls(p) : Follows(p, Arg(p), b) => Follows(p, a, b)
  /\ wiring' = wiring

\* What is left of the calls then.  A lock is given back when only what was begun before is left.
Taken(p, N) ==
  /\ ~ Idle(p) /\ Arg(p) \in Calls(p) /\ Arg(p).op # "unlock"
  /\ N \subseteq Calls(p)'
  /\ \A c \in Calls(p)' : c \in N \/ (c \in Calls(p) /\ Follows(p, Arg(p), c))
  /\ \A c \in Calls(p) : \/ c = Arg(p) \/ c \in Calls(p)'
                         \/ c.op = "unlock" /\ \A b \in Calls(p)' : Outer(b)
  /\ \A q \in Threads \ {p} : Calls(q)' = Calls(q)

LEMMA TailList ==
  ASSUME NEW p, NEW s, List(p, s), s # <<>>
  PROVE  List(p, Tail(s)) /\ \A c \in ToSet(Tail(s)) : Follows(p, Head(s), c)
<1>1. /\ Head(s) = s[1] /\ IsSeq(Tail(s)) /\ Len(Tail(s)) = Len(s) - 1
      /\ \A i \in 1..(Len(s) - 1) : Tail(s)[i] = s[i + 1]
  BY TailElements DEF List
<1>2. Len(s) \in Nat \ {0}
  BY Elements DEF List
<1>3. ASSUME NEW i \in 1..Len(Tail(s)), NEW j \in 1..Len(Tail(s)), i < j
      PROVE  Follows(p, Tail(s)[i], Tail(s)[j])
  <2>1. i + 1 \in 1..Len(s) /\ j + 1 \in 1..Len(s) /\ i + 1 < j + 1
    BY <1>1, <1>2, <1>3
  <2>2. Tail(s)[i] = s[i + 1] /\ Tail(s)[j] = s[j + 1]
    BY <1>1, <1>2, <1>3
  <2>3. QED BY <2>1, <2>2 DEF List
<1>4. ASSUME NEW c \in ToSet(Tail(s)) PROVE Follows(p, Head(s), c)
  <2>1. PICK i \in 1..Len(Tail(s)) : Tail(s)[i] = c
    BY <1>1, Elements
  <2>2. i + 1 \in 1..Len(s) /\ 1 \in 1..Len(s) /\ 1 < i + 1 /\ s[i + 1] = c
    BY <2>1, <1>1, <1>2
  <2>3. QED BY <2>2, <1>1 DEF List
<1>5. \A c \in ToSet(Tail(s)) : IsCall(c)
  BY TailElements DEF List
<1>6. QED BY <1>1, <1>3, <1>4, <1>5 DEF List

\* What becomes of one thread's list.
LEMMA Rest ==
  ASSUME NEW p, NEW s, Queue(p, s), s # <<>>, NEW calls, Queue(p, calls),
         \A a \in ToSet(calls), b \in ToSet(s) : Follows(p, Head(s), b) => Follows(p, a, b),
         NEW r, r = Unlocked(calls \o Tail(s))
  PROVE  /\ Queue(p, r)
         /\ ToSet(calls) \subseteq ToSet(r)
         /\ \A c \in ToSet(r) : c \in ToSet(calls) \/ (c \in ToSet(s) /\ Follows(p, Head(s), c))
         /\ \A c \in ToSet(s) : \/ c = Head(s) \/ c \in ToSet(r)
                                \/ c.op = "unlock" /\ \A b \in ToSet(r) : Outer(b)
<1> DEFINE z == calls \o Tail(s)
<1>1. /\ ToSet(Tail(s)) \subseteq ToSet(s)
      /\ \A c \in ToSet(s) : c = Head(s) \/ c \in ToSet(Tail(s))
  BY TailElements DEF Queue, List
<1>2. List(p, Tail(s)) /\ \A c \in ToSet(Tail(s)) : Follows(p, Head(s), c)
  BY TailList DEF Queue
<1>3. List(p, z) /\ ToSet(z) = ToSet(calls) \cup ToSet(Tail(s))
  <2>1. List(p, calls) /\ \A a \in ToSet(calls), b \in ToSet(Tail(s)) : Follows(p, a, b)
    BY <1>1, <1>2 DEF Queue
  <2>2. PICK t : t = Tail(s)
    OBVIOUS
  <2>3. List(p, t) /\ \A a \in ToSet(calls), b \in ToSet(t) : Follows(p, a, b)
    BY <2>1, <2>2, <1>2
  <2>4. List(p, calls \o t)
    BY <2>1, <2>3, JoinedLists
  <2>5. ToSet(calls \o t) = ToSet(calls) \cup ToSet(t)
    <3>1. IsSeq(calls) /\ IsSeq(t)
      BY <2>1, <2>3 DEF List
    <3>2. QED BY <3>1, Joined
  <2>6. QED BY <2>2, <2>4, <2>5
<1>4. CASE z = <<>> \/ Head(z).op # "unlock"
  <2>1. r = z
    BY <1>4 DEF Unlocked
  <2>2. z # <<>> => z[1].op # "unlock"
    BY <1>3, <1>4, TailElements DEF List
  <2>3. QED BY <1>1, <1>2, <1>3, <2>1, <2>2 DEF Queue
<1>5. CASE z # <<>> /\ Head(z).op = "unlock"
  <2>1. r = Tail(z)
    BY <1>5 DEF Unlocked
  <2>2. calls = <<>>
    <3>1. SUFFICES ASSUME calls # <<>> PROVE FALSE
      OBVIOUS
    <3>2. IsSeq(calls) /\ IsSeq(Tail(s)) /\ IsSeq(z)
      BY <1>2, <1>3 DEF Queue, List
    <3>3. Len(calls) \in Nat \ {0} /\ Len(Tail(s)) \in Nat
      BY <3>1, <3>2, Elements
    <3>4. z[1] = calls[1]
      <4>1. \A i \in 1..(Len(calls) + Len(Tail(s))) : z[i] = IF i <= Len(calls) THEN calls[i] ELSE Tail(s)[i - Len(calls)]
        BY <3>2, Joined
      <4>2. 1 \in 1..(Len(calls) + Len(Tail(s))) /\ 1 <= Len(calls)
        BY <3>3
      <4>3. QED BY <4>1, <4>2
    <3>5. z[1].op = "unlock"
      BY <1>5, <3>2, TailElements
    <3>6. QED BY <3>1, <3>4, <3>5 DEF Queue
  <2>3. /\ ToSet(Tail(z)) \subseteq ToSet(z)
        /\ \A c \in ToSet(z) : c = Head(z) \/ c \in ToSet(Tail(z))
        /\ Head(z) \in ToSet(z)
    BY <1>3, <1>5, TailElements DEF List
  <2>4. List(p, r) /\ \A c \in ToSet(r) : Follows(p, Head(z), c)
    BY <1>3, <1>5, <2>1, TailList
  <2>5. \A c \in ToSet(r) : Outer(c)
    BY <2>4, <1>5 DEF Follows
  <2>6. r # <<>> => r[1].op # "unlock"
    <3>1. SUFFICES ASSUME r # <<>> PROVE r[1].op # "unlock"
      OBVIOUS
    <3>2. r[1] \in ToSet(r)
      BY <3>1, <2>4, TailElements DEF List
    <3>3. QED BY <3>2, <2>5 DEF Outer, OuterOps
  <2>7. ToSet(calls) = {}
    BY <2>2, Short
  <2>8. QED BY <1>1, <1>2, <1>3, <1>5, <2>1, <2>3, <2>4, <2>5, <2>6, <2>7 DEF Queue
<1>6. QED BY <1>4, <1>5

LEMMA TakesTaken ==
  ASSUME Queues, NEW p \in Threads, NEW N, Takes(p, N)
  PROVE  Queues' /\ Taken(p, N)
<1>1. PICK calls : /\ Queue(p, calls) /\ N = ToSet(calls)
                   /\ todo' = [todo EXCEPT ![p] = Unlocked(calls \o Tail(@))]
  BY DEF Takes
<1>2. todo'[p] = Unlocked(calls \o Tail(todo[p])) /\ \A q \in Threads \ {p} : todo'[q] = todo[q]
  BY <1>1 DEF Queues
<1>3. Queue(p, todo[p]) /\ todo[p] # <<>>
  BY DEF Queues, Takes, Idle
<1> DEFINE s == todo[p]
           r == todo'[p]
<1>4. /\ Queue(p, r)
      /\ ToSet(calls) \subseteq ToSet(r)
      /\ \A c \in ToSet(r) : c \in ToSet(calls) \/ (c \in ToSet(s) /\ Follows(p, Head(s), c))
      /\ \A c \in ToSet(s) : \/ c = Head(s) \/ c \in ToSet(r)
                             \/ c.op = "unlock" /\ \A b \in ToSet(r) : Outer(b)
  <2>1. \A a \in ToSet(calls), b \in ToSet(s) : Follows(p, Head(s), b) => Follows(p, a, b)
    BY <1>1 DEF Takes, Calls, Arg
  <2> HIDE DEF s, r
  <2>2. Queue(p, s) /\ s # <<>> /\ r = Unlocked(calls \o Tail(s))
    BY <1>2, <1>3 DEF s, r
  <2>3. QED BY <1>1, <2>1, <2>2, Rest
<1>5. Head(s) \in ToSet(s) /\ Head(s).op # "unlock"
  BY <1>3, TailElements DEF Queue, List
<1>6. Taken(p, N)
  BY <1>1, <1>2, <1>3, <1>4, <1>5 DEF Taken, Idle, Arg, Calls
<1>7. \A q \in Threads : Queue(q, todo[q])'
  <2>1. \A q, x : Queue(q, x)' <=> Queue(q, x')
    BY DEF Takes, Queue, List, IsSeq, IsCall, Follows
  <2>2. QED BY <1>2, <1>4, <2>1 DEF Queues
<1>8. todo' = [q \in Threads |-> todo'[q]]
  BY <1>1 DEF Queues
<1>9. QED BY <1>6, <1>7, <1>8 DEF Queues

-----------------------------------------------------------------------------
(* Calls. *)

\* c is the call with these arguments.
Is(c, op, t, row, to, a, e) ==
  IsCall(c) /\ c.op = op /\ c.task = t /\ c.row = row /\ c.to = to /\ c.answer = a /\ c.entry = e

LEMMA CallFields ==
  /\ \A op, t : Is(Call(op, t), op, t, NoRow, NONE, A("failed"), NoInteraction)
  /\ \A op, t, row : Is(RowCall(op, t, row), op, t, row, NONE, A("failed"), NoInteraction)
  /\ \A op, t, e : Is(EntryCall(op, t, e), op, t, NoRow, NONE, A("failed"), e)
  /\ \A op, t, a : Is(AnswerCall(op, t, a), op, t, NoRow, NONE, a, NoInteraction)
  /\ \A t, row, to : Is(Transition(t, row, to), "transition", t, row, to, A("failed"), NoInteraction)
  /\ \A t, e, for : Is(CancelHandle(t, e, for), "cancel_handle", t, NoRow, for, A("failed"), e)
  /\ \A t, e : Is(Unchecked(t, e), "retry_cleanup", t, NoRow, "unchecked", A("failed"), e)
<1>1. \A op, t : Is(Call(op, t), op, t, NoRow, NONE, A("failed"), NoInteraction)
  BY DEF Call, Is, IsCall
<1>2. \A op, t, row : Is(RowCall(op, t, row), op, t, row, NONE, A("failed"), NoInteraction)
  BY DEF Call, RowCall, Is, IsCall
<1>3. \A op, t, e : Is(EntryCall(op, t, e), op, t, NoRow, NONE, A("failed"), e)
  BY DEF Call, EntryCall, Is, IsCall
<1>4. \A op, t, a : Is(AnswerCall(op, t, a), op, t, NoRow, NONE, a, NoInteraction)
  BY DEF Call, AnswerCall, Is, IsCall
<1>5. \A t, row, to : Is(Transition(t, row, to), "transition", t, row, to, A("failed"), NoInteraction)
  BY <1>2 DEF Transition, Is, IsCall
<1>6. \A t, e, for : Is(CancelHandle(t, e, for), "cancel_handle", t, NoRow, for, A("failed"), e)
  BY <1>3 DEF CancelHandle, Is, IsCall
<1>7. \A t, e : Is(Unchecked(t, e), "retry_cleanup", t, NoRow, "unchecked", A("failed"), e)
  BY <1>3 DEF Unchecked, Is, IsCall
<1>8. QED BY <1>1, <1>2, <1>3, <1>4, <1>5, <1>6, <1>7

\* A call made from another.
LEMMA CallAgain ==
  ASSUME NEW c, IsCall(c)
  PROVE  /\ \A x : Is([c EXCEPT !.op = x], x, c.task, c.row, c.to, c.answer, c.entry)
         /\ \A x, y : Is([c EXCEPT !.op = x, !.answer = y], x, c.task, c.row, c.to, y, c.entry)
         /\ \A x, y : Is([c EXCEPT !.op = x, !.row = y], x, c.task, y, c.to, c.answer, c.entry)
         /\ \A y : Is([c EXCEPT !.answer = y], c.op, c.task, c.row, c.to, y, c.entry)
BY DEF IsCall, Is

LEMMA WaitFields ==
  ASSUME NEW t, NEW row, NEW a
  PROVE  Is([RowCall("wait", t, row) EXCEPT !.answer = a], "wait", t, row, NONE, a, NoInteraction)
<1>1. PICK b : b = RowCall("wait", t, row)
  OBVIOUS
<1>2. Is(b, "wait", t, row, NONE, A("failed"), NoInteraction)
  BY <1>1, CallFields
<1>3. Is([b EXCEPT !.answer = a], "wait", t, row, NONE, a, NoInteraction)
  BY <1>2 DEF Is, IsCall
<1>4. QED BY <1>1, <1>3

\* What follows a call that has been replaced, or one a thread began with, may follow what
\* takes its place.
LEMMA After ==
  ASSUME NEW p, NEW h, NEW a, NEW b, Follows(p, h, b), a.op # "reserve",
         \/ Outer(h)
         \/ h.op \in {"check", "resolve"} /\ (Inner(a) \/ a.op = "resolve")
         \/ h.op \in Deciding /\ Inner(a)
         \/ /\ h.op \in InnerOps /\ Inner(a) /\ a.op \notin Deciding \cup {"lost"}
            /\ a.op = "drop" => ~ (wiring = Static /\ p \in Tasks)
         \/ h.op = "reserve"
  PROVE  Follows(p, a, b)
BY DEF Follows, Inner, InnerOps, Outer, OuterOps, Ends, Deciding

\* A queue of one, two or three calls.
LEMMA Queue1 ==
  ASSUME NEW p, NEW a, IsCall(a), a.op # "unlock"
  PROVE  Queue(p, <<a>>) /\ ToSet(<<a>>) = {a}
<1>1. List(p, <<a>>) /\ ToSet(<<a>>) = {a} /\ <<a>>[1] = a
  BY Short
<1>2. QED BY <1>1 DEF Queue

LEMMA Queue2 ==
  ASSUME NEW p, NEW a, NEW b, IsCall(a), IsCall(b), a.op # "unlock", Follows(p, a, b)
  PROVE  Queue(p, <<a, b>>) /\ ToSet(<<a, b>>) = {a, b}
<1>1. List(p, <<a, b>>) /\ ToSet(<<a, b>>) = {a, b} /\ <<a, b>>[1] = a
  BY Short
<1>2. QED BY <1>1 DEF Queue

LEMMA Queue3 ==
  ASSUME NEW p, NEW a, NEW b, NEW c, IsCall(a), IsCall(b), IsCall(c), a.op # "unlock",
         Follows(p, a, b), Follows(p, a, c), Follows(p, b, c)
  PROVE  Queue(p, <<a, b, c>>) /\ ToSet(<<a, b, c>>) = {a, b, c}
<1>1. List(p, <<a, b, c>>) /\ ToSet(<<a, b, c>>) = {a, b, c} /\ <<a, b, c>>[1] = a
  BY Short
<1>2. QED BY <1>1 DEF Queue

\* A step that puts this list in the place of its call.
LEMMA ThenTakes ==
  ASSUME NEW p, ~ Idle(p), NEW calls, Then(p, calls), Queue(p, calls),
         \A a \in ToSet(calls), b \in Calls(p) : Follows(p, Arg(p), b) => Follows(p, a, b)
  PROVE  Takes(p, ToSet(calls))
BY DEF Then, Takes

LEMMA Then0 ==
  ASSUME NEW p, ~ Idle(p), Then(p, <<>>)
  PROVE  Takes(p, {})
BY Short DEF Then, Takes, Queue

LEMMA Then1 ==
  ASSUME NEW p, ~ Idle(p), NEW a, Then(p, <<a>>), IsCall(a), a.op # "unlock",
         \A b \in Calls(p) : Follows(p, Arg(p), b) => Follows(p, a, b)
  PROVE  Takes(p, {a})
BY Queue1 DEF Then, Takes

LEMMA Then2 ==
  ASSUME NEW p, ~ Idle(p), NEW a, NEW b, Then(p, <<a, b>>), IsCall(a), IsCall(b), a.op # "unlock",
         Follows(p, a, b),
         \A c \in Calls(p) : Follows(p, Arg(p), c) => Follows(p, a, c) /\ Follows(p, b, c)
  PROVE  Takes(p, {a, b})
BY Queue2 DEF Then, Takes

LEMMA Then3 ==
  ASSUME NEW p, ~ Idle(p), NEW a, NEW b, NEW c, Then(p, <<a, b, c>>),
         IsCall(a), IsCall(b), IsCall(c), a.op # "unlock",
         Follows(p, a, b), Follows(p, a, c), Follows(p, b, c),
         \A d \in Calls(p) :
           Follows(p, Arg(p), d) => Follows(p, a, d) /\ Follows(p, b, d) /\ Follows(p, c, d)
  PROVE  Takes(p, {a, b, c})
<1>1. Queue(p, <<a, b, c>>) /\ ToSet(<<a, b, c>>) = {a, b, c}
  BY Queue3
<1>2. QED BY <1>1 DEF Then, Takes

-----------------------------------------------------------------------------
(* The static service: it gives out confirmations only. *)

\* What a worker is never to do, and what it may do with another's task.
ClientOps ==
  {"act", "operation", "cancel_interaction", "cancel_operation", "apply", "view", "close_entry"}
SweepOps ==
  {"sweep_expired", "unlock", "sweep_terminal", "expire", "cancel_handle", "expired", "release",
   "drop", "lost"}
ProbeOps ==
  {"sweep", "sweep_terminal", "sweep_expired", "expire", "expired", "reserve", "check", "resolve",
   "unreserve"}

\* What a browser's handles need.
BrowserOps ==
  {"retry_cleanup", "retry", "retried", "complete_cleanup_gate", "require_cleanup",
   "store_cancel_pending", "enter_cancel_pending", "retry_stored", "close_check"}
StaticOps == (InnerOps \cup OuterOps \cup {"unlock", "unreserve", "check", "resolve"}) \ BrowserOps

RowOps ==
  {"transition", "wait", "hand_over", "lost", "reserve", "check", "resolve", "operation", "schedule"}
EntryOps ==
  {"act", "operation", "cancel_interaction", "cancel_operation", "expire", "cancel_handle"}

\* A row somebody has read: an older version of the task's, or the task's.
ReadRow(row, t) ==
  /\ row \in TaskRow /\ row.version <= tasks[t].version
  /\ row.version = tasks[t].version => row = tasks[t]

CallOk(c) ==
  /\ c.op \in StaticOps
  /\ c.op \notin {"unlock", "sweep_expired"} => c.task \in Tasks
  /\ c.op \in RowOps => ReadRow(c.row, c.task)
  /\ c.op \in {"reserve", "check", "resolve"} => c.row.status = "probing"
  /\ c.op \in {"wait", "hand_over"} => c.row.status \in {"probing", "waiting_for_user"}
  /\ c.op \in {"wait", "store"} => c.answer.kind = "confirmation"
  /\ c.op \in {"operation", "lost"} => c.row.status = "waiting_for_user"
  /\ c.op = "apply" => c.answer.kind = "cancelled"
  /\ c.op \in EntryOps => c.entry.kind = "confirmation" /\ c.entry.id # 0
  /\ c.op = "transition" => /\ c.to \in Exits \cup {"recoverable_failed"}
                            /\ c.to = "recoverable_failed" => c.row.status \in ACTIVE_STATUSES
  /\ c.op = "cancel_handle" => c.to \in {"expired", "abandon", "terminal", "closing"}

\* Which thread makes which call.
PlaceOk(p, c) ==
  /\ p \in Tasks => /\ c.op \notin ClientOps
                    /\ c.task = p \/ c.op \in SweepOps
                    /\ c.op = "cancel_handle" => c.to \in {"terminal", "expired"} \/ (c.to = "abandon" /\ c.task = p)
  /\ p = Client => /\ c.op \notin ProbeOps
                   /\ c.op = "cancel_handle" => c.to \in {"closing", "abandon"}
  /\ c.op = "cancel_handle" /\ c.to = "terminal" => tasks[c.task].status \in TERMINAL_STATUSES

IsEntry(e) == e \in [id : {e.id}, kind : {e.kind}, original : {e.original}, handle : {e.handle},
                     lock : {e.lock}, expired : BOOLEAN]

SessionsOk(s) == s = [h \in Handles |-> s[h]] /\ \A h \in Handles : s[h].kind \in {"none", "confirmation"}
EntryOk(e) == e = NoInteraction \/ (IsEntry(e) /\ e.kind = "confirmation" /\ e.id # 0)

RowsOk == tasks \in [Tasks -> TaskRow] /\ \A t \in Tasks : tasks[t].resume_gate = "none"
EntriesOk == interactions = [t \in Tasks |-> interactions[t]] /\ \A t \in Tasks : EntryOk(interactions[t])
LeasesOk ==
  /\ leases \in [Tasks -> [owner : Nat, live : BOOLEAN]] /\ owner \in Nat
  /\ \A t \in Tasks : leases[t].owner <= owner

DataOk == RowsOk /\ SessionsOk(sessions) /\ EntriesOk /\ LeasesOk /\ closed \in {"no", "complete"}

StaticOk ==
  wiring = Static => DataOk /\ \A p \in Threads : \A c \in Calls(p) : CallOk(c) /\ PlaceOk(p, c)

\* An interaction's lock has one holder.
OneHolder ==
  \A p, q \in Threads : \A c \in Calls(p), d \in Calls(q) :
    c.op = "unlock" /\ d.op = "unlock" /\ c.entry.lock = d.entry.lock => p = q

Sound == Queues /\ OneHolder /\ StaticOk

\* The static service's answers.
LEMMA StaticAnswers ==
  ASSUME wiring = Static, NEW s, SessionsOk(s)
  PROVE  /\ \A t : \A o \in resolve(s, t) :
              SessionsOk(o.sessions) /\ o.answer.kind \in {"found", "rejected", "failed", "confirmation"}
         /\ \A k : \A o \in confirm_config(s, k) :
              SessionsOk(o.sessions) /\ o.answer.kind \in {"found", "rejected", "failed", "confirmation"}
         /\ \A k : \A o \in cancel_config(s, k) : SessionsOk(o.sessions) /\ o.answer = A("cancelled")
         /\ expire_sweep(s) = {s}
<1>1. ASSUME NEW x, NEW kind, kind # "confirmation" PROVE Opens(s, kind, x) = {}
  BY <1>1 DEF Opens, Static
<1>2. ASSUME NEW t, NEW o \in Opens(s, "confirmation", Of(t))
      PROVE  SessionsOk(o.sessions) /\ o.answer.kind = "confirmation"
  <2>1. PICK h \in Handles : o = Out(For("confirmation", h), [s EXCEPT ![h] = [Of(t) EXCEPT !.kind = "confirmation", !.state = "open"]])
    BY <1>2 DEF Opens, NextHandle, Static
  <2>2. [Of(t) EXCEPT !.kind = "confirmation", !.state = "open"].kind = "confirmation"
    BY DEF Of, Unopened
  <2>3. PICK v : v = [Of(t) EXCEPT !.kind = "confirmation", !.state = "open"]
    OBVIOUS
  <2>4. o.sessions = [s EXCEPT ![h] = v] /\ o.answer.kind = "confirmation"
    BY <2>1, <2>3 DEF Out, For
  <2>5. QED BY <2>2, <2>3, <2>4 DEF SessionsOk
<1>3. ASSUME NEW t, NEW o \in resolve_config(s, t)
      PROVE  SessionsOk(o.sessions) /\ o.answer.kind \in {"found", "rejected", "failed", "confirmation"}
  BY <1>2 DEF resolve_config, Same, Out, A, For
<1>4. ASSUME NEW t, NEW o \in resolve(s, t)
      PROVE  SessionsOk(o.sessions) /\ o.answer.kind \in {"found", "rejected", "failed", "confirmation"}
  <2>1. \A h \in Handles : s[h].kind \notin {"cleanup", "verification"}
    BY DEF SessionsOk
  <2>2. capture_acquisition_signal(s, t) = {}
    BY <1>1 DEF capture_acquisition_signal
  <2>3. resolve(s, t) = resolve_config(s, t) \cup capture_acquisition_signal(s, t)
    BY <2>1 DEF resolve
  <2>4. QED BY <2>2, <2>3, <1>3, <1>4
<1>5. ASSUME NEW x, SessionsOk(x), NEW h, NEW a PROVE SessionsOk(Closed(x, h, a))
  <2>1. PICK v : v = [Unopened EXCEPT !.kind = x[h].kind, !.task = x[h].task, !.state = "closed", !.answer = a]
    OBVIOUS
  <2>2. v.kind = x[h].kind
    BY <2>1 DEF Unopened
  <2>3. Closed(x, h, a) = [x EXCEPT ![h] = v]
    BY <2>1 DEF Closed
  <2>4. QED BY <2>2, <2>3, <1>5 DEF SessionsOk
<1>6. ASSUME NEW k, NEW o \in confirm_config(s, k)
      PROVE  SessionsOk(o.sessions) /\ o.answer.kind \in {"found", "rejected", "failed", "confirmation"}
  <2>1. CASE o \in Same(s, {A("rejected"), A("failed")})
    BY <2>1 DEF Same, Out, A, For
  <2>2. CASE o \in _finish(k, resolve_config(s, s[k].task))
    <3>1. PICK i \in resolve_config(s, s[k].task) : o = Out(i.answer, Closed(i.sessions, k, i.answer))
      BY <2>2 DEF _finish
    <3>2. SessionsOk(Closed(i.sessions, k, i.answer))
      BY <1>3, <1>5
    <3>3. QED BY <3>1, <3>2, <1>3 DEF Out
  <2>3. QED BY <1>6, <2>1, <2>2 DEF confirm_config
<1>7. ASSUME NEW k, NEW o \in cancel_config(s, k) PROVE SessionsOk(o.sessions) /\ o.answer = A("cancelled")
  <2>1. SessionsOk(Closed(s, k, A("cancelled")))
    BY <1>5
  <2>2. QED BY <1>7, <2>1 DEF cancel_config, Out
<1>8. expire_sweep(s) = {s}
  BY DEF expire_sweep, SessionsOk
<1>9. QED BY <1>4, <1>6, <1>7, <1>8

-----------------------------------------------------------------------------
(* _apply_result's calls. *)

\* What may take the place of a call that decides.
Plain(c) == IsCall(c) /\ Inner(c) /\ c.op \notin {"unlock", "reserve"}

LEMMA ApplyCalls ==
  ASSUME NEW t, NEW row, NEW a
  PROVE  /\ a.kind = "found" =>
              Apply(t, row, a) = <<RowCall("hand_over", t, row)>>
         /\ a.kind \in {"verification", "confirmation"} =>
              Apply(t, row, a) = <<[RowCall("wait", t, row) EXCEPT !.answer = a]>>
         /\ a.kind = "rejected" =>
              Apply(t, row, a) = <<Transition(t, row, "terminal_failed"), Call("release", t), Call("drop", t)>>
         /\ a.kind = "cancelled" =>
              Apply(t, row, a) = <<Transition(t, row, "cancelled"), Call("release", t), Call("drop", t)>>
         /\ a.kind = "cleanup" =>
              Apply(t, row, a) = (<<AnswerCall("store", t, a)>>
                \o (IF row.status = "waiting_for_user" THEN <<Call("release", t)>> ELSE <<>>))
                \o <<RowCall("require_cleanup", t, row)>>
         /\ a.kind \notin {"found", "verification", "confirmation", "rejected", "cancelled", "cleanup"} =>
              Apply(t, row, a) =
                IF row.status = "waiting_for_user"
                THEN <<Call("drop", t), Call("release", t), RowCall("lost", t, row)>>
                ELSE <<Transition(t, row, "recoverable_failed")>>
BY DEF Apply

\* The calls are made one after the other; a worker's probe never meets a waiting row.
LEMMA ApplyQueue ==
  ASSUME NEW p, NEW t, NEW row, NEW a, wiring = Static /\ p \in Tasks => row.status # "waiting_for_user"
  PROVE  Queue(p, Apply(t, row, a)) /\ \A c \in ToSet(Apply(t, row, a)) : Plain(c)
<1>0. ASSUME NEW c, NEW d, Plain(c), Plain(d), c.op \notin Deciding \cup {"lost"},
             ~ (wiring = Static /\ p \in Tasks /\ c.op = "drop")
      PROVE  Follows(p, c, d)
  BY <1>0 DEF Follows, Plain, Inner, InnerOps, Outer, OuterOps
<1>1. CASE a.kind = "found"
  <2>1. PICK c : c = RowCall("hand_over", t, row)
    OBVIOUS
  <2>2. c.op = "hand_over" /\ IsCall(c)
    BY <2>1, CallFields DEF Is
  <2>3. Plain(c)
    BY <2>2 DEF Plain, Inner, InnerOps
  <2>4. Queue(p, <<c>>) /\ ToSet(<<c>>) = {c}
    BY <2>2, Queue1
  <2>5. QED BY <1>1, <2>1, <2>3, <2>4, ApplyCalls
<1>2. CASE a.kind \in {"verification", "confirmation"}
  <2>1. PICK c : c = [RowCall("wait", t, row) EXCEPT !.answer = a]
    OBVIOUS
  <2>2. Is([RowCall("wait", t, row) EXCEPT !.answer = a], "wait", t, row, NONE, a, NoInteraction)
    BY WaitFields
  <2>3. Is(c, "wait", t, row, NONE, a, NoInteraction)
    BY <2>1, <2>2
  <2>4. c.op = "wait" /\ IsCall(c)
    BY <2>3 DEF Is
  <2>5. Plain(c)
    BY <2>4 DEF Plain, Inner, InnerOps
  <2>6. Queue(p, <<c>>) /\ ToSet(<<c>>) = {c}
    BY <2>4, Queue1
  <2>7. Apply(t, row, a) = <<c>>
    BY <1>2, <2>1 DEF Apply
  <2>8. QED BY <2>5, <2>6, <2>7
<1>3. ASSUME NEW to, Apply(t, row, a) = <<Transition(t, row, to), Call("release", t), Call("drop", t)>>
      PROVE  Queue(p, Apply(t, row, a)) /\ \A c \in ToSet(Apply(t, row, a)) : Plain(c)
  <2>1. PICK c, d, e : c = Transition(t, row, to) /\ d = Call("release", t) /\ e = Call("drop", t)
    OBVIOUS
  <2>2. c.op = "transition" /\ d.op = "release" /\ e.op = "drop" /\ IsCall(c) /\ IsCall(d) /\ IsCall(e)
    BY <2>1, CallFields DEF Is
  <2>3. Plain(c) /\ Plain(d) /\ Plain(e)
    BY <2>2 DEF Plain, Inner, InnerOps
  <2>4. Follows(p, c, d) /\ Follows(p, c, e) /\ Follows(p, d, e)
    BY <2>2, <2>3, <1>0 DEF Deciding
  <2>5. Queue(p, <<c, d, e>>) /\ ToSet(<<c, d, e>>) = {c, d, e}
    BY <2>2, <2>4, Queue3
  <2>6. QED BY <1>3, <2>1, <2>3, <2>5
<1>4. CASE a.kind = "cleanup"
  <2>1. PICK x, y, z : /\ x = AnswerCall("store", t, a) /\ y = Call("release", t)
                       /\ z = RowCall("require_cleanup", t, row)
    OBVIOUS
  <2>2. x.op = "store" /\ y.op = "release" /\ z.op = "require_cleanup" /\ IsCall(x) /\ IsCall(y) /\ IsCall(z)
    BY <2>1, CallFields DEF Is
  <2>3. Plain(x) /\ Plain(y) /\ Plain(z)
    BY <2>2 DEF Plain, Inner, InnerOps
  <2>4. Follows(p, x, y) /\ Follows(p, x, z) /\ Follows(p, y, z)
    BY <2>2, <2>3, <1>0 DEF Deciding
  <2>5. PICK m : m = IF row.status = "waiting_for_user" THEN <<y>> ELSE <<>>
    OBVIOUS
  <2>6. List(p, m) /\ ToSet(m) \subseteq {y}
    BY <2>2, <2>5, Short
  <2>7. List(p, <<x>>) /\ ToSet(<<x>>) = {x} /\ List(p, <<z>>) /\ ToSet(<<z>>) = {z}
    BY <2>2, Short
  <2>8. PICK n : n = <<x>> \o m
    OBVIOUS
  <2>9. List(p, n) /\ ToSet(n) \subseteq {x, y} /\ IsSeq(n) /\ Len(n) >= 1 /\ n[1] = x
    <3>1. \A c \in ToSet(<<x>>) : \A d \in ToSet(m) : Follows(p, c, d)
      BY <2>4, <2>6, <2>7
    <3>0. List(p, <<x>> \o m)
      BY <2>6, <2>7, <3>1, JoinedLists
    <3>2. ToSet(<<x>> \o m) = ToSet(<<x>>) \cup ToSet(m)
      BY <2>6, <2>7, Joined DEF List
    <3>3. /\ Len(<<x>> \o m) = Len(<<x>>) + Len(m)
          /\ \A i \in 1..(Len(<<x>>) + Len(m)) : (<<x>> \o m)[i] = IF i <= Len(<<x>>) THEN <<x>>[i] ELSE m[i - Len(<<x>>)]
      BY <2>6, <2>7, Joined DEF List
    <3>4. Len(<<x>>) = 1 /\ <<x>>[1] = x
      OBVIOUS
    <3>5. Len(m) \in Nat
      BY <2>6, Elements DEF List
    <3>6. 1 \in 1..(1 + Len(m)) /\ 1 + Len(m) >= 1
      BY <3>5
    <3>7. n[1] = x /\ Len(n) >= 1
      BY <2>8, <3>3, <3>4, <3>6
    <3>8. QED BY <2>6, <2>7, <2>8, <3>0, <3>2, <3>7 DEF List
  <2>10. List(p, n \o <<z>>) /\ ToSet(n \o <<z>>) \subseteq {x, y, z} /\ (n \o <<z>>)[1] = x
    <3>1. \A c \in ToSet(n) : \A d \in ToSet(<<z>>) : Follows(p, c, d)
      BY <2>4, <2>7, <2>9
    <3>0. List(p, n \o <<z>>)
      BY <2>7, <2>9, <3>1, JoinedLists
    <3>2. ToSet(n \o <<z>>) = ToSet(n) \cup ToSet(<<z>>)
      BY <2>7, <2>9, Joined DEF List
    <3>3. \A i \in 1..(Len(n) + Len(<<z>>)) : (n \o <<z>>)[i] = IF i <= Len(n) THEN n[i] ELSE <<z>>[i - Len(n)]
      BY <2>7, <2>9, Joined DEF List
    <3>4. Len(n) \in Nat /\ Len(<<z>>) = 1
      BY <2>9, Elements DEF List
    <3>5. 1 \in 1..(Len(n) + Len(<<z>>)) /\ 1 <= Len(n)
      BY <2>9, <3>4
    <3>6. QED BY <2>7, <2>9, <3>0, <3>2, <3>3, <3>5
  <2>11. Apply(t, row, a) = n \o <<z>>
    BY <1>4, <2>1, <2>5, <2>8, ApplyCalls
  <2>12. QED BY <2>2, <2>3, <2>10, <2>11 DEF Queue
<1>5. CASE a.kind \notin {"found", "verification", "confirmation", "rejected", "cancelled", "cleanup"}
  <2>1. CASE row.status = "waiting_for_user"
    <3>1. PICK c, d, e : c = Call("drop", t) /\ d = Call("release", t) /\ e = RowCall("lost", t, row)
      OBVIOUS
    <3>2. c.op = "drop" /\ d.op = "release" /\ e.op = "lost" /\ IsCall(c) /\ IsCall(d) /\ IsCall(e)
      BY <3>1, CallFields DEF Is
    <3>3. Plain(c) /\ Plain(d) /\ Plain(e)
      BY <3>2 DEF Plain, Inner, InnerOps
    <3>4. Follows(p, c, d) /\ Follows(p, c, e) /\ Follows(p, d, e)
      BY <3>2, <3>3, <1>0, <2>1 DEF Deciding
    <3>5. Queue(p, <<c, d, e>>) /\ ToSet(<<c, d, e>>) = {c, d, e}
      BY <3>2, <3>4, Queue3
    <3>6. Apply(t, row, a) = <<c, d, e>>
      BY <1>5, <2>1, <3>1, ApplyCalls
    <3>7. QED BY <3>3, <3>5, <3>6
  <2>2. CASE row.status # "waiting_for_user"
    <3>1. PICK c : c = Transition(t, row, "recoverable_failed")
      OBVIOUS
    <3>2. c.op = "transition" /\ IsCall(c)
      BY <3>1, CallFields DEF Is
    <3>3. Plain(c)
      BY <3>2 DEF Plain, Inner, InnerOps
    <3>4. Queue(p, <<c>>) /\ ToSet(<<c>>) = {c}
      BY <3>2, Queue1
    <3>5. QED BY <1>5, <2>2, <3>1, <3>3, <3>4, ApplyCalls
  <2>3. QED BY <2>1, <2>2
<1>6. QED BY <1>1, <1>2, <1>3, <1>4, <1>5, ApplyCalls

\* The same as sets, for the answers the static service gives.
LEMMA ApplySets ==
  ASSUME NEW t, NEW row, NEW a, NEW N, N = ToSet(Apply(t, row, a)),
         a.kind \in {"found", "rejected", "failed", "confirmation", "cancelled"}
  PROVE  \/ \E c : /\ N = {c} /\ a.kind = "found"
                   /\ Is(c, "hand_over", t, row, NONE, A("failed"), NoInteraction)
         \/ \E c : /\ N = {c} /\ a.kind = "confirmation"
                   /\ Is(c, "wait", t, row, NONE, a, NoInteraction)
         \/ \E c, d, e : /\ N = {c, d, e} /\ a.kind \in {"rejected", "cancelled"}
                         /\ Is(c, "transition", t, row, IF a.kind = "rejected" THEN "terminal_failed" ELSE "cancelled",
                               A("failed"), NoInteraction)
                         /\ Is(d, "release", t, NoRow, NONE, A("failed"), NoInteraction)
                         /\ Is(e, "drop", t, NoRow, NONE, A("failed"), NoInteraction)
         \/ \E c, d, e : /\ N = {c, d, e} /\ a.kind = "failed" /\ row.status = "waiting_for_user"
                         /\ Is(c, "drop", t, NoRow, NONE, A("failed"), NoInteraction)
                         /\ Is(d, "release", t, NoRow, NONE, A("failed"), NoInteraction)
                         /\ Is(e, "lost", t, row, NONE, A("failed"), NoInteraction)
         \/ \E c : /\ N = {c} /\ a.kind = "failed" /\ row.status # "waiting_for_user"
                   /\ Is(c, "transition", t, row, "recoverable_failed", A("failed"), NoInteraction)
<1>0. \A c : IsCall(c) /\ c.op # "unlock" => ToSet(<<c>>) = {c}
  BY Queue1
<1>00. \A c, d, e : ToSet(<<c, d, e>>) = {c, d, e}
  <2>1. SUFFICES ASSUME NEW c, NEW d, NEW e PROVE ToSet(<<c, d, e>>) = {c, d, e}
    OBVIOUS
  <2>2. PICK s : s = <<c, d, e>>
    OBVIOUS
  <2>3. DOMAIN s = 1..3 /\ s[1] = c /\ s[2] = d /\ s[3] = e
    BY <2>2
  <2>4. QED BY <2>2, <2>3 DEF ToSet
<1>1. CASE a.kind = "found"
  <2>1. PICK c : c = RowCall("hand_over", t, row)
    OBVIOUS
  <2>2. Is(c, "hand_over", t, row, NONE, A("failed"), NoInteraction)
    BY <2>1, CallFields
  <2>3. Apply(t, row, a) = <<c>>
    BY <1>1, <2>1, ApplyCalls
  <2>4. ToSet(<<c>>) = {c}
    BY <1>0, <2>2 DEF Is
  <2>5. QED BY <1>1, <2>2, <2>3, <2>4
<1>2. CASE a.kind = "confirmation"
  <2>1. PICK c : c = [RowCall("wait", t, row) EXCEPT !.answer = a]
    OBVIOUS
  <2>2. Is([RowCall("wait", t, row) EXCEPT !.answer = a], "wait", t, row, NONE, a, NoInteraction)
    BY WaitFields
  <2>3. Is(c, "wait", t, row, NONE, a, NoInteraction)
    BY <2>1, <2>2
  <2>4. Apply(t, row, a) = <<c>>
    BY <1>2, <2>1 DEF Apply
  <2>5. ToSet(<<c>>) = {c}
    BY <1>0, <2>3 DEF Is
  <2>6. QED BY <1>2, <2>3, <2>4, <2>5
<1>3. CASE a.kind \in {"rejected", "cancelled"}
  <2>1. PICK to : to = IF a.kind = "rejected" THEN "terminal_failed" ELSE "cancelled"
    OBVIOUS
  <2>2. PICK c, d, e : c = Transition(t, row, to) /\ d = Call("release", t) /\ e = Call("drop", t)
    OBVIOUS
  <2>3. /\ Is(c, "transition", t, row, to, A("failed"), NoInteraction)
        /\ Is(d, "release", t, NoRow, NONE, A("failed"), NoInteraction)
        /\ Is(e, "drop", t, NoRow, NONE, A("failed"), NoInteraction)
    BY <2>2, CallFields
  <2>4. Apply(t, row, a) = <<c, d, e>>
    BY <1>3, <2>1, <2>2, ApplyCalls
  <2>5. N = {c, d, e}
    BY <2>4, <1>00
  <2>6. QED BY <1>3, <2>1, <2>3, <2>5
<1>4. CASE a.kind = "failed" /\ row.status = "waiting_for_user"
  <2>2. PICK c, d, e : c = Call("drop", t) /\ d = Call("release", t) /\ e = RowCall("lost", t, row)
    OBVIOUS
  <2>3. /\ Is(c, "drop", t, NoRow, NONE, A("failed"), NoInteraction)
        /\ Is(d, "release", t, NoRow, NONE, A("failed"), NoInteraction)
        /\ Is(e, "lost", t, row, NONE, A("failed"), NoInteraction)
    BY <2>2, CallFields
  <2>4. Apply(t, row, a) = <<c, d, e>>
    BY <1>4, <2>2, <1>4 DEF Apply
  <2>5. N = {c, d, e}
    BY <2>4, <1>00
  <2>6. QED BY <1>4, <2>3, <2>5
<1>5. CASE a.kind = "failed" /\ row.status # "waiting_for_user"
  <2>1. PICK c : c = Transition(t, row, "recoverable_failed")
    OBVIOUS
  <2>2. Is(c, "transition", t, row, "recoverable_failed", A("failed"), NoInteraction)
    BY <2>1, CallFields
  <2>3. Apply(t, row, a) = <<c>>
    BY <1>5, <2>1, ApplyCalls
  <2>4. ToSet(<<c>>) = {c}
    BY <1>0, <2>2 DEF Is
  <2>5. QED BY <1>5, <2>2, <2>3, <2>4
<1>6. QED BY <1>1, <1>2, <1>3, <1>4, <1>5

-----------------------------------------------------------------------------
(* The calls each step leads to. *)

New(c, op, t) == IsCall(c) /\ c.op = op /\ c.task = t

LEMMA FirstCall ==
  ASSUME Queues, NEW p \in Threads, ~ Idle(p)
  PROVE  Arg(p) \in Calls(p) /\ IsCall(Arg(p)) /\ Arg(p).op # "unlock"
<1>1. Queue(p, todo[p]) /\ todo[p] # <<>>
  BY DEF Queues, Idle
<1>2. Head(todo[p]) = todo[p][1] /\ todo[p][1] \in ToSet(todo[p])
  BY <1>1, TailElements DEF Queue, List
<1>3. QED BY <1>1, <1>2 DEF Queue, List, Arg, Calls

\* Steps that call nothing more.
LEMMA CallsNothing ==
  ASSUME NEW p,
         \/ _store_result_handle(p) \/ _store_cancel_pending(p) \/ _drop(p) \/ _release_lease(p)
         \/ _transition(p) \/ require_cleanup(p) \/ recover_lost_interaction(p) \/ retry_raised(p)
         \/ _release_reservation(p)
  PROVE  Takes(p, {})
<1>1. ~ Idle(p) /\ Then(p, <<>>)
  BY DEF _store_result_handle, _store_cancel_pending, _drop, _release_lease, _transition, require_cleanup,
         recover_lost_interaction, retry_raised, _release_reservation, Doing
<1>2. QED BY <1>1, Then0

\* A call a thread began with, or one that decides, calls at most one more.
LEMMA ThenPlain ==
  ASSUME NEW p, ~ Idle(p), NEW a, Then(p, <<a>>), Plain(a),
         Outer(Arg(p)) \/ Arg(p).op \in Deciding
  PROVE  Takes(p, {a})
<1>1. \A b \in Calls(p) : Follows(p, Arg(p), b) => Follows(p, a, b)
  BY After DEF Plain
<1>2. QED BY <1>1, Then1 DEF Plain

LEMMA Views ==
  ASSUME NEW p, _clear_if_terminal(p)
  PROVE  \/ Takes(p, {})
         \/ \E a : Takes(p, {a}) /\ New(a, "drop", TaskOf(p)) /\ tasks[TaskOf(p)].status \in TERMINAL_STATUSES
<1>1. ~ Idle(p) /\ Arg(p).op = "view"
  BY DEF _clear_if_terminal, Doing, Arg
<1>2. CASE Then(p, <<>>)
  BY <1>1, <1>2, Then0
<1>3. CASE Then(p, <<Call("drop", TaskOf(p))>>) /\ tasks[TaskOf(p)].status \in TERMINAL_STATUSES
  <2>1. PICK a : a = Call("drop", TaskOf(p))
    OBVIOUS
  <2>2. New(a, "drop", TaskOf(p))
    BY <2>1, CallFields DEF Is, New
  <2>3. Plain(a) /\ Outer(Arg(p))
    BY <2>2, <1>1 DEF New, Plain, Inner, InnerOps, Outer, OuterOps
  <2>4. Takes(p, {a})
    BY <1>1, <1>3, <2>1, <2>3, ThenPlain
  <2>5. QED BY <1>3, <2>2, <2>4
<1>4. QED BY <1>2, <1>3 DEF _clear_if_terminal, Decides

\* An answer is applied by a call that decides; a worker meets no waiting row in it.
LEMMA ThenApply ==
  ASSUME NEW p, ~ Idle(p), NEW t, NEW row, NEW a, Then(p, Apply(t, row, a)),
         Arg(p).op \in Deciding \ {"check"},
         wiring = Static /\ p \in Tasks => row.status # "waiting_for_user"
  PROVE  Takes(p, ToSet(Apply(t, row, a))) /\ \A c \in ToSet(Apply(t, row, a)) : Plain(c)
<1>1. Queue(p, Apply(t, row, a)) /\ \A c \in ToSet(Apply(t, row, a)) : Plain(c)
  BY ApplyQueue
<1>2. \A c \in ToSet(Apply(t, row, a)), b \in Calls(p) : Follows(p, Arg(p), b) => Follows(p, c, b)
  BY <1>1, After DEF Plain
<1>3. QED BY <1>1, <1>2, ThenTakes

\* What a worker may not do, it does not do.
LEMMA Kept ==
  ASSUME Sound, NEW p \in Threads, ~ Idle(p), wiring = Static
  PROVE  CallOk(Arg(p)) /\ PlaceOk(p, Arg(p)) /\ DataOk
BY FirstCall DEF Sound, StaticOk

LEMMA Applies ==
  ASSUME Sound, NEW p \in Threads, _apply_result(p)
  PROVE  \E N : /\ Takes(p, N) /\ \A c \in N : Plain(c)
                /\ N = ToSet(Apply(TaskOf(p), tasks[TaskOf(p)], Arg(p).answer))
<1>1. ~ Idle(p) /\ Arg(p).op = "apply" /\ Then(p, Apply(TaskOf(p), tasks[TaskOf(p)], Arg(p).answer))
  BY DEF _apply_result, Doing, Arg, Decides
<1>2. ~ (wiring = Static /\ p \in Tasks)
  BY <1>1, Kept DEF PlaceOk, ClientOps
<1>3. QED BY <1>1, <1>2, ThenApply DEF Deciding

LEMMA Resolves ==
  ASSUME Sound, NEW p \in Threads, resolve_task(p)
  PROVE  \E o \in OrRaise(resolve(sessions, TaskOf(p))) : \E N :
           /\ sessions' = o.sessions /\ Takes(p, N) /\ \A c \in N : Plain(c)
           /\ N = ToSet(Apply(TaskOf(p), Arg(p).row, o.answer))
<1>1. ~ Idle(p) /\ Arg(p).op = "resolve"
  BY DEF resolve_task, Doing, Arg
<1>2. PICK o \in OrRaise(resolve(sessions, TaskOf(p))) :
        sessions' = o.sessions /\ Then(p, Apply(TaskOf(p), Arg(p).row, o.answer))
  BY DEF resolve_task, Asks
<1>3. wiring = Static => Arg(p).row.status # "waiting_for_user"
  BY <1>1, Kept DEF CallOk
<1>4. QED BY <1>1, <1>2, <1>3, ThenApply DEF Deciding

LEMMA Operates ==
  ASSUME Sound, NEW p \in Threads, operation(p)
  PROVE  \E o \in OrRaise(IF Arg(p).entry.kind = "verification"
                          THEN continue_verification(sessions, Arg(p).entry.handle)
                          ELSE confirm_config(sessions, Arg(p).entry.handle)) : \E N :
           /\ sessions' = o.sessions /\ Takes(p, N) /\ \A c \in N : Plain(c)
           /\ N = ToSet(Apply(TaskOf(p), Arg(p).row, o.answer))
<1>1. ~ Idle(p) /\ Arg(p).op = "operation"
  BY DEF operation, Doing, Arg
<1>2. PICK o \in OrRaise(IF Arg(p).entry.kind = "verification"
                         THEN continue_verification(sessions, Arg(p).entry.handle)
                         ELSE confirm_config(sessions, Arg(p).entry.handle)) :
        sessions' = o.sessions /\ Then(p, Apply(TaskOf(p), Arg(p).row, o.answer))
  BY DEF operation, Asks, TaskOf
<1>3. ~ (wiring = Static /\ p \in Tasks)
  BY <1>1, Kept DEF PlaceOk, ClientOps
<1>4. QED BY <1>1, <1>2, <1>3, ThenApply DEF Deciding

\* hand_over's result: the row it schedules.
HandedOver(c) ==
  IF c.row.status = "validating" THEN c.row
  ELSE IF Fresh(c) /\ CanTransition(c.row, "validating") THEN Transitioned(c.row, "validating")
  ELSE tasks[c.task]

LEMMA HandsOver ==
  ASSUME NEW p, hand_over(p)
  PROVE  \E a, b, c : /\ Takes(p, {a, b, c})
                      /\ New(a, "release", TaskOf(p)) /\ New(b, "drop", TaskOf(p))
                      /\ New(c, "schedule", TaskOf(p)) /\ c.row = HandedOver(Arg(p))
<1>1. /\ ~ Idle(p) /\ Arg(p).op = "hand_over"
      /\ Then(p, <<Call("release", TaskOf(p)), Call("drop", TaskOf(p)), RowCall("schedule", TaskOf(p), HandedOver(Arg(p)))>>)
  BY DEF hand_over, Doing, Arg, TaskOf, HandedOver
<1>2. PICK a, b, c : a = Call("release", TaskOf(p)) /\ b = Call("drop", TaskOf(p))
                     /\ c = RowCall("schedule", TaskOf(p), HandedOver(Arg(p)))
  OBVIOUS
<1>3. New(a, "release", TaskOf(p)) /\ New(b, "drop", TaskOf(p)) /\ New(c, "schedule", TaskOf(p))
      /\ c.row = HandedOver(Arg(p))
  BY <1>2, CallFields DEF Is, New
<1>4. Plain(a) /\ Plain(b) /\ Plain(c)
  BY <1>3 DEF New, Plain, Inner, InnerOps
<1>5. Follows(p, a, b) /\ Follows(p, a, c) /\ Follows(p, b, c)
  BY <1>3 DEF New, Follows, Outer, OuterOps, Deciding
<1>6. \A x \in {a, b, c}, d \in Calls(p) : Follows(p, Arg(p), d) => Follows(p, x, d)
  BY <1>1, <1>4, After DEF Deciding, Plain
<1>7. Takes(p, {a, b, c})
  BY <1>1, <1>2, <1>4, <1>5, <1>6, Then3 DEF Plain
<1>8. QED BY <1>3, <1>7

LEMMA Schedules ==
  ASSUME NEW p, _schedule_or_fail(p)
  PROVE  \/ Takes(p, {})
         \/ \E a : /\ Takes(p, {a}) /\ New(a, "transition", TaskOf(p))
                   /\ a.row = Arg(p).row /\ a.to = "recoverable_failed"
                   /\ Arg(p).row.status \in ACTIVE_STATUSES
<1>1. ~ Idle(p) /\ Arg(p).op = "schedule"
  BY DEF _schedule_or_fail, Doing, Arg
<1>2. CASE Then(p, <<>>)
  BY <1>1, <1>2, Then0
<1>3. CASE Then(p, <<Transition(TaskOf(p), Arg(p).row, "recoverable_failed")>>) /\ Arg(p).row.status \in ACTIVE_STATUSES
  <2>1. PICK a : a = Transition(TaskOf(p), Arg(p).row, "recoverable_failed")
    OBVIOUS
  <2>2. New(a, "transition", TaskOf(p)) /\ a.row = Arg(p).row /\ a.to = "recoverable_failed"
    BY <2>1, CallFields DEF Is, New
  <2>3. Plain(a)
    BY <2>2 DEF New, Plain, Inner, InnerOps
  <2>4. \A d \in Calls(p) : Follows(p, Arg(p), d) => Follows(p, a, d)
    BY <1>1, <2>2, <2>3, After DEF InnerOps, Plain, New, Deciding
  <2>5. Takes(p, {a})
    BY <1>1, <1>3, <2>1, <2>3, <2>4, Then1 DEF Plain
  <2>6. QED BY <1>3, <2>2, <2>5
<1>4. QED BY <1>2, <1>3 DEF _schedule_or_fail, TaskOf

\* The result a probe, or an answer, waits with: too late, it is stored only to be given up.
LEMMA Waits ==
  ASSUME Queues, NEW p \in Threads, wait(p)
  PROVE  \/ /\ Takes(p, {}) /\ Fresh(Arg(p)) /\ Arg(p).row.status = "waiting_for_user"
            /\ ~ Mine(TaskOf(p)) /\ UNCHANGED <<tasks, leases>>
         \/ \E a : /\ Takes(p, {a}) /\ New(a, "store", TaskOf(p)) /\ a.answer = Arg(p).answer
                   /\ Fresh(Arg(p))
         \/ \E a, b : /\ Takes(p, {a, b}) /\ New(a, "store", TaskOf(p)) /\ a.answer = Arg(p).answer
                      /\ New(b, "abandon", TaskOf(p))
                      /\ ~ Fresh(Arg(p)) \/ (/\ Arg(p).row.status # "waiting_for_user"
                                             /\ "waiting_for_user" \notin ALLOWED_TRANSITIONS(Arg(p).row.status))
                      /\ UNCHANGED <<tasks, leases>>
<1>1. ~ Idle(p) /\ Arg(p).op = "wait"
  BY DEF wait, Doing, Arg
<1>2. PICK a : a = AnswerCall("store", TaskOf(p), Arg(p).answer)
  OBVIOUS
<1>3. New(a, "store", TaskOf(p)) /\ a.answer = Arg(p).answer
  BY <1>2, CallFields DEF Is, New
<1>4. PICK b : b = Call("abandon", TaskOf(p))
  OBVIOUS
<1>5. New(b, "abandon", TaskOf(p))
  BY <1>4, CallFields DEF Is, New
<1>6. Plain(a) /\ Plain(b) /\ Follows(p, a, b)
  BY <1>3, <1>5 DEF New, Plain, Inner, InnerOps, Follows, Outer, OuterOps, Deciding
<1>7. \A d \in Calls(p) : Follows(p, Arg(p), d) => Follows(p, a, d) /\ Follows(p, b, d)
  BY <1>1, <1>6, After DEF Plain, Deciding
<1>8. CASE /\ Fresh(Arg(p)) /\ Arg(p).row.status = "waiting_for_user"
           /\ ~ Mine(TaskOf(p)) /\ UNCHANGED <<tasks, leases>> /\ Then(p, <<>>)
  BY <1>1, <1>8, Then0
<1>9. CASE Fresh(Arg(p)) /\ Then(p, <<a>>)
  <2>1. Takes(p, {a})
    BY <1>1, <1>6, <1>7, <1>9, Then1 DEF Plain
  <2>2. QED BY <2>1, <1>3, <1>9
<1>10. CASE /\ Then(p, <<a, b>>) /\ UNCHANGED <<tasks, leases>>
            /\ ~ Fresh(Arg(p)) \/ (/\ Arg(p).row.status # "waiting_for_user"
                                   /\ "waiting_for_user" \notin ALLOWED_TRANSITIONS(Arg(p).row.status))
  <2>1. Takes(p, {a, b})
    BY <1>1, <1>6, <1>7, <1>10, Then2 DEF Plain
  <2>2. QED BY <2>1, <1>3, <1>5, <1>10
<1>11. QED BY <1>2, <1>4, <1>8, <1>9, <1>10 DEF wait, TaskOf

LEMMA Abandons ==
  ASSUME NEW p, abandon(p)
  PROVE  \/ Takes(p, {}) /\ TaskOf(p) \notin Entries
         \/ \E a : /\ Takes(p, {a}) /\ TaskOf(p) \in Entries
                   /\ Is(a, "cancel_handle", TaskOf(p), NoRow, "abandon", A("failed"), interactions[TaskOf(p)])
<1>1. ~ Idle(p) /\ Arg(p).op = "abandon"
  BY DEF abandon, Doing, Arg
<1>2. CASE Then(p, <<>>) /\ TaskOf(p) \notin Entries
  BY <1>1, <1>2, Then0
<1>3. CASE Then(p, <<CancelHandle(TaskOf(p), interactions[TaskOf(p)], "abandon")>>) /\ TaskOf(p) \in Entries
  <2>1. PICK a : a = CancelHandle(TaskOf(p), interactions[TaskOf(p)], "abandon")
    OBVIOUS
  <2>2. Is(a, "cancel_handle", TaskOf(p), NoRow, "abandon", A("failed"), interactions[TaskOf(p)])
    BY <2>1, CallFields
  <2>3. Plain(a)
    BY <2>2 DEF Is, Plain, Inner, InnerOps
  <2>4. Takes(p, {a})
    BY <1>1, <1>3, <2>1, <2>3, ThenPlain DEF Deciding
  <2>5. QED BY <1>3, <2>2, <2>4
<1>4. QED BY <1>2, <1>3 DEF abandon, Decides

LEMMA Pair ==
  ASSUME NEW a, NEW b
  PROVE  <<a>> \o <<b>> = <<a, b>>
<1>1. PICK x, y, z : x = <<a>> /\ y = <<b>> /\ z = <<a, b>>
  OBVIOUS
<1>2. /\ x \in Seq({a, b}) /\ Len(x) = 1 /\ x[1] = a
      /\ y \in Seq({a, b}) /\ Len(y) = 1 /\ y[1] = b
      /\ z \in Seq({a, b}) /\ Len(z) = 2 /\ z[1] = a /\ z[2] = b
  BY <1>1
<1>3. /\ x \o y \in Seq({a, b}) /\ Len(x \o y) = Len(x) + Len(y)
      /\ \A i \in 1..(Len(x) + Len(y)) : (x \o y)[i] = IF i <= Len(x) THEN x[i] ELSE y[i - Len(x)]
  BY <1>2, ConcatProperties
<1>4. PICK w : w = x \o y
  OBVIOUS
<1>5. Len(w) = 2 /\ w[1] = a /\ w[2] = b /\ w \in Seq({a, b})
  BY <1>2, <1>3, <1>4
<1>6. w = z
  <2>1. \A i \in 1..Len(w) : w[i] = z[i]
    BY <1>2, <1>5
  <2>2. QED BY <2>1, <1>2, <1>5, SeqEqual
<1>7. QED BY <1>1, <1>4, <1>6

LEMMA EntersCancelPending ==
  ASSUME NEW p, _enter_cancel_pending(p)
  PROVE  \E N : Takes(p, N) /\ \A c \in N : Plain(c)
<1>1. ~ Idle(p) /\ Arg(p).op = "enter_cancel_pending"
  BY DEF _enter_cancel_pending, Doing, Arg
<1>2. PICK a, b : /\ a = EntryCall("store_cancel_pending", TaskOf(p), Arg(p).entry)
                  /\ b = RowCall("require_cleanup", TaskOf(p), tasks[TaskOf(p)])
  OBVIOUS
<1>3. New(a, "store_cancel_pending", TaskOf(p)) /\ New(b, "require_cleanup", TaskOf(p))
  BY <1>2, CallFields DEF Is, New
<1>4. Plain(a) /\ Plain(b) /\ Follows(p, a, b)
  BY <1>3 DEF New, Plain, Inner, InnerOps, Follows, Outer, OuterOps, Deciding
<1>5. \A d \in Calls(p) : Follows(p, Arg(p), d) => Follows(p, a, d) /\ Follows(p, b, d)
  BY <1>1, <1>3, <1>4, After DEF Plain, Deciding, New, InnerOps
<1>6. CASE Then(p, <<a>> \o <<>>)
  <2>1. <<a>> \o <<>> = <<a>>
    OBVIOUS
  <2>2. Takes(p, {a})
    BY <1>1, <1>4, <1>5, <1>6, <2>1, Then1 DEF Plain
  <2>3. QED BY <1>4, <2>2
<1>7. CASE Then(p, <<a>> \o <<b>>)
  <2>1. <<a>> \o <<b>> = <<a, b>>
    BY Pair
  <2>2. Takes(p, {a, b})
    BY <1>1, <1>4, <1>5, <1>7, <2>1, Then2 DEF Plain
  <2>3. QED BY <1>4, <2>2
<1>8. QED BY <1>2, <1>6, <1>7 DEF _enter_cancel_pending, Decides

\* A call under a lock that is free.
LEMMA ThenUnder ==
  ASSUME NEW p, ~ Idle(p), Outer(Arg(p)), NEW a, NEW e, Then(p, Under(e, <<a>>)), IsCall(a), Inner(a)
  PROVE  \E b : Takes(p, {a, b}) /\ New(b, "unlock", 0) /\ b.entry = e
<1>1. PICK b : b = EntryCall("unlock", 0, e)
  OBVIOUS
<1>2. New(b, "unlock", 0) /\ b.entry = e
  BY <1>1, CallFields DEF Is, New
<1>3. Under(e, <<a>>) = <<a, b>>
  BY <1>1, Pair DEF Under
<1>4. Follows(p, a, b) /\ a.op # "unlock" /\ a.op # "reserve"
  BY <1>2 DEF New, Follows, Inner, InnerOps, Outer, OuterOps, Ends
<1>5. \A d \in Calls(p) : Follows(p, Arg(p), d) => Follows(p, a, d) /\ Follows(p, b, d)
  BY <1>2, <1>4, After DEF New
<1>6. Takes(p, {a, b})
  BY <1>2, <1>3, <1>4, <1>5, Then2 DEF New
<1>7. QED BY <1>2, <1>6

LEMMA Acts ==
  ASSUME Queues, NEW p \in Threads, _act(p)
  PROVE  \/ Takes(p, {})
         \/ \E a, b : /\ Takes(p, {a, b}) /\ New(b, "unlock", 0) /\ b.entry = Arg(p).entry
                      /\ New(a, "operation", TaskOf(p)) /\ a.entry = Arg(p).entry
                      /\ a.row = tasks[TaskOf(p)] /\ a.row.status = "waiting_for_user"
                      /\ OwnsLease(TaskOf(p)) /\ Current(Arg(p)) /\ ~ Locked(Arg(p).entry.lock)
<1>1. ~ Idle(p) /\ Arg(p).op = "act" /\ ~ Locked(Arg(p).entry.lock)
  BY DEF _act, Acquired, Doing, Arg
<1>2. CASE Then(p, <<>>)
  BY <1>1, <1>2, Then0
<1>3. CASE /\ Then(p, Under(Arg(p).entry, <<[Arg(p) EXCEPT !.op = "operation", !.row = tasks[TaskOf(p)]]>>))
           /\ Current(Arg(p)) /\ tasks[TaskOf(p)].status = "waiting_for_user" /\ OwnsLease(TaskOf(p))
  <2>1. PICK c : c = Arg(p)
    OBVIOUS
  <2>2. IsCall(c)
    BY <1>1, <2>1, FirstCall
  <2>3. PICK a : a = [c EXCEPT !.op = "operation", !.row = tasks[TaskOf(p)]]
    OBVIOUS
  <2>4. Is([c EXCEPT !.op = "operation", !.row = tasks[TaskOf(p)]], "operation", c.task, tasks[TaskOf(p)], c.to, c.answer, c.entry)
    BY <2>2, CallAgain
  <2>5. Is(a, "operation", c.task, tasks[TaskOf(p)], c.to, c.answer, c.entry)
    BY <2>3, <2>4
  <2>6. New(a, "operation", TaskOf(p)) /\ a.entry = Arg(p).entry /\ a.row = tasks[TaskOf(p)]
    BY <2>1, <2>5 DEF Is, New, TaskOf, Arg
  <2>7. Inner(a) /\ Outer(Arg(p))
    BY <1>1, <2>6 DEF New, Inner, InnerOps, Outer, OuterOps
  <2>8. Then(p, Under(Arg(p).entry, <<a>>))
    BY <1>3, <2>1, <2>3
  <2>9. \E b : Takes(p, {a, b}) /\ New(b, "unlock", 0) /\ b.entry = Arg(p).entry
    <3>1. IsCall(a) /\ ~ Idle(p)
      BY <1>1, <2>6 DEF New
    <3>2. PICK e : e = Arg(p).entry
      OBVIOUS
    <3>3. Then(p, Under(e, <<a>>))
      BY <2>8, <3>2
    <3>4. \E b : Takes(p, {a, b}) /\ New(b, "unlock", 0) /\ b.entry = e
      BY <3>1, <3>3, <2>7, ThenUnder
    <3>5. QED BY <3>2, <3>4
  <2>10. QED BY <1>1, <1>3, <2>6, <2>9
<1>4. QED BY <1>2, <1>3 DEF _act, Decides, TaskOf

\* What a handle's cancellation leads to, when it worked.
LEMMA Cancels ==
  ASSUME Queues, NEW p \in Threads, _best_effort_cancel(p)
  PROVE  \E o \in HandleCancelled(Arg(p).entry) : \E N :
           /\ Takes(p, N) /\ (\A c \in N : c.op # "unlock") /\ sessions' = o.sessions
           /\ closed' = IF Arg(p).to = "closing" /\ o.answer.kind \in {"raised", "cleanup"} THEN "incomplete" ELSE closed
           /\ o.answer.kind = "cancelled" =>
                \/ \E a : N = {a} /\ New(a, "drop", TaskOf(p)) /\ Arg(p).to = "abandon"
                \/ \E a : N = {a} /\ New(a, "expired", TaskOf(p)) /\ Arg(p).to = "expired"
                \/ \E a, b : /\ N = {a, b} /\ New(a, "release", TaskOf(p)) /\ New(b, "drop", TaskOf(p))
                             /\ Arg(p).to \notin {"abandon", "expired"}
<1>1. ~ Idle(p) /\ Arg(p).op = "cancel_handle"
  BY DEF _best_effort_cancel, Doing, Arg
<1>2. PICK o \in HandleCancelled(Arg(p).entry) :
        /\ sessions' = o.sessions
        /\ closed' = IF Arg(p).to = "closing" /\ o.answer.kind \in {"raised", "cleanup"} THEN "incomplete" ELSE closed
        /\ Then(p, AfterCancel(TaskOf(p), Arg(p).entry, Arg(p).to, o.answer))
  BY DEF _best_effort_cancel, TaskOf
<1> DEFINE t == TaskOf(p)
           e == Arg(p).entry
           for == Arg(p).to
           a == o.answer
<1>3. /\ Plain(EntryCall("store_cancel_pending", t, e)) /\ Plain(EntryCall("enter_cancel_pending", t, e))
      /\ Plain(AnswerCall("store", t, a)) /\ Plain(AnswerCall("apply", t, a))
      /\ Plain(Call("drop", t)) /\ Plain(Call("expired", t)) /\ Plain(Call("release", t))
      /\ New(Call("drop", t), "drop", t) /\ New(Call("expired", t), "expired", t) /\ New(Call("release", t), "release", t)
      /\ New(AnswerCall("store", t, a), "store", t) /\ New(Call("retry_stored", t), "retry_stored", t)
  BY CallFields DEF Is, New, Plain, Inner, InnerOps
<1>4. Outer(Arg(p)) \/ Arg(p).op \in Deciding
  BY <1>1 DEF Deciding
<1>5. ASSUME NEW c, Plain(c), Then(p, <<c>>) PROVE Takes(p, {c}) /\ \A d \in {c} : d.op # "unlock"
  BY <1>1, <1>4, <1>5, ThenPlain DEF Plain
<1>6. CASE a.kind \in {"raised", "cleanup"}
  <2>1. SUFFICES \E N : Takes(p, N) /\ \A c \in N : c.op # "unlock"
    BY <1>2, <1>6
  <2>2. CASE \E c : Plain(c) /\ Then(p, <<c>>)
    <3>1. PICK c : Plain(c) /\ Then(p, <<c>>)
      BY <2>2
    <3>2. Takes(p, {c}) /\ \A d \in {c} : d.op # "unlock"
      BY <3>1, <1>5
    <3>3. QED BY <3>2
  <2>3. CASE for = "terminal" /\ Then(p, <<AnswerCall("store", t, a), Call("retry_stored", t)>>)
    <3>1. PICK c, d : c = AnswerCall("store", t, a) /\ d = Call("retry_stored", t)
      OBVIOUS
    <3>2. New(c, "store", t) /\ New(d, "retry_stored", t) /\ Plain(c)
      BY <3>1, <1>3
    <3>3. Follows(p, c, d)
      BY <3>2 DEF New, Follows, Outer, OuterOps, Deciding
    <3>4. Outer(Arg(p))
      BY <1>1, <2>3 DEF Outer
    <3>5. \A x \in Calls(p) : Follows(p, Arg(p), x) => Follows(p, c, x) /\ Follows(p, d, x)
      BY <3>2, <3>4, After DEF New
    <3>6. Takes(p, {c, d})
      BY <1>1, <2>3, <3>1, <3>2, <3>3, <3>5, Then2 DEF New
    <3>7. QED BY <3>2, <3>6 DEF New
  <2>4. CASE Then(p, <<Call("release", t), Call("drop", t)>>)
    <3>1. PICK c, d : c = Call("release", t) /\ d = Call("drop", t)
      OBVIOUS
    <3>2. New(c, "release", t) /\ New(d, "drop", t) /\ Plain(c) /\ Plain(d)
      BY <3>1, <1>3
    <3>3. Follows(p, c, d)
      BY <3>2 DEF New, Follows, Outer, OuterOps, Deciding
    <3>4. \A x \in Calls(p) : Follows(p, Arg(p), x) => Follows(p, c, x) /\ Follows(p, d, x)
      BY <3>2, <1>4, After DEF Plain
    <3>5. Takes(p, {c, d})
      BY <1>1, <2>4, <3>1, <3>2, <3>3, <3>4, Then2 DEF New
    <3>6. QED BY <3>2, <3>5 DEF New
  <2>5. QED BY <1>2, <1>3, <1>6, <2>2, <2>3, <2>4 DEF AfterCancel
<1>7. CASE a.kind \notin {"raised", "cleanup"}
  <2>1. CASE for = "abandon"
    <3>1. PICK c : c = Call("drop", t)
      OBVIOUS
    <3>2. Then(p, <<c>>)
      BY <1>2, <1>7, <2>1, <3>1 DEF AfterCancel
    <3>3. New(c, "drop", t) /\ Takes(p, {c}) /\ \A d \in {c} : d.op # "unlock"
      BY <1>3, <1>5, <3>1, <3>2
    <3>4. QED BY <1>2, <2>1, <3>3
  <2>2. CASE for = "expired"
    <3>1. PICK c : c = Call("expired", t)
      OBVIOUS
    <3>2. Then(p, <<c>>)
      BY <1>2, <1>7, <2>2, <3>1 DEF AfterCancel
    <3>3. New(c, "expired", t) /\ Takes(p, {c}) /\ \A d \in {c} : d.op # "unlock"
      BY <1>3, <1>5, <3>1, <3>2
    <3>4. QED BY <1>2, <2>2, <3>3
  <2>3. CASE for \notin {"abandon", "expired"}
    <3>1. PICK c, d : c = Call("release", t) /\ d = Call("drop", t)
      OBVIOUS
    <3>2. New(c, "release", t) /\ New(d, "drop", t) /\ Plain(c) /\ Plain(d)
      BY <3>1, <1>3
    <3>3. Follows(p, c, d)
      BY <3>2 DEF New, Follows, Outer, OuterOps, Deciding
    <3>4. \A x \in Calls(p) : Follows(p, Arg(p), x) => Follows(p, c, x) /\ Follows(p, d, x)
      BY <3>2, <1>4, After DEF Plain
    <3>5. Then(p, <<c, d>>)
      BY <1>2, <1>7, <2>3, <3>1 DEF AfterCancel
    <3>6. Takes(p, {c, d})
      BY <1>1, <3>2, <3>3, <3>4, <3>5, Then2 DEF New
    <3>7. \A x \in {c, d} : x.op # "unlock"
      BY <3>2 DEF New
    <3>8. PICK N : N = {c, d}
      OBVIOUS
    <3>9. QED BY <1>2, <2>3, <3>2, <3>6, <3>7, <3>8
  <2>4. QED BY <2>1, <2>2, <2>3
<1>8. QED BY <1>6, <1>7

LEMMA CancelsInteraction ==
  ASSUME Queues, NEW p \in Threads, cancel_interaction(p)
  PROVE  \/ Takes(p, {}) /\ leases' = leases
         \/ \E a, b : /\ Takes(p, {a, b}) /\ New(b, "unlock", 0) /\ b.entry = Arg(p).entry
                      /\ New(a, "cancel_operation", TaskOf(p)) /\ a.entry = Arg(p).entry
                      /\ OwnsLease(TaskOf(p)) /\ Current(Arg(p)) /\ ~ Locked(Arg(p).entry.lock)
<1>1. ~ Idle(p) /\ Arg(p).op = "cancel_interaction" /\ ~ Locked(Arg(p).entry.lock)
  BY DEF cancel_interaction, Acquired, Doing, Arg
<1>2. CASE Then(p, <<>>) /\ leases' = leases
  BY <1>1, <1>2, Then0
<1>3. CASE /\ Then(p, Under(Arg(p).entry, <<[Arg(p) EXCEPT !.op = "cancel_operation"]>>))
           /\ Current(Arg(p)) /\ OwnsLease(TaskOf(p))
  <2>1. PICK c : c = Arg(p)
    OBVIOUS
  <2>2. IsCall(c)
    BY <1>1, <2>1, FirstCall
  <2>3. PICK a : a = [c EXCEPT !.op = "cancel_operation"]
    OBVIOUS
  <2>4. Is([c EXCEPT !.op = "cancel_operation"], "cancel_operation", c.task, c.row, c.to, c.answer, c.entry)
    BY <2>2, CallAgain
  <2>5. Is(a, "cancel_operation", c.task, c.row, c.to, c.answer, c.entry)
    BY <2>3, <2>4
  <2>6. New(a, "cancel_operation", TaskOf(p)) /\ a.entry = Arg(p).entry
    BY <2>1, <2>5 DEF Is, New, TaskOf, Arg
  <2>7. Inner(a) /\ Outer(Arg(p))
    BY <1>1, <2>6 DEF New, Inner, InnerOps, Outer, OuterOps
  <2>8. Then(p, Under(Arg(p).entry, <<a>>))
    BY <1>3, <2>1, <2>3
  <2>9. \E b : Takes(p, {a, b}) /\ New(b, "unlock", 0) /\ b.entry = Arg(p).entry
    <3>1. IsCall(a) /\ ~ Idle(p)
      BY <1>1, <2>6 DEF New
    <3>2. PICK e : e = Arg(p).entry
      OBVIOUS
    <3>3. Then(p, Under(e, <<a>>))
      BY <2>8, <3>2
    <3>4. \E b : Takes(p, {a, b}) /\ New(b, "unlock", 0) /\ b.entry = e
      BY <3>1, <3>3, <2>7, ThenUnder
    <3>5. QED BY <3>2, <3>4
  <2>10. QED BY <1>1, <1>3, <2>6, <2>9
<1>4. QED BY <1>2, <1>3 DEF cancel_interaction, TaskOf

LEMMA CancelsOperation ==
  ASSUME Queues, NEW p \in Threads, cancel_operation(p)
  PROVE  \E o \in HandleCancelled(Arg(p).entry) : \E a :
           /\ Takes(p, {a}) /\ sessions' = o.sessions /\ a.op # "unlock"
           /\ o.answer.kind # "raised" => New(a, "apply", TaskOf(p)) /\ a.answer = o.answer
<1>1. ~ Idle(p) /\ Arg(p).op = "cancel_operation"
  BY DEF cancel_operation, Doing, Arg
<1>2. PICK o \in HandleCancelled(Arg(p).entry) :
        /\ sessions' = o.sessions
        /\ Then(p, IF o.answer.kind = "raised" THEN <<EntryCall("enter_cancel_pending", TaskOf(p), Arg(p).entry)>>
                   ELSE <<AnswerCall("apply", TaskOf(p), o.answer)>>)
  BY DEF cancel_operation, Asks, TaskOf
<1>3. PICK a : a = IF o.answer.kind = "raised" THEN EntryCall("enter_cancel_pending", TaskOf(p), Arg(p).entry)
                   ELSE AnswerCall("apply", TaskOf(p), o.answer)
  OBVIOUS
<1>4. /\ Is(EntryCall("enter_cancel_pending", TaskOf(p), Arg(p).entry), "enter_cancel_pending", TaskOf(p), NoRow, NONE, A("failed"), Arg(p).entry)
      /\ Is(AnswerCall("apply", TaskOf(p), o.answer), "apply", TaskOf(p), NoRow, NONE, o.answer, NoInteraction)
  BY CallFields
<1>5. Plain(a) /\ (o.answer.kind # "raised" => New(a, "apply", TaskOf(p)) /\ a.answer = o.answer)
  BY <1>3, <1>4 DEF Is, New, Plain, Inner, InnerOps
<1>6. Then(p, <<a>>)
  BY <1>2, <1>3
<1>7. Takes(p, {a})
  BY <1>1, <1>5, <1>6, ThenPlain DEF Deciding
<1>8. QED BY <1>2, <1>5, <1>7 DEF Plain

\* What only a browser's handles need.
LEMMA RetriesCleanup ==
  ASSUME Queues, NEW p \in Threads, retry_cleanup_of(p)
  PROVE  \E N : Takes(p, N) /\ \A c \in N : c.op = "unlock" => ~ Locked(c.entry.lock)
<1>1. ~ Idle(p) /\ Arg(p).op = "retry_cleanup" /\ ~ Locked(Arg(p).entry.lock)
  BY DEF retry_cleanup_of, Acquired, Doing, Arg
<1>2. CASE Then(p, <<>>)
  BY <1>1, <1>2, Then0
<1>3. CASE Then(p, Under(Arg(p).entry, <<EntryCall("retry", TaskOf(p), Arg(p).entry)>>))
  <2>1. PICK a, e : a = EntryCall("retry", TaskOf(p), Arg(p).entry) /\ e = Arg(p).entry
    OBVIOUS
  <2>2. New(a, "retry", TaskOf(p))
    BY <2>1, CallFields DEF Is, New
  <2>3. Inner(a) /\ Outer(Arg(p)) /\ IsCall(a) /\ a.op # "unlock"
    BY <1>1, <2>2 DEF New, Inner, InnerOps, Outer, OuterOps
  <2>4. Then(p, Under(e, <<a>>))
    BY <1>3, <2>1
  <2>5. PICK b : Takes(p, {a, b}) /\ New(b, "unlock", 0) /\ b.entry = e
    BY <1>1, <2>3, <2>4, ThenUnder
  <2>6. \A c \in {a, b} : c.op = "unlock" => ~ Locked(c.entry.lock)
    BY <1>1, <2>1, <2>3, <2>5
  <2>7. QED BY <2>5, <2>6
<1>4. QED BY <1>2, <1>3 DEF retry_cleanup_of, Decides, TaskOf

LEMMA Retries ==
  ASSUME Queues, NEW p \in Threads, _retry_locked(p)
  PROVE  \E N : Takes(p, N) /\ \A c \in N : c.op # "unlock"
<1>1. ~ Idle(p) /\ Arg(p).op = "retry"
  BY DEF _retry_locked, Doing, Arg
<1>2. PICK x : Then(p, <<[Arg(p) EXCEPT !.op = "retried", !.answer = x]>>)
  BY DEF _retry_locked, Asks
<1>3. PICK c : c = Arg(p)
  OBVIOUS
<1>4. IsCall(c)
  BY <1>1, <1>3, FirstCall
<1>5. PICK a : a = [c EXCEPT !.op = "retried", !.answer = x]
  OBVIOUS
<1>6. Is([c EXCEPT !.op = "retried", !.answer = x], "retried", c.task, c.row, c.to, x, c.entry)
  BY <1>4, CallAgain
<1>7. Is(a, "retried", c.task, c.row, c.to, x, c.entry)
  BY <1>5, <1>6
<1>8. Plain(a)
  BY <1>7 DEF Is, Plain, Inner, InnerOps
<1>9. Then(p, <<a>>)
  BY <1>2, <1>3, <1>5
<1>10. Takes(p, {a})
  BY <1>1, <1>8, <1>9, ThenPlain DEF Deciding
<1>11. QED BY <1>8, <1>10 DEF Plain

LEMMA DropsThenApplies ==
  ASSUME NEW p, ~ Idle(p), NEW t, NEW row, NEW a, Then(p, <<Call("drop", t)>> \o Apply(t, row, a)),
         Arg(p).op \in {"retried", "complete_cleanup_gate"}, wiring # Static
  PROVE  \E N : Takes(p, N) /\ \A c \in N : c.op # "unlock"
<1>1. PICK x, m : x = Call("drop", t) /\ m = Apply(t, row, a)
  OBVIOUS
<1>2. New(x, "drop", t) /\ Plain(x)
  BY <1>1, CallFields DEF Is, New, Plain, Inner, InnerOps
<1>3. Queue(p, m) /\ \A c \in ToSet(m) : Plain(c)
  BY <1>1, ApplyQueue
<1>4. List(p, <<x>>) /\ ToSet(<<x>>) = {x}
  BY <1>2, Short DEF New
<1>5. \A c \in ToSet(<<x>>) : \A d \in ToSet(m) : Follows(p, c, d)
  BY <1>2, <1>3, <1>4 DEF New, Follows, Plain, Outer, OuterOps, Deciding
<1>6. List(p, <<x>> \o m) /\ ToSet(<<x>> \o m) = ToSet(<<x>>) \cup ToSet(m)
  <2>1. List(p, <<x>>) /\ List(p, m)
    BY <1>3, <1>4 DEF Queue
  <2>2. List(p, <<x>> \o m)
    BY <2>1, <1>5, JoinedLists
  <2>3. ToSet(<<x>> \o m) = ToSet(<<x>>) \cup ToSet(m)
    BY <2>1, Joined DEF List
  <2>4. QED BY <2>2, <2>3
<1>7. (<<x>> \o m)[1] = x
  <2>1. IsSeq(<<x>>) /\ IsSeq(m)
    BY <1>3, <1>4 DEF Queue, List
  <2>2. \A i \in 1..(Len(<<x>>) + Len(m)) : (<<x>> \o m)[i] = IF i <= Len(<<x>>) THEN <<x>>[i] ELSE m[i - Len(<<x>>)]
    BY <2>1, Joined
  <2>3. Len(<<x>>) = 1 /\ <<x>>[1] = x
    OBVIOUS
  <2>4. Len(m) \in Nat
    BY <2>1, Elements
  <2>5. 1 \in 1..(Len(<<x>>) + Len(m)) /\ 1 <= Len(<<x>>)
    BY <2>3, <2>4
  <2>6. QED BY <2>2, <2>3, <2>5
<1>8. PICK calls : calls = <<x>> \o m
  OBVIOUS
<1>9. Queue(p, calls) /\ \A c \in ToSet(calls) : Plain(c)
  BY <1>2, <1>3, <1>4, <1>6, <1>7, <1>8 DEF Queue, Plain
<1>10. \A c \in ToSet(calls), d \in Calls(p) : Follows(p, Arg(p), d) => Follows(p, c, d)
  BY <1>9, After DEF Plain, Deciding
<1>11. Then(p, calls)
  BY <1>1, <1>8
<1>12. Takes(p, ToSet(calls))
  BY <1>9, <1>10, <1>11, ThenTakes
<1>13. QED BY <1>9, <1>12 DEF Plain

LEMMA RetriesAnswered ==
  ASSUME Sound, NEW p \in Threads, retry_answered(p)
  PROVE  \E N : Takes(p, N) /\ \A c \in N : c.op # "unlock"
<1>1. ~ Idle(p) /\ Arg(p).op = "retried"
  BY DEF retry_answered, Doing, Arg
<1>2. wiring # Static
  <2>1. SUFFICES ASSUME wiring = Static PROVE FALSE
    OBVIOUS
  <2>2. CallOk(Arg(p))
    BY <1>1, <2>1, Kept
  <2>3. QED BY <1>1, <2>2 DEF CallOk, StaticOps, BrowserOps
<1> DEFINE t == TaskOf(p)
           row == tasks[t]
<1>3. CASE \E a : Plain(a) /\ Then(p, <<a>>)
  <2>1. PICK a : Plain(a) /\ Then(p, <<a>>)
    BY <1>3
  <2>2. Takes(p, {a})
    BY <1>1, <2>1, ThenPlain DEF Deciding
  <2>3. \A c \in {a} : c.op # "unlock"
    BY <2>1 DEF Plain
  <2>4. QED BY <2>2, <2>3
<1>4. CASE Then(p, <<Call("drop", t)>> \o Apply(t, row, Arg(p).answer))
  BY <1>1, <1>2, <1>4, DropsThenApplies
<1>5. CASE Then(p, <<>> \o Apply(t, row, Arg(p).answer))
  <2>1. PICK m, a : m = Apply(t, row, a) /\ a = Arg(p).answer
    OBVIOUS
  <2>2. Queue(p, m) /\ \A c \in ToSet(m) : Plain(c)
    BY <1>2, <2>1, ApplyQueue
  <2>3. <<>> \o m = m
    BY <2>2, ConcatEmptySeq DEF Queue, List, IsSeq
  <2>4. Then(p, Apply(t, row, a))
    BY <1>5, <2>1, <2>3
  <2>5. Takes(p, ToSet(Apply(t, row, a))) /\ \A c \in ToSet(Apply(t, row, a)) : Plain(c)
    BY <1>1, <1>2, <2>4, ThenApply DEF Deciding
  <2>6. QED BY <2>5 DEF Plain
<1>6. /\ Plain(AnswerCall("store", t, Arg(p).answer))
      /\ Plain([RowCall("complete_cleanup_gate", t, row) EXCEPT !.answer = Arg(p).answer])
  <2>1. Plain(AnswerCall("store", t, Arg(p).answer))
    BY CallFields DEF Is, Plain, Inner, InnerOps
  <2>2. PICK c : c = RowCall("complete_cleanup_gate", t, row)
    OBVIOUS
  <2>3. Is(c, "complete_cleanup_gate", t, row, NONE, A("failed"), NoInteraction)
    BY <2>2, CallFields
  <2>4. Plain([c EXCEPT !.answer = Arg(p).answer])
    BY <2>3 DEF Is, IsCall, Plain, Inner, InnerOps
  <2>5. QED BY <2>1, <2>2, <2>4
<1>7. \/ Then(p, <<AnswerCall("store", t, Arg(p).answer)>>)
      \/ Then(p, <<[RowCall("complete_cleanup_gate", t, row) EXCEPT !.answer = Arg(p).answer]>>)
      \/ Then(p, <<Call("drop", t)>> \o Apply(t, row, Arg(p).answer))
      \/ Then(p, <<>> \o Apply(t, row, Arg(p).answer))
  BY DEF retry_answered, Decides, TaskOf
<1>8. QED BY <1>3, <1>4, <1>5, <1>6, <1>7

LEMMA Completes ==
  ASSUME Sound, NEW p \in Threads, complete_cleanup_gate(p)
  PROVE  \E N : Takes(p, N) /\ \A c \in N : c.op # "unlock"
<1>1. ~ Idle(p) /\ Arg(p).op = "complete_cleanup_gate"
  BY DEF complete_cleanup_gate, Doing, Arg
<1>2. wiring # Static
  <2>1. SUFFICES ASSUME wiring = Static PROVE FALSE
    OBVIOUS
  <2>2. CallOk(Arg(p))
    BY <1>1, <2>1, Kept
  <2>3. QED BY <1>1, <2>2 DEF CallOk, StaticOps, BrowserOps
<1>3. CASE Then(p, <<>>)
  BY <1>1, <1>3, Then0
<1>4. CASE Then(p, <<Call("drop", TaskOf(p))>> \o Apply(TaskOf(p), CleanedUp(Arg(p).row), Arg(p).answer))
  BY <1>1, <1>2, <1>4, DropsThenApplies
<1>5. QED BY <1>3, <1>4 DEF complete_cleanup_gate, TaskOf

LEMMA SweepsTerminal ==
  ASSUME Queues, NEW p \in Threads, sweep_terminal(p)
  PROVE  \/ /\ Takes(p, {})
            /\ tasks[TaskOf(p)].status \notin TERMINAL_STATUSES \/ TaskOf(p) \notin Entries
         \/ \E a : /\ Takes(p, {a}) /\ a.op # "unlock"
                   /\ tasks[TaskOf(p)].status \in TERMINAL_STATUSES /\ TaskOf(p) \in Entries
                   /\ interactions[TaskOf(p)].kind \notin CleanupKinds =>
                        Is(a, "cancel_handle", TaskOf(p), NoRow, "terminal", A("failed"), interactions[TaskOf(p)])
<1>1. ~ Idle(p) /\ Arg(p).op = "sweep_terminal"
  BY DEF sweep_terminal, Doing, Arg
<1>2. CASE Then(p, <<>>) /\ (tasks[TaskOf(p)].status \notin TERMINAL_STATUSES \/ TaskOf(p) \notin Entries)
  BY <1>1, <1>2, Then0
<1> DEFINE t == TaskOf(p)
           e == interactions[t]
<1>3. CASE /\ tasks[t].status \in TERMINAL_STATUSES /\ t \in Entries
           /\ Then(p, IF e.kind \in CleanupKinds THEN <<Unchecked(t, e)>> ELSE <<CancelHandle(t, e, "terminal")>>)
  <2>1. PICK a : a = IF e.kind \in CleanupKinds THEN Unchecked(t, e) ELSE CancelHandle(t, e, "terminal")
    OBVIOUS
  <2>2. /\ Is(Unchecked(t, e), "retry_cleanup", t, NoRow, "unchecked", A("failed"), e)
        /\ Is(CancelHandle(t, e, "terminal"), "cancel_handle", t, NoRow, "terminal", A("failed"), e)
    BY CallFields
  <2>3. /\ IsCall(a) /\ a.op \in {"retry_cleanup", "cancel_handle"}
        /\ e.kind \notin CleanupKinds => Is(a, "cancel_handle", t, NoRow, "terminal", A("failed"), e)
    BY <2>1, <2>2 DEF Is
  <2>4. Then(p, <<a>>)
    BY <1>3, <2>1
  <2>5. \A d \in Calls(p) : Follows(p, Arg(p), d) => Follows(p, a, d)
    BY <1>1, <2>3, After DEF Outer, OuterOps
  <2>6. Takes(p, {a})
    BY <1>1, <2>3, <2>4, <2>5, Then1
  <2>7. QED BY <1>3, <2>3, <2>6
<1>4. QED BY <1>2, <1>3 DEF sweep_terminal, Decides

LEMMA RetriesStored ==
  ASSUME Queues, NEW p \in Threads, retry_stored(p)
  PROVE  \E N : Takes(p, N) /\ \A c \in N : c.op # "unlock"
<1>1. ~ Idle(p) /\ Arg(p).op = "retry_stored"
  BY DEF retry_stored, Doing, Arg
<1>2. CASE Then(p, <<>>)
  BY <1>1, <1>2, Then0
<1>3. CASE Then(p, <<Unchecked(TaskOf(p), interactions[TaskOf(p)])>>)
  <2>1. PICK a : a = Unchecked(TaskOf(p), interactions[TaskOf(p)])
    OBVIOUS
  <2>2. IsCall(a) /\ a.op = "retry_cleanup"
    BY <2>1, CallFields DEF Is
  <2>3. \A d \in Calls(p) : Follows(p, Arg(p), d) => Follows(p, a, d)
    BY <1>1, <2>2, After DEF Outer, OuterOps
  <2>4. Takes(p, {a})
    BY <1>1, <1>3, <2>1, <2>2, <2>3, Then1
  <2>5. \A c \in {a} : c.op # "unlock"
    BY <2>2
  <2>6. QED BY <2>4, <2>5
<1>4. QED BY <1>2, <1>3 DEF retry_stored, Decides

LEMMA Expires ==
  ASSUME Queues, NEW p \in Threads, expire(p)
  PROVE  \/ Takes(p, {}) /\ ~ Current(Arg(p))
         \/ \E a, b : /\ Takes(p, {a, b}) /\ New(b, "unlock", 0) /\ b.entry = Arg(p).entry /\ a.op # "unlock"
                      /\ Arg(p).entry.kind \notin CleanupKinds =>
                           Is(a, "cancel_handle", TaskOf(p), NoRow, "expired", A("failed"), Arg(p).entry)
                      /\ Current(Arg(p)) /\ ~ Locked(Arg(p).entry.lock)
<1>1. ~ Idle(p) /\ Arg(p).op = "expire" /\ ~ Locked(Arg(p).entry.lock)
  BY DEF expire, Acquired, Doing, Arg
<1>2. CASE Then(p, <<>>) /\ ~ Current(Arg(p))
  BY <1>1, <1>2, Then0
<1>3. CASE /\ Then(p, Under(Arg(p).entry, IF Arg(p).entry.kind \in CleanupKinds
                                          THEN <<EntryCall("retry", TaskOf(p), Arg(p).entry)>>
                                          ELSE <<CancelHandle(TaskOf(p), Arg(p).entry, "expired")>>))
           /\ Current(Arg(p))
  <2>1. PICK a : a = IF Arg(p).entry.kind \in CleanupKinds THEN EntryCall("retry", TaskOf(p), Arg(p).entry)
                     ELSE CancelHandle(TaskOf(p), Arg(p).entry, "expired")
    OBVIOUS
  <2>2. /\ Is(EntryCall("retry", TaskOf(p), Arg(p).entry), "retry", TaskOf(p), NoRow, NONE, A("failed"), Arg(p).entry)
        /\ Is(CancelHandle(TaskOf(p), Arg(p).entry, "expired"), "cancel_handle", TaskOf(p), NoRow, "expired", A("failed"), Arg(p).entry)
    BY CallFields
  <2>3. /\ IsCall(a) /\ a.op \in {"retry", "cancel_handle"} /\ (a.op = "cancel_handle" => a.to = "expired")
        /\ Arg(p).entry.kind \notin CleanupKinds =>
             Is(a, "cancel_handle", TaskOf(p), NoRow, "expired", A("failed"), Arg(p).entry)
    BY <2>1, <2>2 DEF Is
  <2>7. Inner(a) /\ Outer(Arg(p))
    BY <1>1, <2>3 DEF Inner, InnerOps, Outer, OuterOps
  <2>8. Then(p, Under(Arg(p).entry, <<a>>))
    BY <1>3, <2>1
  <2>9. \E b : Takes(p, {a, b}) /\ New(b, "unlock", 0) /\ b.entry = Arg(p).entry
    <3>1. IsCall(a) /\ ~ Idle(p)
      BY <1>1, <2>3
    <3>2. PICK e : e = Arg(p).entry
      OBVIOUS
    <3>3. Then(p, Under(e, <<a>>))
      BY <2>8, <3>2
    <3>4. \E b : Takes(p, {a, b}) /\ New(b, "unlock", 0) /\ b.entry = e
      BY <3>1, <3>3, <2>7, ThenUnder
    <3>5. QED BY <3>2, <3>4
  <2>10. QED BY <1>1, <1>3, <2>3, <2>9
<1>4. QED BY <1>2, <1>3 DEF expire, Decides, TaskOf

LEMMA Triple ==
  ASSUME NEW a, NEW b, NEW c
  PROVE  <<a, b>> \o <<c>> = <<a, b, c>>
<1>1. PICK x, y, z : x = <<a, b>> /\ y = <<c>> /\ z = <<a, b, c>>
  OBVIOUS
<1>2. /\ x \in Seq({a, b, c}) /\ Len(x) = 2 /\ x[1] = a /\ x[2] = b
      /\ y \in Seq({a, b, c}) /\ Len(y) = 1 /\ y[1] = c
      /\ z \in Seq({a, b, c}) /\ Len(z) = 3 /\ z[1] = a /\ z[2] = b /\ z[3] = c
  BY <1>1
<1>3. /\ x \o y \in Seq({a, b, c}) /\ Len(x \o y) = Len(x) + Len(y)
      /\ \A i \in 1..(Len(x) + Len(y)) : (x \o y)[i] = IF i <= Len(x) THEN x[i] ELSE y[i - Len(x)]
  BY <1>2, ConcatProperties
<1>4. PICK w : w = x \o y
  OBVIOUS
<1>5. Len(w) = 3 /\ w[1] = a /\ w[2] = b /\ w[3] = c /\ w \in Seq({a, b, c})
  BY <1>2, <1>3, <1>4
<1>6. w = z
  <2>1. \A i \in 1..Len(w) : w[i] = z[i]
    BY <1>2, <1>5
  <2>2. QED BY <2>1, <1>2, <1>5, SeqEqual
<1>7. QED BY <1>1, <1>4, <1>6

LEMMA Expired ==
  ASSUME NEW p, expired(p)
  PROVE  \/ \E a : /\ Takes(p, {a}) /\ New(a, "drop", TaskOf(p))
                   /\ tasks[TaskOf(p)].status # "waiting_for_user"
         \/ \E a, b, c : /\ Takes(p, {a, b, c}) /\ tasks[TaskOf(p)].status = "waiting_for_user"
                         /\ New(a, "release", TaskOf(p)) /\ New(c, "drop", TaskOf(p))
                         /\ New(b, "lost", TaskOf(p)) /\ b.row = tasks[TaskOf(p)]
<1>1. ~ Idle(p) /\ Arg(p).op = "expired"
  BY DEF expired, Doing, Arg
<1> DEFINE t == TaskOf(p)
<1>2. PICK a, b, c : a = Call("release", t) /\ b = RowCall("lost", t, tasks[t]) /\ c = Call("drop", t)
  OBVIOUS
<1>3. New(a, "release", t) /\ New(b, "lost", t) /\ b.row = tasks[t] /\ New(c, "drop", t)
  BY <1>2, CallFields DEF Is, New
<1>4. Plain(a) /\ Plain(b) /\ Plain(c) /\ Follows(p, a, b) /\ Follows(p, a, c) /\ Follows(p, b, c)
  BY <1>3 DEF New, Plain, Inner, InnerOps, Follows, Outer, OuterOps, Deciding
<1>5. \A d \in Calls(p) : Follows(p, Arg(p), d) => Follows(p, a, d) /\ Follows(p, b, d) /\ Follows(p, c, d)
  BY <1>1, <1>4, After DEF Plain, Deciding
<1>6. CASE Then(p, <<>> \o <<c>>) /\ tasks[t].status # "waiting_for_user"
  <2>1. <<>> \o <<c>> = <<c>>
    OBVIOUS
  <2>2. Takes(p, {c})
    BY <1>1, <1>4, <1>5, <1>6, <2>1, Then1 DEF Plain
  <2>3. QED BY <1>3, <1>6, <2>2
<1>7. CASE Then(p, <<a, b>> \o <<c>>) /\ tasks[t].status = "waiting_for_user"
  <2>1. Takes(p, {a, b, c})
    BY <1>1, <1>4, <1>5, <1>7, Triple, Then3 DEF Plain
  <2>2. QED BY <1>3, <1>7, <2>1
<1>8. QED BY <1>2, <1>6, <1>7 DEF expired, Decides

LEMMA Reserves ==
  ASSUME Queues, NEW p \in Threads, _reserve_capacity(p)
  PROVE  \/ \E a : /\ Takes(p, {a}) /\ New(a, "transition", TaskOf(p)) /\ a.row = Arg(p).row
                   /\ a.to = "recoverable_failed" /\ TaskOf(p) \notin Entries
         \/ \E a, b : /\ Takes(p, {a, b}) /\ New(a, "check", TaskOf(p)) /\ a.row = Arg(p).row
                      /\ New(b, "unreserve", TaskOf(p))
<1>1. ~ Idle(p) /\ Arg(p).op = "reserve"
  BY DEF _reserve_capacity, Doing, Arg
<1> DEFINE t == TaskOf(p)
<1>2. CASE Then(p, <<Transition(t, Arg(p).row, "recoverable_failed")>>) /\ t \notin Entries
  <2>1. PICK a : a = Transition(t, Arg(p).row, "recoverable_failed")
    OBVIOUS
  <2>2. New(a, "transition", t) /\ a.row = Arg(p).row /\ a.to = "recoverable_failed"
    BY <2>1, CallFields DEF Is, New
  <2>3. \A d \in Calls(p) : Follows(p, Arg(p), d) => Follows(p, a, d)
    BY <1>1, <2>2, After DEF New
  <2>4. Takes(p, {a})
    BY <1>1, <1>2, <2>1, <2>2, <2>3, Then1 DEF New
  <2>5. QED BY <1>2, <2>2, <2>4
<1>3. CASE Then(p, <<[Arg(p) EXCEPT !.op = "check"], Call("unreserve", t)>>)
  <2>1. PICK c : c = Arg(p)
    OBVIOUS
  <2>2. IsCall(c)
    BY <1>1, <2>1, FirstCall
  <2>3. PICK a, b : a = [c EXCEPT !.op = "check"] /\ b = Call("unreserve", t)
    OBVIOUS
  <2>4. Is([c EXCEPT !.op = "check"], "check", c.task, c.row, c.to, c.answer, c.entry)
    BY <2>2, CallAgain
  <2>5. Is(a, "check", c.task, c.row, c.to, c.answer, c.entry)
    BY <2>3, <2>4
  <2>6. New(a, "check", t) /\ a.row = Arg(p).row
    BY <2>1, <2>5 DEF Is, New, TaskOf, Arg
  <2>7. New(b, "unreserve", t)
    BY <2>3, CallFields DEF Is, New
  <2>8. Follows(p, a, b)
    BY <2>6, <2>7 DEF New, Follows, Outer, OuterOps, Deciding, Ends
  <2>9. \A d \in Calls(p) : Follows(p, Arg(p), d) => Follows(p, a, d) /\ Follows(p, b, d)
    BY <1>1, <2>6, <2>7, After DEF New
  <2>10. Then(p, <<a, b>>)
    BY <1>3, <2>1, <2>3
  <2>11. Takes(p, {a, b})
    BY <1>1, <2>6, <2>7, <2>8, <2>9, <2>10, Then2 DEF New
  <2>12. QED BY <2>6, <2>7, <2>11
<1>4. QED BY <1>2, <1>3 DEF _reserve_capacity

LEMMA Checks ==
  ASSUME Queues, NEW p \in Threads, check(p)
  PROVE  \/ Takes(p, {}) /\ ~ Fresh(Arg(p))
         \/ \E a : /\ Takes(p, {a}) /\ New(a, "resolve", TaskOf(p)) /\ a.row = Arg(p).row /\ Fresh(Arg(p))
<1>1. ~ Idle(p) /\ Arg(p).op = "check"
  BY DEF check, Doing, Arg
<1>2. CASE Then(p, <<>>) /\ ~ Fresh(Arg(p))
  BY <1>1, <1>2, Then0
<1>3. CASE Then(p, <<[Arg(p) EXCEPT !.op = "resolve"]>>) /\ Fresh(Arg(p))
  <2>1. PICK c : c = Arg(p)
    OBVIOUS
  <2>2. IsCall(c)
    BY <1>1, <2>1, FirstCall
  <2>3. PICK a : a = [c EXCEPT !.op = "resolve"]
    OBVIOUS
  <2>4. Is([c EXCEPT !.op = "resolve"], "resolve", c.task, c.row, c.to, c.answer, c.entry)
    BY <2>2, CallAgain
  <2>5. Is(a, "resolve", c.task, c.row, c.to, c.answer, c.entry)
    BY <2>3, <2>4
  <2>6. New(a, "resolve", TaskOf(p)) /\ a.row = Arg(p).row
    BY <2>1, <2>5 DEF Is, New, TaskOf, Arg
  <2>7. \A d \in Calls(p) : Follows(p, Arg(p), d) => Follows(p, a, d)
    BY <1>1, <2>6, After DEF New
  <2>8. Then(p, <<a>>)
    BY <1>3, <2>1, <2>3
  <2>9. Takes(p, {a})
    BY <1>1, <2>6, <2>7, <2>8, Then1 DEF New
  <2>10. QED BY <1>3, <2>6, <2>9
<1>4. QED BY <1>2, <1>3 DEF check, Decides

LEMMA ClosesEntry ==
  ASSUME NEW p, close_entry(p)
  PROVE  \/ Takes(p, {}) /\ TaskOf(p) \notin Entries
         \/ \E N : /\ Takes(p, N) /\ (\A c \in N : c.op # "unlock") /\ TaskOf(p) \in Entries
                   /\ interactions[TaskOf(p)].kind \notin CleanupKinds =>
                        \E a : /\ N = {a}
                               /\ Is(a, "cancel_handle", TaskOf(p), NoRow, "closing", A("failed"), interactions[TaskOf(p)])
<1>1. ~ Idle(p) /\ Arg(p).op = "close_entry" /\ Outer(Arg(p))
  BY DEF close_entry, Doing, Arg, Outer, OuterOps
<1> DEFINE t == TaskOf(p)
           e == interactions[t]
<1>2. CASE Then(p, <<>>) /\ t \notin Entries
  BY <1>1, <1>2, Then0
<1>3. CASE /\ Then(p, <<EntryCall("retry_cleanup", t, e), Call("view", t), Call("close_check", t)>>)
           /\ t \in Entries /\ e.kind \in CleanupKinds
  <2>1. PICK a, b, c : a = EntryCall("retry_cleanup", t, e) /\ b = Call("view", t) /\ c = Call("close_check", t)
    OBVIOUS
  <2>2. New(a, "retry_cleanup", t) /\ New(b, "view", t) /\ New(c, "close_check", t)
    BY <2>1, CallFields DEF Is, New
  <2>3. Follows(p, a, b) /\ Follows(p, a, c) /\ Follows(p, b, c)
    BY <2>2 DEF New, Follows, Outer, OuterOps, Deciding
  <2>4. \A d \in Calls(p) : Follows(p, Arg(p), d) => Follows(p, a, d) /\ Follows(p, b, d) /\ Follows(p, c, d)
    BY <1>1, <2>2, After DEF New
  <2>5. Takes(p, {a, b, c})
    BY <1>1, <1>3, <2>1, <2>2, <2>3, <2>4, Then3 DEF New
  <2>6. \A d \in {a, b, c} : d.op # "unlock"
    BY <2>2 DEF New
  <2>7. QED BY <1>3, <2>5, <2>6
<1>4. CASE /\ Then(p, <<CancelHandle(t, e, "closing")>>) /\ t \in Entries
  <2>1. PICK a : a = CancelHandle(t, e, "closing")
    OBVIOUS
  <2>2. Is(a, "cancel_handle", t, NoRow, "closing", A("failed"), e)
    BY <2>1, CallFields
  <2>3. \A d \in Calls(p) : Follows(p, Arg(p), d) => Follows(p, a, d)
    BY <1>1, <2>2, After DEF Is
  <2>4. Takes(p, {a})
    BY <1>1, <1>4, <2>1, <2>2, <2>3, Then1 DEF Is
  <2>5. \A d \in {a} : d.op # "unlock"
    BY <2>2 DEF Is
  <2>6. PICK N : N = {a}
    OBVIOUS
  <2>7. QED BY <1>4, <2>2, <2>4, <2>5, <2>6
<1>5. QED BY <1>2, <1>3, <1>4 DEF close_entry, Decides

LEMMA ClosesCheck ==
  ASSUME NEW p, close_check(p)
  PROVE  \E N : Takes(p, N) /\ \A c \in N : c.op # "unlock"
<1>1. ~ Idle(p) /\ Arg(p).op = "close_check" /\ Outer(Arg(p))
  BY DEF close_check, Doing, Arg, Outer, OuterOps
<1>2. CASE Then(p, <<>>)
  BY <1>1, <1>2, Then0
<1>3. CASE Then(p, <<Call("release", TaskOf(p)), Call("drop", TaskOf(p))>>)
  <2>1. PICK a, b : a = Call("release", TaskOf(p)) /\ b = Call("drop", TaskOf(p))
    OBVIOUS
  <2>2. New(a, "release", TaskOf(p)) /\ New(b, "drop", TaskOf(p))
    BY <2>1, CallFields DEF Is, New
  <2>3. Follows(p, a, b)
    BY <2>2 DEF New, Follows, Outer, OuterOps, Deciding
  <2>4. \A d \in Calls(p) : Follows(p, Arg(p), d) => Follows(p, a, d) /\ Follows(p, b, d)
    BY <1>1, <2>2, After DEF New
  <2>5. Takes(p, {a, b})
    BY <1>1, <1>3, <2>1, <2>2, <2>3, <2>4, Then2 DEF New
  <2>6. \A d \in {a, b} : d.op # "unlock"
    BY <2>2 DEF New
  <2>7. QED BY <2>5, <2>6
<1>4. QED BY <1>2, <1>3 DEF close_check

\* Any order of a set has all its elements.
LEMMA Orders ==
  ASSUME NEW S, IsFiniteSet(S), NEW order \in SetToSeqs(S)
  PROVE  /\ Cardinality(S) \in Nat /\ DOMAIN order = 1..Cardinality(S)
         /\ \A i \in DOMAIN order : order[i] \in S
         /\ \A t \in S : \E i \in DOMAIN order : order[i] = t
<1> DEFINE n == Cardinality(S)
<1>1. n \in Nat
  BY FS_CardinalityType
<1>2. order \in [1..n -> S] /\ \A i, j \in 1..n : i # j => order[i] # order[j]
  BY DEF SetToSeqs
<1>3. order \in Injection(1..n, S)
  BY <1>2, Fun_IsInj
<1>4. Cardinality(1..n) = n
  BY <1>1, FS_Interval
<1>5. order \in Surjection(1..n, S)
  BY <1>3, <1>4, FS_Injection
<1>6. \A t \in S : \E i \in 1..n : order[i] = t
  BY <1>5 DEF Surjection
<1>7. QED BY <1>1, <1>2, <1>6

\* The calls for each task of a set, made before any other that a thread begins with.
Maps(m, order, g) == m = [i \in DOMAIN order |-> g[order[i]]]
Begun(g, S) == \A t \in S : IsCall(g[t]) /\ g[t].op \in OuterOps \ {"reserve"}

LEMMA Mapped ==
  ASSUME NEW p, NEW S, IsFiniteSet(S), NEW order \in SetToSeqs(S), NEW g, NEW m,
         Begun(g, S), Maps(m, order, g)
  PROVE  /\ Queue(p, m)
         /\ \A c \in ToSet(m) : \E t \in S : c = g[t]
         /\ \A t \in S : g[t] \in ToSet(m)
<1>1. PICK n \in Nat : /\ DOMAIN order = 1..n
                       /\ \A i \in 1..n : order[i] \in S
                       /\ \A t \in S : \E i \in 1..n : order[i] = t
  BY Orders
<1>2. DOMAIN m = 1..n /\ \A i \in 1..n : m[i] = g[order[i]]
  BY <1>1 DEF Maps
<1>3. (\A c \in ToSet(m) : \E t \in S : c = g[t]) /\ \A t \in S : g[t] \in ToSet(m)
  BY <1>1, <1>2 DEF ToSet
<1>4. IsSeq(m) /\ Len(m) = n
  <2>1. \A i \in 1..n : m[i] \in ToSet(m)
    BY <1>2 DEF ToSet
  <2>2. m \in [1..n -> ToSet(m)]
    BY <1>1, <1>2, <2>1 DEF Maps
  <2>3. m \in Seq(ToSet(m))
    BY <2>2, SeqDef
  <2>4. QED BY <1>2, <2>3, LenProperties DEF IsSeq
<1>5. \A c \in ToSet(m) : IsCall(c) /\ c.op \in OuterOps \ {"reserve"}
  BY <1>3 DEF Begun
<1>6. \A c, d \in ToSet(m) : Follows(p, c, d)
  BY <1>5 DEF Follows, Outer, OuterOps, Deciding
<1>7. \A i \in 1..n : m[i] \in ToSet(m)
  BY <1>2 DEF ToSet
<1>8. List(p, m)
  BY <1>4, <1>5, <1>6, <1>7 DEF List
<1>9. m # <<>> => m[1].op # "unlock"
  <2>1. SUFFICES ASSUME m # <<>> PROVE m[1] \in ToSet(m)
    BY <1>5 DEF OuterOps
  <2>2. QED BY <1>4, <2>1, TailElements
<1>10. QED BY <1>3, <1>8, <1>9 DEF Queue

LEMMA FiniteEntries ==
  IsFiniteSet(Tasks) /\ \A S : S \subseteq Tasks => IsFiniteSet(S)
<1>1. IsFiniteSet(Tasks)
  BY ControllerAssumption
<1>2. QED BY <1>1, FS_Subset

LEMMA Sweeps ==
  ASSUME NEW p, sweep(p)
  PROVE  \E N : /\ Takes(p, N)
                /\ \E c \in N : New(c, "sweep_expired", 0)
                /\ \A c \in N : \/ New(c, "sweep_expired", 0)
                                \/ \E t \in Entries : New(c, "sweep_terminal", t)
<1>1. ~ Idle(p) /\ Arg(p).op = "sweep"
  BY DEF sweep, Doing, Arg
<1>2. PICK order \in SetToSeqs(Entries) :
        Then(p, [i \in DOMAIN order |-> Call("sweep_terminal", order[i])] \o <<Call("sweep_expired", 0)>>)
  BY DEF sweep, InSomeOrder
<1>3. PICK g : g = [t \in Entries |-> Call("sweep_terminal", t)]
  OBVIOUS
<1>4. PICK m : m = [i \in DOMAIN order |-> g[order[i]]]
  OBVIOUS
<1>5. IsFiniteSet(Entries)
  BY FiniteEntries DEF Entries
<1>6. \A t \in Entries : New(g[t], "sweep_terminal", t) /\ IsCall(g[t]) /\ g[t].op \in OuterOps \ {"reserve"}
  BY <1>3, CallFields DEF Is, New, OuterOps
<1>7. /\ Queue(p, m)
      /\ \A c \in ToSet(m) : \E t \in Entries : c = g[t]
  <2>1. Maps(m, order, g) /\ Begun(g, Entries)
    BY <1>4, <1>6 DEF Maps, Begun
  <2>2. QED BY <1>5, <2>1, Mapped
<1>8. m = [i \in DOMAIN order |-> Call("sweep_terminal", order[i])]
  <2>1. \A i \in DOMAIN order : order[i] \in Entries
    BY <1>5, Orders
  <2>2. QED BY <1>3, <1>4, <2>1
<1>9. PICK z : z = Call("sweep_expired", 0)
  OBVIOUS
<1>10. New(z, "sweep_expired", 0)
  BY <1>9, CallFields DEF Is, New
<1>11. List(p, <<z>>) /\ ToSet(<<z>>) = {z}
  BY <1>10, Short DEF New
<1>12. List(p, m) /\ \A a \in ToSet(m) : \A b \in ToSet(<<z>>) : Follows(p, a, b)
  BY <1>6, <1>7, <1>10, <1>11 DEF Queue, New, Follows, Outer, OuterOps, Deciding
<1>13. List(p, m \o <<z>>) /\ ToSet(m \o <<z>>) = ToSet(m) \cup ToSet(<<z>>)
  BY <1>11, <1>12, JoinedLists
<1>14. PICK calls : calls = m \o <<z>>
  OBVIOUS
<1>15. \A c \in ToSet(calls) : New(c, "sweep_expired", 0) \/ \E t \in Entries : New(c, "sweep_terminal", t)
  BY <1>6, <1>7, <1>10, <1>11, <1>13, <1>14
<1>16. Queue(p, calls)
  <2>1. SUFFICES ASSUME calls # <<>> PROVE calls[1] \in ToSet(calls)
    BY <1>13, <1>14, <1>15 DEF Queue, New
  <2>2. QED BY <1>13, <1>14, <2>1, TailElements DEF List
<1>17. \A a \in ToSet(calls), b \in Calls(p) : Follows(p, Arg(p), b) => Follows(p, a, b)
  <2>1. \A a \in ToSet(calls) : a.op # "reserve"
    BY <1>15 DEF New
  <2>2. QED BY <1>1, <2>1, After DEF Outer, OuterOps
<1>18. Then(p, calls)
  BY <1>2, <1>8, <1>9, <1>14
<1>19. Takes(p, ToSet(calls))
  BY <1>1, <1>16, <1>17, <1>18, ThenTakes
<1>20. z \in ToSet(calls)
  BY <1>11, <1>13, <1>14
<1>21. QED BY <1>10, <1>15, <1>19, <1>20

LEMMA SweepsExpired ==
  ASSUME NEW p, sweep_expired(p)
  PROVE  \E N : /\ Takes(p, N)
                /\ \A c \in N : \E t \in Entries :
                     /\ interactions[t].expired
                     /\ Is(c, "expire", t, NoRow, NONE, A("failed"), interactions[t])
                /\ \A t \in Entries : interactions[t].expired =>
                     \E c \in N : Is(c, "expire", t, NoRow, NONE, A("failed"), interactions[t])
<1>1. ~ Idle(p) /\ Arg(p).op = "sweep_expired"
  BY DEF sweep_expired, Doing, Arg
<1>2. PICK S : S = {t \in Entries : interactions[t].expired}
  OBVIOUS
<1>3. PICK order \in SetToSeqs(S) :
        Then(p, [i \in DOMAIN order |-> EntryCall("expire", order[i], interactions[order[i]])] \o <<>>)
  BY <1>2 DEF sweep_expired, InSomeOrder
<1>4. PICK g : g = [t \in S |-> EntryCall("expire", t, interactions[t])]
  OBVIOUS
<1>5. PICK m : m = [i \in DOMAIN order |-> g[order[i]]]
  OBVIOUS
<1>6. IsFiniteSet(S)
  BY <1>2, FiniteEntries DEF Entries
<1>7. \A t \in S : Is(g[t], "expire", t, NoRow, NONE, A("failed"), interactions[t])
  BY <1>4, CallFields
<1>8. \A t \in S : IsCall(g[t]) /\ g[t].op \in OuterOps \ {"reserve"}
  BY <1>7 DEF Is, OuterOps
<1>9. /\ Queue(p, m)
      /\ \A c \in ToSet(m) : \E t \in S : c = g[t]
      /\ \A t \in S : g[t] \in ToSet(m)
  <2>1. Maps(m, order, g) /\ Begun(g, S)
    BY <1>5, <1>8 DEF Maps, Begun
  <2>2. QED BY <1>6, <2>1, Mapped
<1>10. m = [i \in DOMAIN order |-> EntryCall("expire", order[i], interactions[order[i]])]
  <2>1. \A i \in DOMAIN order : order[i] \in S
    BY <1>6, Orders
  <2>2. QED BY <1>4, <1>5, <2>1
<1>11. m \o <<>> = m
  BY <1>9, ConcatEmptySeq DEF Queue, List, IsSeq
<1>12. \A a \in ToSet(m), b \in Calls(p) : Follows(p, Arg(p), b) => Follows(p, a, b)
  <2>1. \A a \in ToSet(m) : a.op # "reserve"
    BY <1>8, <1>9
  <2>2. QED BY <1>1, <2>1, After DEF Outer, OuterOps
<1>13. Then(p, m)
  BY <1>3, <1>10, <1>11
<1>14. Takes(p, ToSet(m))
  BY <1>1, <1>9, <1>12, <1>13, ThenTakes
<1>15. QED BY <1>2, <1>7, <1>9, <1>14

LEMMA Closes ==
  ASSUME Queues, close
  PROVE  /\ Queues' /\ AllIdle /\ closed' = "complete" /\ wiring' = wiring
         /\ UNCHANGED <<data, owner, queued>>
         /\ \A p \in Threads \ {Client} : Calls(p)' = {}
         /\ \A c \in Calls(Client)' : \E t \in Entries : New(c, "close_entry", t)
         /\ \A t \in Entries : \E c \in Calls(Client)' : New(c, "close_entry", t)
<1>1. PICK order \in SetToSeqs(Entries) : Start(Client, [i \in DOMAIN order |-> Call("close_entry", order[i])])
  BY DEF close
<1>2. PICK g : g = [t \in Entries |-> Call("close_entry", t)]
  OBVIOUS
<1>3. PICK m : m = [i \in DOMAIN order |-> g[order[i]]]
  OBVIOUS
<1>4. IsFiniteSet(Entries)
  BY FiniteEntries DEF Entries
<1>5. \A t \in Entries : New(g[t], "close_entry", t) /\ IsCall(g[t]) /\ g[t].op \in OuterOps \ {"reserve"}
  BY <1>2, CallFields DEF Is, New, OuterOps
<1>6. /\ Queue(Client, m)
      /\ \A c \in ToSet(m) : \E t \in Entries : c = g[t]
      /\ \A t \in Entries : g[t] \in ToSet(m)
  <2>1. Maps(m, order, g) /\ Begun(g, Entries)
    BY <1>3, <1>5 DEF Maps, Begun
  <2>2. QED BY <1>4, <2>1, Mapped
<1>7. m = [i \in DOMAIN order |-> Call("close_entry", order[i])]
  <2>1. \A i \in DOMAIN order : order[i] \in Entries
    BY <1>4, Orders
  <2>2. QED BY <1>2, <1>3, <2>1
<1>8. todo' = [todo EXCEPT ![Client] = m] /\ wiring' = wiring
  BY <1>1, <1>7 DEF Start
<1>9. Client \in Threads
  BY DEF Threads
<1>10. todo'[Client] = m /\ \A p \in Threads \ {Client} : todo'[p] = todo[p]
  BY <1>8, <1>9 DEF Queues
<1>11. Queues'
  <2>1. \A q, x : Queue(q, x)' <=> Queue(q, x')
    BY <1>8 DEF Queue, List, IsSeq, IsCall, Follows
  <2>2. \A q \in Threads : Queue(q, todo'[q])
    BY <1>6, <1>10 DEF Queues
  <2>3. todo' = [q \in Threads |-> todo'[q]]
    BY <1>8 DEF Queues
  <2>4. QED BY <2>1, <2>2, <2>3 DEF Queues
<1>12. \A p \in Threads \ {Client} : Calls(p)' = {}
  <2>1. \A p \in Threads \ {Client} : todo'[p] = <<>>
    BY <1>10 DEF close, AllIdle, Idle
  <2>2. QED BY <2>1, Short DEF Calls
<1>13. QED BY <1>5, <1>6, <1>8, <1>10, <1>11, <1>12 DEF close, Calls

-----------------------------------------------------------------------------
(* Locks. *)

\* A thread's calls are new ones or old ones, and no other thread's change.
Moves(p, N) ==
  /\ \A c \in Calls(p)' : c \in N \/ c \in Calls(p)
  /\ \A q \in Threads \ {p} : Calls(q)' = Calls(q)

LEMMA HoldersKept ==
  ASSUME OneHolder, NEW p \in Threads, NEW N, Moves(p, N),
         \A c \in N : c.op = "unlock" => ~ Locked(c.entry.lock)
  PROVE  OneHolder'
<1>1. SUFFICES ASSUME NEW q \in Threads, NEW r \in Threads, NEW c \in Calls(q)', NEW d \in Calls(r)',
                      c.op = "unlock", d.op = "unlock", c.entry.lock = d.entry.lock
               PROVE  q = r
  BY DEF OneHolder
<1>2. \A s \in Threads : \A x \in Calls(s)' : x \in Calls(s) \/ (s = p /\ x \in N)
  BY DEF Moves
<1>3. \A s \in Threads : \A x \in Calls(s) : x.op = "unlock" => Locked(x.entry.lock)
  BY DEF Locked, Calls
<1>4. CASE c \in Calls(q) /\ d \in Calls(r)
  BY <1>1, <1>4 DEF OneHolder
<1>5. CASE q = p /\ c \in N /\ d \in Calls(r)
  BY <1>1, <1>3, <1>5
<1>6. CASE r = p /\ d \in N /\ c \in Calls(q)
  BY <1>1, <1>3, <1>6
<1>7. QED BY <1>1, <1>2, <1>4, <1>5, <1>6

LEMMA TakenMoves ==
  ASSUME NEW p, NEW N, Taken(p, N)
  PROVE  Moves(p, N)
BY DEF Taken, Moves

\* Whatever the thread calls, it takes no lock that another has.
TakesFree(p) == \E N : Takes(p, N) /\ \A c \in N : c.op = "unlock" => ~ Locked(c.entry.lock)

LEMMA FreeSets ==
  ASSUME NEW p
  PROVE  /\ Takes(p, {}) => TakesFree(p)
         /\ \A a : Takes(p, {a}) /\ a.op # "unlock" => TakesFree(p)
         /\ \A a, b : Takes(p, {a, b}) /\ a.op # "unlock" /\ (b.op = "unlock" => ~ Locked(b.entry.lock)) => TakesFree(p)
         /\ \A a, b, c : Takes(p, {a, b, c}) /\ a.op # "unlock" /\ b.op # "unlock" /\ c.op # "unlock" => TakesFree(p)
         /\ \A N : Takes(p, N) /\ (\A c \in N : c.op # "unlock") => TakesFree(p)
<1>1. ASSUME NEW N, Takes(p, N), \A c \in N : c.op = "unlock" => ~ Locked(c.entry.lock) PROVE TakesFree(p)
  BY <1>1 DEF TakesFree
<1>2. Takes(p, {}) => TakesFree(p)
  BY <1>1
<1>3. ASSUME NEW a, Takes(p, {a}), a.op # "unlock" PROVE TakesFree(p)
  <2>1. PICK N : N = {a}
    OBVIOUS
  <2>2. QED BY <1>1, <1>3, <2>1
<1>4. ASSUME NEW a, NEW b, Takes(p, {a, b}), a.op # "unlock", b.op = "unlock" => ~ Locked(b.entry.lock) PROVE TakesFree(p)
  <2>1. PICK N : N = {a, b}
    OBVIOUS
  <2>2. QED BY <1>1, <1>4, <2>1
<1>5. ASSUME NEW a, NEW b, NEW c, Takes(p, {a, b, c}), a.op # "unlock", b.op # "unlock", c.op # "unlock" PROVE TakesFree(p)
  <2>1. PICK N : N = {a, b, c}
    OBVIOUS
  <2>2. QED BY <1>1, <1>5, <2>1
<1>6. QED BY <1>1, <1>2, <1>3, <1>4, <1>5

LEMMA StepLocks ==
  ASSUME Sound, NEW p \in Threads, Step(p)
  PROVE  TakesFree(p)
<1>0. Queues
  BY DEF Sound
<1>1. CASE \/ _store_result_handle(p) \/ _store_cancel_pending(p) \/ _drop(p) \/ _release_lease(p)
           \/ _transition(p) \/ require_cleanup(p) \/ recover_lost_interaction(p) \/ retry_raised(p)
           \/ _release_reservation(p)
  BY <1>1, CallsNothing, FreeSets
<1>2. CASE _clear_if_terminal(p)
  BY <1>2, Views, FreeSets DEF New
<1>3. CASE _apply_result(p) \/ resolve_task(p) \/ operation(p)
  <2>1. PICK N : Takes(p, N) /\ \A c \in N : Plain(c)
    BY <1>3, Applies, Resolves, Operates
  <2>2. QED BY <2>1, FreeSets DEF Plain
<1>4. CASE hand_over(p)
  BY <1>4, HandsOver, FreeSets DEF New
<1>5. CASE _schedule_or_fail(p)
  BY <1>5, Schedules, FreeSets DEF New
<1>6. CASE wait(p)
  BY <1>0, <1>6, Waits, FreeSets DEF New
<1>7. CASE abandon(p)
  BY <1>7, Abandons, FreeSets DEF Is
<1>8. CASE _enter_cancel_pending(p)
  BY <1>8, EntersCancelPending, FreeSets DEF Plain
<1>9. CASE _best_effort_cancel(p)
  BY <1>0, <1>9, Cancels, FreeSets
<1>10. CASE cancel_operation(p)
  BY <1>0, <1>10, CancelsOperation, FreeSets
<1>11. CASE _act(p)
  <2>1. CASE Takes(p, {})
    BY <2>1, FreeSets
  <2>2. CASE \E a, b : /\ Takes(p, {a, b}) /\ New(b, "unlock", 0) /\ b.entry = Arg(p).entry
                       /\ New(a, "operation", TaskOf(p)) /\ ~ Locked(Arg(p).entry.lock)
    BY <2>2, FreeSets DEF New
  <2>3. QED BY <1>0, <1>11, <2>1, <2>2, Acts
<1>12. CASE cancel_interaction(p)
  <2>1. CASE Takes(p, {})
    BY <2>1, FreeSets
  <2>2. CASE \E a, b : /\ Takes(p, {a, b}) /\ New(b, "unlock", 0) /\ b.entry = Arg(p).entry
                       /\ New(a, "cancel_operation", TaskOf(p)) /\ ~ Locked(Arg(p).entry.lock)
    BY <2>2, FreeSets DEF New
  <2>3. QED BY <1>0, <1>12, <2>1, <2>2, CancelsInteraction
<1>13. CASE retry_cleanup_of(p)
  BY <1>0, <1>13, RetriesCleanup DEF TakesFree
<1>14. CASE _retry_locked(p)
  BY <1>0, <1>14, Retries, FreeSets
<1>15. CASE retry_answered(p)
  BY <1>15, RetriesAnswered, FreeSets
<1>16. CASE complete_cleanup_gate(p)
  BY <1>16, Completes, FreeSets
<1>17. CASE sweep(p)
  <2>1. PICK N : Takes(p, N) /\ \A c \in N : New(c, "sweep_expired", 0) \/ \E t \in Entries : New(c, "sweep_terminal", t)
    BY <1>17, Sweeps
  <2>2. \A c \in N : c.op # "unlock"
    BY <2>1 DEF New
  <2>3. QED BY <2>1, <2>2, FreeSets
<1>18. CASE sweep_expired(p)
  <2>1. PICK N : Takes(p, N) /\ \A c \in N : \E t \in Entries : Is(c, "expire", t, NoRow, NONE, A("failed"), interactions[t])
    BY <1>18, SweepsExpired
  <2>2. \A c \in N : c.op # "unlock"
    BY <2>1 DEF Is
  <2>3. QED BY <2>1, <2>2, FreeSets
<1>19. CASE sweep_terminal(p)
  BY <1>0, <1>19, SweepsTerminal, FreeSets
<1>20. CASE retry_stored(p)
  BY <1>0, <1>20, RetriesStored, FreeSets
<1>21. CASE expire(p)
  <2>1. CASE Takes(p, {})
    BY <2>1, FreeSets
  <2>2. CASE \E a, b : /\ Takes(p, {a, b}) /\ New(b, "unlock", 0) /\ b.entry = Arg(p).entry /\ a.op # "unlock"
                       /\ ~ Locked(Arg(p).entry.lock)
    BY <2>2, FreeSets DEF New
  <2>3. QED BY <1>0, <1>21, <2>1, <2>2, Expires
<1>22. CASE expired(p)
  BY <1>22, Expired, FreeSets DEF New
<1>23. CASE _reserve_capacity(p)
  BY <1>0, <1>23, Reserves, FreeSets DEF New
<1>24. CASE check(p)
  BY <1>0, <1>24, Checks, FreeSets DEF New
<1>25. CASE close_entry(p)
  BY <1>25, ClosesEntry, FreeSets
<1>26. CASE close_check(p)
  BY <1>26, ClosesCheck, FreeSets
<1>27. QED BY <1>1, <1>2, <1>3, <1>4, <1>5, <1>6, <1>7, <1>8, <1>9, <1>10, <1>11, <1>12, <1>13,
              <1>14, <1>15, <1>16, <1>17, <1>18, <1>19, <1>20, <1>21, <1>22, <1>23, <1>24, <1>25, <1>26 DEF Step

-----------------------------------------------------------------------------
(* Rows and identities. *)

\* A row that a status change replaces has not ended; what replaces it has a higher version.
LEMMA Rows ==
  ASSUME NEW row \in TaskRow, row.resume_gate = "none"
  PROVE  /\ \A to : CanTransition(row, to) =>
              /\ Transitioned(row, to) \in TaskRow /\ Transitioned(row, to).resume_gate = "none"
              /\ Transitioned(row, to).version = row.version + 1 /\ Transitioned(row, to).status = to
              /\ row.status \notin TERMINAL_STATUSES
         /\ row.status \notin TERMINAL_STATUSES =>
              /\ Lost(row) \in TaskRow /\ Lost(row).resume_gate = "none"
              /\ Lost(row).version = row.version + 1 /\ Lost(row).status = "recoverable_failed"
<1>1. ASSUME NEW to, CanTransition(row, to)
      PROVE  /\ Transitioned(row, to) \in TaskRow /\ Transitioned(row, to).resume_gate = "none"
             /\ Transitioned(row, to).version = row.version + 1 /\ Transitioned(row, to).status = to
             /\ row.status \notin TERMINAL_STATUSES
  <2>1. row.status \in TaskStatus /\ row.version \in Nat /\ row.resume_status \in OriginStatus \cup {NONE}
    BY DEF TaskRow
  <2>2. to \in ALLOWED_TRANSITIONS(row.status)
    BY <1>1 DEF CanTransition
  <2>3. to \in TaskStatus /\ row.status \notin TERMINAL_STATUSES
    BY <2>1, <2>2 DEF ALLOWED_TRANSITIONS, TaskStatus, OriginStatus, TERMINAL_STATUSES, RESUMABLE_STATUSES, ACTIVE_STATUSES
  <2>4. to \in RESUMABLE_STATUSES => row.status \in OriginStatus
    BY <2>1, <2>2, <2>3 DEF ALLOWED_TRANSITIONS, TaskStatus, OriginStatus, TERMINAL_STATUSES, RESUMABLE_STATUSES, ACTIVE_STATUSES
  <2>5. QED BY <2>1, <2>3, <2>4 DEF Transitioned, TaskRow, ResumeGate
<1>2. ASSUME row.status \notin TERMINAL_STATUSES
      PROVE  /\ Lost(row) \in TaskRow /\ Lost(row).resume_gate = "none"
             /\ Lost(row).version = row.version + 1 /\ Lost(row).status = "recoverable_failed"
  BY <1>2 DEF Lost, TaskRow, ResumeGate, TaskStatus, OriginStatus, TERMINAL_STATUSES, RESUMABLE_STATUSES, ACTIVE_STATUSES
<1>3. QED BY <1>1, <1>2

\* The row of a task that starts to wait.
LEMMA WaitingRow ==
  ASSUME NEW r \in TaskRow
  PROVE  LET row == [r EXCEPT !.status = "waiting_for_user", !.version = r.version + 1, !.resume_status = NONE] IN
         /\ row \in TaskRow /\ row.resume_gate = r.resume_gate /\ r.version < row.version
         /\ row.status = "waiting_for_user" /\ row.resume_status = NONE
<1>1. PICK n : n = r.version + 1
  OBVIOUS
<1>2. n \in Nat /\ r.version < n
  BY <1>1 DEF TaskRow
<1>3. PICK S, O : S = TaskStatus /\ O = OriginStatus \cup {NONE}
  OBVIOUS
<1>4. "waiting_for_user" \in S /\ NONE \in O
  BY <1>3 DEF TaskStatus
<1>5. r \in [status : S, version : Nat, resume_status : O, resume_gate : ResumeGate]
  BY <1>3 DEF TaskRow
<1>6. PICK row : row = [r EXCEPT !.status = "waiting_for_user", !.version = n, !.resume_status = NONE]
  OBVIOUS
<1>7. row \in [status : S, version : Nat, resume_status : O, resume_gate : ResumeGate]
  BY <1>2, <1>4, <1>5, <1>6
<1>8. row.resume_gate = r.resume_gate /\ row.version = n /\ row.status = "waiting_for_user" /\ row.resume_status = NONE
  BY <1>5, <1>6
<1>9. QED BY <1>1, <1>2, <1>3, <1>6, <1>7, <1>8 DEF TaskRow

LEMMA ImageFinite ==
  ASSUME NEW D, IsFiniteSet(D), NEW f, f = [x \in D |-> f[x]]
  PROVE  IsFiniteSet({f[x] : x \in D})
<1>1. f \in Surjection(D, {f[x] : x \in D})
  BY DEF Surjection
<1>2. QED BY <1>1, FS_Surjection

\* The entries somebody names are finitely many.
LEMMA KnownFinite ==
  ASSUME Queues
  PROVE  IsFiniteSet(Known)
<1>1. IsFiniteSet(Tasks) /\ IsFiniteSet(Threads)
  BY FiniteEntries, FS_AddElement DEF Threads
<1>2. IsFiniteSet({interactions[t] : t \in Tasks})
  <2>1. PICK f : f = [t \in Tasks |-> interactions[t]]
    OBVIOUS
  <2>2. IsFiniteSet({f[t] : t \in Tasks})
    BY <1>1, <2>1, ImageFinite
  <2>3. {f[t] : t \in Tasks} = {interactions[t] : t \in Tasks}
    BY <2>1
  <2>4. QED BY <2>2, <2>3
<1>3. ASSUME NEW p \in Threads PROVE IsFiniteSet({c.entry : c \in ToSet(todo[p])})
  <2>1. IsSeq(todo[p])
    BY DEF Queues, Queue, List
  <2>2. Len(todo[p]) \in Nat /\ DOMAIN todo[p] = 1..Len(todo[p])
    BY <2>1, Elements
  <2>3. PICK D : D = DOMAIN todo[p]
    OBVIOUS
  <2>4. IsFiniteSet(D)
    BY <2>2, <2>3, FS_Interval
  <2>5. PICK f : f = [i \in D |-> todo[p][i].entry]
    OBVIOUS
  <2>6. IsFiniteSet({f[i] : i \in D})
    BY <2>4, <2>5, ImageFinite
  <2>7. {f[i] : i \in D} = {c.entry : c \in ToSet(todo[p])}
    BY <2>3, <2>5 DEF ToSet
  <2>8. QED BY <2>6, <2>7
<1>4. PICK f : f = [p \in Threads |-> {c.entry : c \in ToSet(todo[p])}]
  OBVIOUS
<1>5. IsFiniteSet({f[p] : p \in Threads})
  <2>1. f = [p \in Threads |-> f[p]]
    BY <1>4
  <2>2. QED BY <1>1, <2>1, ImageFinite
<1>6. \A S \in {f[p] : p \in Threads} : IsFiniteSet(S)
  BY <1>3, <1>4
<1>7. IsFiniteSet(UNION {f[p] : p \in Threads})
  BY <1>5, <1>6, FS_UNION
<1>8. {f[p] : p \in Threads} = {{c.entry : c \in ToSet(todo[p])} : p \in Threads}
  BY <1>4
<1>9. QED BY <1>2, <1>7, <1>8, FS_Union DEF Known

LEMMA UnusedIsNew ==
  ASSUME NEW S, IsFiniteSet(S)
  PROVE  Unused(S) \in Nat \ {0} /\ Unused(S) \notin S
<1>1. Cardinality(S) \in Nat
  BY FS_CardinalityType
<1>2. PICK n \in 1..(Cardinality(S) + 1) : n \notin S
  <2>1. SUFFICES ASSUME 1..(Cardinality(S) + 1) \subseteq S PROVE FALSE
    OBVIOUS
  <2>2. Cardinality(1..(Cardinality(S) + 1)) = Cardinality(S) + 1
    BY <1>1, FS_Interval
  <2>3. Cardinality(1..(Cardinality(S) + 1)) <= Cardinality(S)
    BY <2>1, FS_Subset
  <2>4. QED BY <1>1, <2>2, <2>3
<1>3. Unused(S) \in 1..(Cardinality(S) + 1) /\ Unused(S) \notin S
  BY <1>2 DEF Unused
<1>4. QED BY <1>1, <1>3

\* An entry's identity is its own, and a new lock is nobody's.
LEMMA NewIdentity ==
  ASSUME Queues
  PROVE  /\ Unused({e.id : e \in Known}) \in Nat \ {0}
         /\ \A e \in Known : e.id # Unused({k.id : k \in Known})
         /\ Unused({e.lock : e \in Known}) \in Nat \ {0}
         /\ \A e \in Known : e.lock # Unused({k.lock : k \in Known})
<1>1. IsFiniteSet(Known)
  BY KnownFinite
<1>2. IsFiniteSet({e.id : e \in Known})
  <2>1. PICK f : f = [e \in Known |-> e.id]
    OBVIOUS
  <2>2. IsFiniteSet({f[e] : e \in Known})
    BY <1>1, <2>1, ImageFinite
  <2>3. {f[e] : e \in Known} = {e.id : e \in Known}
    BY <2>1
  <2>4. QED BY <2>2, <2>3
<1>3. IsFiniteSet({e.lock : e \in Known})
  <2>1. PICK f : f = [e \in Known |-> e.lock]
    OBVIOUS
  <2>2. IsFiniteSet({f[e] : e \in Known})
    BY <1>1, <2>1, ImageFinite
  <2>3. {f[e] : e \in Known} = {e.lock : e \in Known}
    BY <2>1
  <2>4. QED BY <2>2, <2>3
<1>4. PICK S, T : S = {e.id : e \in Known} /\ T = {e.lock : e \in Known}
  OBVIOUS
<1>5. Unused(S) \in Nat \ {0} /\ Unused(S) \notin S /\ Unused(T) \in Nat \ {0} /\ Unused(T) \notin T
  BY <1>2, <1>3, <1>4, UnusedIsNew
<1>6. (\A e \in Known : e.id \in S) /\ \A e \in Known : e.lock \in T
  BY <1>4
<1>7. QED BY <1>4, <1>5, <1>6

-----------------------------------------------------------------------------
(* The static service's calls. *)

Ok(p, c) == CallOk(c) /\ PlaceOk(p, c)

\* A row is replaced by a newer one, and an ended task's is not replaced.
RowsGrow ==
  \A t \in Tasks : \/ tasks'[t] = tasks[t]
                   \/ tasks[t].version < tasks'[t].version /\ tasks[t].status \notin TERMINAL_STATUSES

LEMMA OkKept ==
  ASSUME RowsOk, RowsOk', RowsGrow, NEW p, NEW c, Ok(p, c)
  PROVE  Ok(p, c)'
<1>1. c.task \in Tasks => tasks[c.task] \in TaskRow /\ tasks'[c.task] \in TaskRow
  BY DEF RowsOk
<1>2. c.op \in RowOps \/ c.op = "cancel_handle" => c.task \in Tasks
  BY DEF Ok, CallOk, RowOps
<1>3. c.op \in RowOps => ReadRow(c.row, c.task)'
  BY <1>1, <1>2 DEF Ok, CallOk, ReadRow, RowsGrow, TaskRow
<1>4. CallOk(c)'
  BY <1>3 DEF Ok, CallOk
<1>5. PlaceOk(p, c)'
  BY <1>2 DEF Ok, PlaceOk, RowsGrow
<1>6. QED BY <1>4, <1>5 DEF Ok

\* The thread's new calls are as they should be.
OkNext(p) == \E N : Takes(p, N) /\ \A c \in N : Ok(p, c)'

LEMMA OkSets ==
  ASSUME NEW p
  PROVE  /\ Takes(p, {}) => OkNext(p)
         /\ \A a : Takes(p, {a}) /\ Ok(p, a)' => OkNext(p)
         /\ \A a, b : Takes(p, {a, b}) /\ Ok(p, a)' /\ Ok(p, b)' => OkNext(p)
         /\ \A a, b, c : Takes(p, {a, b, c}) /\ Ok(p, a)' /\ Ok(p, b)' /\ Ok(p, c)' => OkNext(p)
<1>1. ASSUME NEW N, Takes(p, N), \A c \in N : Ok(p, c)' PROVE OkNext(p)
  BY <1>1 DEF OkNext
<1>2. Takes(p, {}) => OkNext(p)
  BY <1>1
<1>3. ASSUME NEW a, Takes(p, {a}), Ok(p, a)' PROVE OkNext(p)
  <2>1. PICK N : N = {a}
    OBVIOUS
  <2>2. QED BY <1>1, <1>3, <2>1
<1>4. ASSUME NEW a, NEW b, Takes(p, {a, b}), Ok(p, a)', Ok(p, b)' PROVE OkNext(p)
  <2>1. PICK N : N = {a, b}
    OBVIOUS
  <2>2. QED BY <1>1, <1>4, <2>1
<1>5. ASSUME NEW a, NEW b, NEW c, Takes(p, {a, b, c}), Ok(p, a)', Ok(p, b)', Ok(p, c)' PROVE OkNext(p)
  <2>1. PICK N : N = {a, b, c}
    OBVIOUS
  <2>2. QED BY <1>1, <1>5, <2>1
<1>6. QED BY <1>1, <1>2, <1>3, <1>4, <1>5

LEMMA StaticKept ==
  ASSUME StaticOk, wiring' = wiring, NEW p \in Threads, NEW N, Moves(p, N),
         wiring = Static => DataOk' /\ RowsGrow /\ \A c \in N : Ok(p, c)'
  PROVE  StaticOk'
<1>1. SUFFICES ASSUME wiring = Static PROVE DataOk' /\ \A q \in Threads : \A c \in Calls(q)' : Ok(q, c)'
  BY DEF StaticOk, Ok
<1>2. RowsOk /\ RowsOk' /\ RowsGrow /\ \A q \in Threads : \A c \in Calls(q) : Ok(q, c)
  BY <1>1 DEF StaticOk, Ok, DataOk
<1>3. ASSUME NEW q \in Threads, NEW c \in Calls(q)' PROVE Ok(q, c)'
  <2>1. CASE c \in Calls(q)
    BY <1>2, <2>1, OkKept
  <2>2. CASE q = p /\ c \in N
    BY <1>1, <2>2
  <2>3. QED BY <1>3, <2>1, <2>2 DEF Moves
<1>4. QED BY <1>1, <1>3

\* Calls any thread may make about any task.
LEMMA EasyCalls ==
  ASSUME NEW p \in Threads, NEW c, c.task \in Tasks, c.op \in {"drop", "release"}
  PROVE  Ok(p, c)
BY DEF Ok, CallOk, PlaceOk, StaticOps, InnerOps, OuterOps, BrowserOps, ClientOps, SweepOps, ProbeOps, RowOps, EntryOps

LEMMA ThreadKinds ==
  /\ Client \notin Tasks /\ Client \in Threads /\ Tasks \subseteq Threads
  /\ \A p \in Threads : p \in Tasks \/ p = Client
BY ServiceAssumption DEF Threads, Client

\* What is known of a step's thread and call.
LEMMA Known1 ==
  ASSUME Sound, NEW p \in Threads, ~ Idle(p), wiring = Static
  PROVE  /\ Queues /\ Arg(p) \in Calls(p) /\ IsCall(Arg(p)) /\ Ok(p, Arg(p)) /\ DataOk /\ RowsOk
         /\ Arg(p).op \notin {"unlock", "sweep_expired"} => TaskOf(p) \in Tasks
BY Kept, FirstCall DEF Sound, Ok, DataOk, CallOk, TaskOf, Arg

StaticNext(p) == DataOk' /\ RowsGrow /\ OkNext(p)

\* Steps that leave the rows and the data alone, or only the leases, or the entries.
LEMMA DataKept ==
  ASSUME DataOk
  PROVE  /\ UNCHANGED tasks => RowsOk' /\ RowsGrow
         /\ UNCHANGED interactions => EntriesOk'
         /\ UNCHANGED <<leases, owner>> => LeasesOk'
         /\ UNCHANGED sessions => SessionsOk(sessions)'
         /\ UNCHANGED closed => closed' \in {"no", "complete"}
         /\ UNCHANGED <<data, owner, closed>> => DataOk' /\ RowsGrow
BY DEF DataOk, RowsOk, RowsGrow, EntriesOk, LeasesOk, SessionsOk, data

LEMMA PutRow ==
  ASSUME DataOk, NEW t \in Tasks, NEW row \in TaskRow, row.resume_gate = "none",
         tasks[t].version < row.version, tasks[t].status \notin TERMINAL_STATUSES, Put(t, row)
  PROVE  RowsOk' /\ RowsGrow /\ tasks'[t] = row
BY DEF DataOk, RowsOk, RowsGrow, Put

LEMMA PutLease ==
  ASSUME DataOk, NEW t \in Tasks, NEW live \in BOOLEAN, owner' = owner,
         \/ SetLease(t, NoLease)
         \/ SetLease(t, [owner |-> owner, live |-> live])
  PROVE  LeasesOk'
<1>1. PICK x : x = [owner |-> owner, live |-> live]
  OBVIOUS
<1>2. x \in [owner : Nat, live : BOOLEAN] /\ x.owner = owner
  BY <1>1 DEF DataOk, LeasesOk
<1>3. NoLease \in [owner : Nat, live : BOOLEAN] /\ NoLease.owner <= owner
  BY DEF DataOk, LeasesOk, NoLease
<1>4. CASE SetLease(t, NoLease)
  <2>1. PICK y : y = NoLease
    OBVIOUS
  <2>2. leases' = [leases EXCEPT ![t] = y]
    BY <1>4, <2>1 DEF SetLease
  <2>3. QED BY <1>3, <2>1, <2>2 DEF DataOk, LeasesOk
<1>5. CASE leases' = [leases EXCEPT ![t] = x]
  BY <1>2, <1>5 DEF DataOk, LeasesOk
<1>6. QED BY <1>1, <1>4, <1>5 DEF SetLease

LEMMA FreshRow ==
  ASSUME DataOk, NEW c, c.task \in Tasks, ReadRow(c.row, c.task), Fresh(c)
  PROVE  c.row = tasks[c.task] /\ c.row \in TaskRow /\ c.row.resume_gate = "none"
BY DEF ReadRow, Fresh, DataOk, RowsOk

LEMMA StaticStore ==
  ASSUME Sound, NEW p \in Threads, _store_result_handle(p), wiring = Static
  PROVE  StaticNext(p)
<1>1. ~ Idle(p) /\ Arg(p).op = "store"
  BY DEF _store_result_handle, Doing, Arg
<1>2. Queues /\ Ok(p, Arg(p)) /\ DataOk /\ TaskOf(p) \in Tasks
  BY <1>1, Known1
<1>3. Arg(p).answer.kind = "confirmation"
  BY <1>1, <1>2 DEF Ok, CallOk
<1>4. PICK i, l : /\ i = Unused({e.id : e \in Known})
                  /\ l = IF interactions[TaskOf(p)] # NoInteraction THEN interactions[TaskOf(p)].lock ELSE Unused({e.lock : e \in Known})
  OBVIOUS
<1>5. PICK v : v = [NoInteraction EXCEPT !.id = i, !.lock = l, !.kind = Arg(p).answer.kind, !.handle = Arg(p).answer.handle]
  OBVIOUS
<1>6. interactions' = [interactions EXCEPT ![TaskOf(p)] = v]
  BY <1>4, <1>5 DEF _store_result_handle
<1>7. i \in Nat \ {0}
  BY <1>2, <1>4, NewIdentity
<1>8. IsEntry(v) /\ v.kind = "confirmation" /\ v.id # 0
  BY <1>3, <1>5, <1>7 DEF NoInteraction, IsEntry
<1>9. EntriesOk'
  BY <1>2, <1>6, <1>8 DEF DataOk, EntriesOk, EntryOk
<1>10. UNCHANGED <<tasks, leases, sessions, owner, closed>>
  BY DEF _store_result_handle, env
<1>11. DataOk' /\ RowsGrow
  BY <1>2, <1>9, <1>10, DataKept DEF DataOk
<1>12. OkNext(p)
  BY CallsNothing, OkSets
<1>13. QED BY <1>11, <1>12 DEF StaticNext

LEMMA StaticSmall ==
  ASSUME Sound, NEW p \in Threads, wiring = Static,
         _drop(p) \/ _release_lease(p) \/ _release_reservation(p)
  PROVE  StaticNext(p)
<1>1. ~ Idle(p) /\ Arg(p).op \in {"drop", "release", "unreserve"}
  BY DEF _drop, _release_lease, _release_reservation, Doing, Arg
<1>2. DataOk /\ TaskOf(p) \in Tasks
  BY <1>1, Known1
<1>3. UNCHANGED <<tasks, sessions, owner, closed>>
  BY DEF _drop, _release_lease, _release_reservation, env
<1>4. EntriesOk'
  <2>1. CASE _drop(p)
    <3>1. interactions' = [interactions EXCEPT ![TaskOf(p)] = NoInteraction]
      BY <2>1 DEF _drop
    <3>2. QED BY <1>2, <3>1 DEF DataOk, EntriesOk, EntryOk
  <2>2. CASE interactions' = interactions
    BY <1>2, <2>2, DataKept
  <2>3. QED BY <2>1, <2>2 DEF _release_lease, _release_reservation
<1>5. LeasesOk'
  <2>1. CASE SetLease(TaskOf(p), NoLease)
    BY <1>2, <1>3, <2>1, PutLease
  <2>2. CASE leases' = leases
    BY <1>2, <1>3, <2>2, DataKept
  <2>3. QED BY <2>1, <2>2 DEF _drop, _release_lease, _release_reservation
<1>6. DataOk' /\ RowsGrow
  BY <1>2, <1>3, <1>4, <1>5, DataKept DEF DataOk
<1>7. OkNext(p)
  BY CallsNothing, OkSets
<1>8. QED BY <1>6, <1>7 DEF StaticNext

LEMMA StaticRow ==
  ASSUME Sound, NEW p \in Threads, wiring = Static,
         _transition(p) \/ recover_lost_interaction(p)
  PROVE  StaticNext(p)
<1>1. ~ Idle(p) /\ Arg(p).op \in {"transition", "lost"}
  BY DEF _transition, recover_lost_interaction, Doing, Arg
<1>2. DataOk /\ TaskOf(p) \in Tasks /\ Ok(p, Arg(p))
  BY <1>1, Known1
<1>3. PICK c, t : c = Arg(p) /\ t = c.task
  OBVIOUS
<1>4. t \in Tasks /\ ReadRow(c.row, t)
  BY <1>1, <1>2, <1>3 DEF Ok, CallOk, RowOps, TaskOf, Arg
<1>5. UNCHANGED <<interactions, sessions, owner, closed>>
  BY DEF _transition, recover_lost_interaction, env
<1>6. RowsOk' /\ RowsGrow
  <2>1. CASE tasks' = tasks
    BY <1>2, <2>1, DataKept
  <2>2. CASE Fresh(c) /\ CanTransition(c.row, c.to) /\ Put(t, Transitioned(c.row, c.to))
    <3>1. c.row = tasks[t] /\ c.row \in TaskRow /\ c.row.resume_gate = "none"
      BY <1>2, <1>3, <1>4, <2>2, FreshRow
    <3>2. PICK row : row = Transitioned(c.row, c.to)
      OBVIOUS
    <3>3. row \in TaskRow /\ row.resume_gate = "none" /\ row.version = c.row.version + 1 /\ c.row.status \notin TERMINAL_STATUSES
      BY <2>2, <3>1, <3>2, Rows
    <3>4. c.row.version < row.version
      BY <3>1, <3>3 DEF TaskRow
    <3>5. Put(t, row)
      BY <2>2, <3>2
    <3>6. QED BY <1>2, <1>4, <3>1, <3>3, <3>4, <3>5, PutRow
  <2>3. CASE Fresh(c) /\ c.row.status = "waiting_for_user" /\ Put(t, Lost(c.row))
    <3>1. c.row = tasks[t] /\ c.row \in TaskRow /\ c.row.resume_gate = "none"
      BY <1>2, <1>3, <1>4, <2>3, FreshRow
    <3>2. PICK row : row = Lost(c.row)
      OBVIOUS
    <3>3. c.row.status \notin TERMINAL_STATUSES
      BY <2>3 DEF TERMINAL_STATUSES
    <3>4. row \in TaskRow /\ row.resume_gate = "none" /\ row.version = c.row.version + 1
      BY <3>1, <3>2, <3>3, Rows
    <3>5. c.row.version < row.version
      BY <3>1, <3>4 DEF TaskRow
    <3>6. Put(t, row)
      BY <2>3, <3>2
    <3>7. QED BY <1>2, <1>4, <3>1, <3>3, <3>4, <3>5, <3>6, PutRow
  <2>4. QED BY <1>3, <2>1, <2>2, <2>3 DEF _transition, recover_lost_interaction
<1>7. LeasesOk'
  <2>1. CASE SetLease(t, NoLease)
    BY <1>2, <1>4, <1>5, <2>1, PutLease
  <2>2. CASE leases' = leases
    BY <1>2, <1>5, <2>2, DataKept
  <2>3. QED BY <1>3, <2>1, <2>2 DEF _transition, recover_lost_interaction
<1>8. DataOk' /\ RowsGrow
  BY <1>2, <1>5, <1>6, <1>7, DataKept DEF DataOk
<1>9. OkNext(p)
  BY CallsNothing, OkSets
<1>10. QED BY <1>8, <1>9 DEF StaticNext

LEMMA ApplyOk ==
  ASSUME NEW p \in Threads, NEW t \in Tasks, p \in Tasks => p = t, NEW row, ReadRow(row, t), NEW a,
         \/ a.kind = "cancelled"
         \/ /\ a.kind \in {"found", "rejected", "failed", "confirmation"}
            /\ row.status \in {"probing", "waiting_for_user"}
  PROVE  \A c \in ToSet(Apply(t, row, a)) : Ok(p, c)
<1>1. PICK N : N = ToSet(Apply(t, row, a))
  OBVIOUS
<1>2. p \in Tasks \/ p = Client
  BY ThreadKinds
<1>3. ASSUME NEW c, c.task = t, \/ c.op \in {"drop", "release"} PROVE Ok(p, c)
  BY <1>3, EasyCalls
<1>4. ASSUME NEW c, c.task = t, c.op \in {"hand_over", "wait"}, c.row = row, row.status \in {"probing", "waiting_for_user"},
             c.op = "wait" => c.answer.kind = "confirmation"
      PROVE  Ok(p, c)
  BY <1>2, <1>4 DEF Ok, CallOk, PlaceOk, StaticOps, InnerOps, OuterOps, BrowserOps, ClientOps, SweepOps, ProbeOps, RowOps, EntryOps
<1>5. ASSUME NEW c, c.task = t, c.op = "transition", c.row = row, c.to \in Exits \cup {"recoverable_failed"},
             c.to = "recoverable_failed" => row.status \in ACTIVE_STATUSES
      PROVE  Ok(p, c)
  BY <1>2, <1>5 DEF Ok, CallOk, PlaceOk, StaticOps, InnerOps, OuterOps, BrowserOps, ClientOps, SweepOps, ProbeOps, RowOps, EntryOps
<1>6. ASSUME NEW c, c.task = t, c.op = "lost", c.row = row, row.status = "waiting_for_user"
      PROVE  Ok(p, c)
  BY <1>2, <1>6 DEF Ok, CallOk, PlaceOk, StaticOps, InnerOps, OuterOps, BrowserOps, ClientOps, SweepOps, ProbeOps, RowOps, EntryOps
<1>7. CASE \E c : N = {c} /\ a.kind = "found" /\ Is(c, "hand_over", t, row, NONE, A("failed"), NoInteraction)
  BY <1>1, <1>4, <1>7 DEF Is
<1>8. CASE \E c : N = {c} /\ a.kind = "confirmation" /\ Is(c, "wait", t, row, NONE, a, NoInteraction)
  BY <1>1, <1>4, <1>8 DEF Is
<1>9. CASE \E c, d, e : /\ N = {c, d, e} /\ a.kind \in {"rejected", "cancelled"}
                        /\ Is(c, "transition", t, row, IF a.kind = "rejected" THEN "terminal_failed" ELSE "cancelled",
                              A("failed"), NoInteraction)
                        /\ Is(d, "release", t, NoRow, NONE, A("failed"), NoInteraction)
                        /\ Is(e, "drop", t, NoRow, NONE, A("failed"), NoInteraction)
  <2>1. PICK c, d, e : /\ N = {c, d, e}
                       /\ c.op = "transition" /\ c.task = t /\ c.row = row /\ c.to \in {"terminal_failed", "cancelled"}
                       /\ d.op = "release" /\ d.task = t /\ e.op = "drop" /\ e.task = t
    BY <1>9 DEF Is
  <2>2. Ok(p, c)
    BY <1>5, <2>1 DEF Exits
  <2>3. Ok(p, d) /\ Ok(p, e)
    BY <1>3, <2>1
  <2>4. QED BY <1>1, <2>1, <2>2, <2>3
<1>10. CASE \E c, d, e : /\ N = {c, d, e} /\ a.kind = "failed" /\ row.status = "waiting_for_user"
                         /\ Is(c, "drop", t, NoRow, NONE, A("failed"), NoInteraction)
                         /\ Is(d, "release", t, NoRow, NONE, A("failed"), NoInteraction)
                         /\ Is(e, "lost", t, row, NONE, A("failed"), NoInteraction)
  <2>1. PICK c, d, e : /\ N = {c, d, e} /\ row.status = "waiting_for_user"
                       /\ c.op = "drop" /\ c.task = t /\ d.op = "release" /\ d.task = t
                       /\ e.op = "lost" /\ e.task = t /\ e.row = row
    BY <1>10 DEF Is
  <2>2. Ok(p, c) /\ Ok(p, d)
    BY <1>3, <2>1
  <2>3. Ok(p, e)
    BY <1>6, <2>1
  <2>4. QED BY <1>1, <2>1, <2>2, <2>3
<1>11. CASE \E c : /\ N = {c} /\ a.kind = "failed" /\ row.status # "waiting_for_user"
                   /\ Is(c, "transition", t, row, "recoverable_failed", A("failed"), NoInteraction)
  <2>1. PICK c : /\ N = {c} /\ row.status = "probing"
                 /\ c.op = "transition" /\ c.task = t /\ c.row = row /\ c.to = "recoverable_failed"
    BY <1>11 DEF Is
  <2>2. Ok(p, c)
    BY <1>5, <2>1 DEF ACTIVE_STATUSES
  <2>3. QED BY <1>1, <2>1, <2>2
<1>12. QED BY <1>1, <1>7, <1>8, <1>9, <1>10, <1>11, ApplySets

LEMMA StaticApply ==
  ASSUME Sound, NEW p \in Threads, wiring = Static,
         _apply_result(p) \/ resolve_task(p) \/ operation(p)
  PROVE  StaticNext(p)
<1>1. ~ Idle(p) /\ Arg(p).op \in {"apply", "resolve", "operation"}
  BY DEF _apply_result, resolve_task, operation, Doing, Arg
<1>2. DataOk /\ TaskOf(p) \in Tasks /\ Ok(p, Arg(p)) /\ SessionsOk(sessions)
  BY <1>1, Known1 DEF DataOk
<1>3. UNCHANGED <<tasks, leases, interactions, owner, closed>>
  BY DEF _apply_result, resolve_task, operation, Decides, Asks, data, env
<1>4. p \in Tasks => p = TaskOf(p)
  BY <1>1, <1>2 DEF Ok, PlaceOk, SweepOps, ClientOps, TaskOf, Arg
<1>5. \E N : /\ Takes(p, N) /\ (\A c \in N : Ok(p, c)) /\ SessionsOk(sessions')
  <2>1. CASE _apply_result(p)
    <3>1. PICK N : Takes(p, N) /\ N = ToSet(Apply(TaskOf(p), tasks[TaskOf(p)], Arg(p).answer))
      BY <2>1, Applies
    <3>2. Arg(p).op = "apply" /\ sessions' = sessions
      BY <2>1 DEF _apply_result, Doing, Arg, Decides, data
    <3>3. Arg(p).answer.kind = "cancelled"
      BY <1>2, <3>2 DEF Ok, CallOk
    <3>4. ReadRow(tasks[TaskOf(p)], TaskOf(p))
      BY <1>2 DEF DataOk, RowsOk, ReadRow, TaskRow
    <3>5. \A c \in N : Ok(p, c)
      BY <1>2, <1>4, <3>1, <3>3, <3>4, ApplyOk
    <3>6. QED BY <1>2, <3>1, <3>2, <3>5
  <2>2. CASE resolve_task(p)
    <3>1. PICK o \in OrRaise(resolve(sessions, TaskOf(p))) :
            \E N : /\ sessions' = o.sessions /\ Takes(p, N) /\ N = ToSet(Apply(TaskOf(p), Arg(p).row, o.answer))
      BY <2>2, Resolves
    <3>2. PICK N : /\ sessions' = o.sessions /\ Takes(p, N) /\ N = ToSet(Apply(TaskOf(p), Arg(p).row, o.answer))
      BY <3>1
    <3>3. Arg(p).op = "resolve"
      BY <2>2 DEF resolve_task, Doing, Arg
    <3>4. ReadRow(Arg(p).row, TaskOf(p)) /\ Arg(p).row.status = "probing"
      BY <1>2, <3>3 DEF Ok, CallOk, RowOps, TaskOf, Arg
    <3>5. o \in resolve(sessions, TaskOf(p))
      BY <3>1 DEF OrRaise
    <3>6. SessionsOk(o.sessions) /\ o.answer.kind \in {"found", "rejected", "failed", "confirmation"}
      BY <1>2, <3>5, StaticAnswers
    <3>7. \A c \in N : Ok(p, c)
      BY <1>2, <1>4, <3>2, <3>4, <3>6, ApplyOk
    <3>8. QED BY <3>2, <3>6, <3>7
  <2>3. CASE operation(p)
    <3>1. Arg(p).op = "operation"
      BY <2>3 DEF operation, Doing, Arg
    <3>2. ReadRow(Arg(p).row, TaskOf(p)) /\ Arg(p).row.status = "waiting_for_user" /\ Arg(p).entry.kind = "confirmation"
      BY <1>2, <3>1 DEF Ok, CallOk, RowOps, EntryOps, TaskOf, Arg
    <3>3. PICK o \in confirm_config(sessions, Arg(p).entry.handle) :
            \E N : /\ sessions' = o.sessions /\ Takes(p, N) /\ N = ToSet(Apply(TaskOf(p), Arg(p).row, o.answer))
      BY <2>3, <3>2, Operates DEF OrRaise
    <3>4. PICK N : /\ sessions' = o.sessions /\ Takes(p, N) /\ N = ToSet(Apply(TaskOf(p), Arg(p).row, o.answer))
      BY <3>3
    <3>5. SessionsOk(o.sessions) /\ o.answer.kind \in {"found", "rejected", "failed", "confirmation"}
      BY <1>2, <3>3, StaticAnswers
    <3>6. \A c \in N : Ok(p, c)
      BY <1>2, <1>4, <3>2, <3>4, <3>5, ApplyOk
    <3>7. QED BY <3>4, <3>5, <3>6
  <2>4. QED BY <2>1, <2>2, <2>3
<1>6. DataOk' /\ RowsGrow
  BY <1>2, <1>3, <1>5, DataKept DEF DataOk
<1>7. OkNext(p)
  <2>1. PICK N : Takes(p, N) /\ \A c \in N : Ok(p, c)
    BY <1>5
  <2>2. RowsOk /\ RowsOk' /\ RowsGrow
    BY <1>2, <1>6 DEF DataOk
  <2>3. \A c \in N : Ok(p, c)'
    BY <2>1, <2>2, OkKept
  <2>4. QED BY <2>1, <2>3 DEF OkNext
<1>8. QED BY <1>6, <1>7 DEF StaticNext

\* What is to be shown of a step that leaves the rows alone.
LEMMA QuietNext ==
  ASSUME DataOk, DataOk', UNCHANGED tasks, NEW p
  PROVE  /\ RowsGrow
         /\ \A c : Ok(p, c) => Ok(p, c)'
BY OkKept, DataKept DEF DataOk

LEMMA StaticView ==
  ASSUME Sound, NEW p \in Threads, wiring = Static,
         _clear_if_terminal(p) \/ _schedule_or_fail(p) \/ abandon(p)
  PROVE  StaticNext(p)
<1>1. ~ Idle(p) /\ Arg(p).op \in {"view", "schedule", "abandon"}
  BY DEF _clear_if_terminal, _schedule_or_fail, abandon, Doing, Arg
<1>2. DataOk /\ TaskOf(p) \in Tasks /\ Ok(p, Arg(p))
  BY <1>1, Known1
<1>3. UNCHANGED <<data, owner, closed>>
  BY DEF _clear_if_terminal, _schedule_or_fail, abandon, Decides, data, env
<1>4. DataOk' /\ RowsGrow
  BY <1>2, <1>3, DataKept
<1>5. \A c : Ok(p, c) => Ok(p, c)'
  BY <1>2, <1>3, <1>4, QuietNext DEF data
<1>6. p \in Tasks \/ p = Client
  BY ThreadKinds
<1>7. CASE _clear_if_terminal(p)
  <2>1. CASE \E a : Takes(p, {a}) /\ New(a, "drop", TaskOf(p))
    <3>1. PICK a : Takes(p, {a}) /\ New(a, "drop", TaskOf(p))
      BY <2>1
    <3>2. Ok(p, a)'
      BY <1>2, <1>5, <3>1, EasyCalls DEF New
    <3>3. QED BY <1>4, <3>1, <3>2, OkSets DEF StaticNext
  <2>2. QED BY <1>4, <1>7, <2>1, Views, OkSets DEF StaticNext
<1>8. CASE _schedule_or_fail(p)
  <2>1. CASE \E a : /\ Takes(p, {a}) /\ New(a, "transition", TaskOf(p))
                    /\ a.row = Arg(p).row /\ a.to = "recoverable_failed" /\ Arg(p).row.status \in ACTIVE_STATUSES
    <3>1. PICK a : /\ Takes(p, {a}) /\ New(a, "transition", TaskOf(p))
                   /\ a.row = Arg(p).row /\ a.to = "recoverable_failed" /\ Arg(p).row.status \in ACTIVE_STATUSES
      BY <2>1
    <3>2. Arg(p).op = "schedule"
      BY <1>8 DEF _schedule_or_fail, Doing, Arg
    <3>3. ReadRow(Arg(p).row, TaskOf(p)) /\ (p \in Tasks => TaskOf(p) = p)
      BY <1>2, <3>2 DEF Ok, CallOk, PlaceOk, RowOps, SweepOps, TaskOf, Arg
    <3>4. Ok(p, a)
      BY <1>2, <1>6, <3>1, <3>3 DEF New, Ok, CallOk, PlaceOk, StaticOps, InnerOps, OuterOps, BrowserOps, ClientOps, SweepOps, ProbeOps, RowOps, EntryOps
    <3>5. QED BY <1>4, <1>5, <3>1, <3>4, OkSets DEF StaticNext
  <2>2. QED BY <1>4, <1>8, <2>1, Schedules, OkSets DEF StaticNext
<1>9. CASE abandon(p)
  <2>1. CASE \E a : /\ Takes(p, {a}) /\ TaskOf(p) \in Entries
                    /\ Is(a, "cancel_handle", TaskOf(p), NoRow, "abandon", A("failed"), interactions[TaskOf(p)])
    <3>1. PICK a : /\ Takes(p, {a}) /\ TaskOf(p) \in Entries
                   /\ a.op = "cancel_handle" /\ a.task = TaskOf(p) /\ a.to = "abandon" /\ a.entry = interactions[TaskOf(p)]
      BY <2>1 DEF Is
    <3>2. Arg(p).op = "abandon"
      BY <1>9 DEF abandon, Doing, Arg
    <3>3. p \in Tasks => TaskOf(p) = p
      BY <1>2, <3>2 DEF Ok, PlaceOk, SweepOps, TaskOf, Arg
    <3>4. interactions[TaskOf(p)].kind = "confirmation" /\ interactions[TaskOf(p)].id # 0
      BY <1>2, <3>1 DEF DataOk, EntriesOk, EntryOk, Entries
    <3>5. Ok(p, a)
      BY <1>2, <1>6, <3>1, <3>3, <3>4 DEF Ok, CallOk, PlaceOk, StaticOps, InnerOps, OuterOps, BrowserOps, ClientOps, SweepOps, ProbeOps, RowOps, EntryOps
    <3>6. QED BY <1>4, <1>5, <3>1, <3>5, OkSets DEF StaticNext
  <2>2. QED BY <1>4, <1>9, <2>1, Abandons, OkSets DEF StaticNext
<1>10. QED BY <1>7, <1>8, <1>9

LEMMA StaticHandOver ==
  ASSUME Sound, NEW p \in Threads, wiring = Static, hand_over(p)
  PROVE  StaticNext(p)
<1>1. ~ Idle(p) /\ Arg(p).op = "hand_over"
  BY DEF hand_over, Doing, Arg
<1>2. DataOk /\ TaskOf(p) \in Tasks /\ Ok(p, Arg(p))
  BY <1>1, Known1
<1>3. PICK c, t : c = Arg(p) /\ t = c.task
  OBVIOUS
<1>4. t \in Tasks /\ ReadRow(c.row, t) /\ (p \in Tasks => t = p) /\ c.row.status \in {"probing", "waiting_for_user"}
  BY <1>1, <1>2, <1>3 DEF Ok, CallOk, PlaceOk, RowOps, SweepOps, TaskOf, Arg
<1>5. UNCHANGED <<leases, interactions, sessions, owner, closed>>
  BY DEF hand_over, env
<1>60. PICK h : h = HandedOver(c)
  OBVIOUS
<1>6. RowsOk' /\ RowsGrow /\ ReadRow(h, t)'
  <2>1. CASE Fresh(c) /\ CanTransition(c.row, "validating")
    <3>1. c.row = tasks[t] /\ c.row \in TaskRow /\ c.row.resume_gate = "none"
      BY <1>2, <1>3, <1>4, <2>1, FreshRow
    <3>2. PICK row : row = Transitioned(c.row, "validating")
      OBVIOUS
    <3>3. row \in TaskRow /\ row.resume_gate = "none" /\ row.version = c.row.version + 1 /\ c.row.status \notin TERMINAL_STATUSES
      BY <2>1, <3>1, <3>2, Rows
    <3>4. c.row.version < row.version
      BY <3>1, <3>3 DEF TaskRow
    <3>5. Put(t, row) /\ h = row
      BY <1>3, <1>4, <1>60, <2>1, <3>2 DEF hand_over, HandedOver, TaskOf, Arg
    <3>6. RowsOk' /\ RowsGrow /\ tasks'[t] = row
      BY <1>2, <1>4, <3>1, <3>3, <3>4, <3>5, PutRow
    <3>7. ReadRow(row, t)'
      BY <3>3, <3>6 DEF ReadRow, TaskRow
    <3>8. QED BY <3>5, <3>6, <3>7
  <2>2. CASE ~ (Fresh(c) /\ CanTransition(c.row, "validating"))
    <3>1. UNCHANGED tasks
      BY <1>3, <2>2 DEF hand_over, TaskOf, Arg
    <3>2. h = tasks[t]
      BY <1>3, <1>4, <1>60, <2>2 DEF HandedOver
    <3>3. ReadRow(h, t)
      BY <1>2, <1>4, <3>2 DEF DataOk, RowsOk, ReadRow, TaskRow
    <3>4. ReadRow(h, t)'
      BY <3>1, <3>3 DEF ReadRow
    <3>5. QED BY <1>2, <3>1, <3>4, DataKept
  <2>3. QED BY <2>1, <2>2
<1>7. DataOk'
  BY <1>2, <1>5, <1>6, DataKept DEF DataOk
<1>8. PICK x, y, z : /\ Takes(p, {x, y, z}) /\ New(x, "release", t) /\ New(y, "drop", t)
                     /\ New(z, "schedule", t) /\ z.row = h
  BY <1>3, <1>60, HandsOver DEF TaskOf, Arg
<1>9. Ok(p, x)' /\ Ok(p, y)'
  <2>1. Ok(p, x) /\ Ok(p, y)
    BY <1>4, <1>8, EasyCalls DEF New
  <2>2. QED BY <1>2, <1>6, <2>1, OkKept DEF DataOk
<1>10. Ok(p, z)'
  <2>1. p \in Tasks \/ p = Client
    BY ThreadKinds
  <2>2. QED BY <1>4, <1>6, <1>8, <2>1 DEF New, Ok, CallOk, PlaceOk, StaticOps, InnerOps, OuterOps, BrowserOps, ClientOps, SweepOps, ProbeOps, RowOps, EntryOps
<1>11. QED BY <1>6, <1>7, <1>8, <1>9, <1>10, OkSets DEF StaticNext

\* Calls of a thread about a task it may be at work on.
LEMMA OwnCalls ==
  ASSUME NEW p \in Threads, NEW c, c.task \in Tasks, p \in Tasks => c.task = p,
         \/ c.op \in {"store", "abandon", "cancel_operation", "unreserve"} /\ (c.op = "unreserve" => p \in Tasks)
         \/ c.op = "apply" /\ c.answer.kind = "cancelled"
         \/ c.op = "expired" /\ p \in Tasks,
         c.op = "store" => c.answer.kind = "confirmation",
         c.op = "cancel_operation" => p = Client /\ c.entry.kind = "confirmation" /\ c.entry.id # 0,
         c.op = "apply" => p = Client
  PROVE  Ok(p, c)
<1>1. (p \in Tasks \/ p = Client) /\ Client \notin Tasks
  BY ThreadKinds
<1>2. QED BY <1>1 DEF Ok, CallOk, PlaceOk, StaticOps, InnerOps, OuterOps, BrowserOps, ClientOps, SweepOps, ProbeOps, RowOps, EntryOps

LEMMA WaitMoves ==
  ASSUME DataOk, NEW p, wait(p), NEW c, c = Arg(p), NEW t \in Tasks, t = c.task, ReadRow(c.row, t),
         c.row.status \in {"probing", "waiting_for_user"}
  PROVE  DataOk' /\ RowsGrow
<1>1. UNCHANGED <<interactions, sessions, owner, closed>>
  BY DEF wait, env
<1>2. RowsOk' /\ RowsGrow
  <2>1. CASE tasks' = tasks
    BY <2>1, DataKept
  <2>2. CASE /\ Fresh(c) /\ c.row.status # "waiting_for_user"
             /\ Put(t, [c.row EXCEPT !.status = "waiting_for_user", !.version = @ + 1, !.resume_status = NONE])
    <3>1. c.row = tasks[t] /\ c.row \in TaskRow /\ c.row.resume_gate = "none"
      BY <2>2, FreshRow
    <3>2. PICK row : row = [c.row EXCEPT !.status = "waiting_for_user", !.version = @ + 1, !.resume_status = NONE]
      OBVIOUS
    <3>3. PICK r : r = c.row
      OBVIOUS
    <3>4. r \in TaskRow /\ r.resume_gate = "none" /\ row = [r EXCEPT !.status = "waiting_for_user", !.version = r.version + 1, !.resume_status = NONE]
      BY <3>1, <3>2, <3>3
    <3>5. row \in TaskRow /\ row.resume_gate = "none" /\ r.version < row.version
      BY <3>4, WaitingRow
    <3>6. tasks[t].status \notin TERMINAL_STATUSES
      BY <2>2, <3>1 DEF TERMINAL_STATUSES
    <3>7. Put(t, row)
      BY <2>2, <3>2
    <3>8. QED BY <3>1, <3>3, <3>5, <3>6, <3>7, PutRow
  <2>3. QED BY <2>1, <2>2 DEF wait
<1>3. LeasesOk'
  <2>1. CASE SetLease(t, [owner |-> owner, live |-> TRUE])
    BY <1>1, <2>1, PutLease
  <2>2. CASE leases' = leases
    BY <1>1, <2>2, DataKept
  <2>3. QED BY <2>1, <2>2 DEF wait
<1>4. QED BY <1>1, <1>2, <1>3, DataKept DEF DataOk

LEMMA StaticWait ==
  ASSUME Sound, NEW p \in Threads, wiring = Static, wait(p)
  PROVE  StaticNext(p)
<1>1. ~ Idle(p) /\ Arg(p).op = "wait"
  BY DEF wait, Doing, Arg
<1>2. DataOk /\ TaskOf(p) \in Tasks /\ Ok(p, Arg(p)) /\ Queues
  BY <1>1, Known1
<1>3. PICK c, t : c = Arg(p) /\ t = c.task
  OBVIOUS
<1>4. /\ t \in Tasks /\ t = TaskOf(p) /\ ReadRow(c.row, t) /\ (p \in Tasks => t = p)
      /\ c.row.status \in {"probing", "waiting_for_user"} /\ c.answer.kind = "confirmation"
  BY <1>1, <1>2, <1>3 DEF Ok, CallOk, PlaceOk, RowOps, SweepOps, TaskOf, Arg
<1>5. DataOk' /\ RowsGrow
  BY <1>2, <1>3, <1>4, WaitMoves
<1>6. \A x : Ok(p, x) => Ok(p, x)'
  BY <1>2, <1>5, OkKept DEF DataOk
<1>7. ASSUME NEW a, New(a, "store", t), a.answer = c.answer PROVE Ok(p, a)'
  BY <1>4, <1>6, <1>7, OwnCalls DEF New
<1>8. ASSUME NEW b, New(b, "abandon", t) PROVE Ok(p, b)'
  BY <1>4, <1>6, <1>8, OwnCalls DEF New
<1>9. OkNext(p)
  <2>1. CASE Takes(p, {})
    BY <2>1, OkSets
  <2>2. CASE \E a : Takes(p, {a}) /\ New(a, "store", t) /\ a.answer = c.answer
    BY <1>7, <2>2, OkSets
  <2>3. CASE \E a, b : Takes(p, {a, b}) /\ New(a, "store", t) /\ a.answer = c.answer /\ New(b, "abandon", t)
    BY <1>7, <1>8, <2>3, OkSets
  <2>4. QED BY <1>2, <1>3, <1>4, <2>1, <2>2, <2>3, Waits
<1>10. QED BY <1>5, <1>9 DEF StaticNext

LEMMA StaticCancel ==
  ASSUME Sound, NEW p \in Threads, wiring = Static, _best_effort_cancel(p) \/ cancel_operation(p)
  PROVE  StaticNext(p) /\ UNCHANGED closed
<1>1. ~ Idle(p) /\ Arg(p).op \in {"cancel_handle", "cancel_operation"}
  BY DEF _best_effort_cancel, cancel_operation, Doing, Arg
<1>2. DataOk /\ TaskOf(p) \in Tasks /\ Ok(p, Arg(p)) /\ Queues /\ SessionsOk(sessions)
  BY <1>1, Known1 DEF DataOk
<1>3. Arg(p).entry.kind = "confirmation"
  BY <1>1, <1>2 DEF Ok, CallOk, EntryOps
<1>4. \A o \in HandleCancelled(Arg(p).entry) : SessionsOk(o.sessions) /\ o.answer = A("cancelled") /\ o.answer.kind = "cancelled"
  <2>1. HandleCancelled(Arg(p).entry) = cancel_config(sessions, Arg(p).entry.handle)
    BY <1>3 DEF HandleCancelled
  <2>2. A("cancelled").kind = "cancelled"
    BY DEF A, For
  <2>3. QED BY <1>2, <2>1, <2>2, StaticAnswers
<1>5. UNCHANGED <<tasks, leases, interactions, owner>>
  BY DEF _best_effort_cancel, cancel_operation, env
<1>6. ASSUME SessionsOk(sessions'), closed' = closed PROVE /\ DataOk' /\ RowsGrow
                                                          /\ \A x : Ok(p, x) => Ok(p, x)'
  <2>1. DataOk' /\ RowsGrow
    BY <1>2, <1>5, <1>6, DataKept DEF DataOk
  <2>2. QED BY <1>2, <1>5, <2>1, QuietNext
<1>7. CASE _best_effort_cancel(p)
  <2>1. PICK o \in HandleCancelled(Arg(p).entry) : \E N :
           /\ Takes(p, N) /\ sessions' = o.sessions
           /\ closed' = IF Arg(p).to = "closing" /\ o.answer.kind \in {"raised", "cleanup"} THEN "incomplete" ELSE closed
           /\ o.answer.kind = "cancelled" =>
                \/ \E a : N = {a} /\ New(a, "drop", TaskOf(p)) /\ Arg(p).to = "abandon"
                \/ \E a : N = {a} /\ New(a, "expired", TaskOf(p)) /\ Arg(p).to = "expired"
                \/ \E a, b : /\ N = {a, b} /\ New(a, "release", TaskOf(p)) /\ New(b, "drop", TaskOf(p))
                             /\ Arg(p).to \notin {"abandon", "expired"}
    BY <1>2, <1>7, Cancels
  <2>2. closed' = closed /\ SessionsOk(sessions')
    BY <1>4, <2>1
  <2>3. DataOk' /\ RowsGrow /\ \A x : Ok(p, x) => Ok(p, x)'
    BY <1>6, <2>2
  <2>4. CASE \E a : Takes(p, {a}) /\ New(a, "drop", TaskOf(p))
    <3>1. PICK a : Takes(p, {a}) /\ New(a, "drop", TaskOf(p))
      BY <2>4
    <3>2. Ok(p, a)
      BY <1>2, <3>1, EasyCalls DEF New
    <3>3. QED BY <2>2, <2>3, <3>1, <3>2, OkSets DEF StaticNext
  <2>5. CASE \E a : Takes(p, {a}) /\ New(a, "expired", TaskOf(p)) /\ Arg(p).to = "expired"
    <3>1. PICK a : Takes(p, {a}) /\ New(a, "expired", TaskOf(p)) /\ Arg(p).to = "expired"
      BY <2>5
    <3>2. (p \in Tasks \/ p = Client) /\ Client \notin Tasks
      BY ThreadKinds
    <3>3. p \in Tasks
      BY <1>1, <1>2, <3>1, <3>2, <1>7 DEF Ok, PlaceOk, _best_effort_cancel, Doing, Arg
    <3>4. Ok(p, a)
      BY <1>2, <3>1, <3>2, <3>3 DEF New, Ok, CallOk, PlaceOk, StaticOps, InnerOps, OuterOps, BrowserOps, ClientOps, SweepOps, ProbeOps, RowOps, EntryOps
    <3>5. QED BY <2>2, <2>3, <3>1, <3>4, OkSets DEF StaticNext
  <2>6. CASE \E a, b : Takes(p, {a, b}) /\ New(a, "release", TaskOf(p)) /\ New(b, "drop", TaskOf(p))
    <3>1. PICK a, b : Takes(p, {a, b}) /\ New(a, "release", TaskOf(p)) /\ New(b, "drop", TaskOf(p))
      BY <2>6
    <3>2. Ok(p, a) /\ Ok(p, b)
      BY <1>2, <3>1, EasyCalls DEF New
    <3>3. QED BY <2>2, <2>3, <3>1, <3>2, OkSets DEF StaticNext
  <2>7. QED BY <1>4, <2>1, <2>4, <2>5, <2>6
<1>8. CASE cancel_operation(p)
  <2>1. PICK o \in HandleCancelled(Arg(p).entry) : \E a :
           /\ Takes(p, {a}) /\ sessions' = o.sessions
           /\ o.answer.kind # "raised" => New(a, "apply", TaskOf(p)) /\ a.answer = o.answer
    BY <1>2, <1>8, CancelsOperation
  <2>2. PICK a : Takes(p, {a}) /\ sessions' = o.sessions /\ New(a, "apply", TaskOf(p)) /\ a.answer = o.answer
    BY <1>4, <2>1
  <2>3. closed' = closed
    BY <1>8 DEF cancel_operation, env
  <2>4. DataOk' /\ RowsGrow /\ \A x : Ok(p, x) => Ok(p, x)'
    BY <1>4, <1>6, <2>2, <2>3
  <2>5. p = Client
    BY <1>1, <1>2, <1>8, ThreadKinds DEF Ok, PlaceOk, ClientOps, cancel_operation, Doing, Arg
  <2>6. Ok(p, a)
    BY <1>2, <1>4, <2>2, <2>5, OwnCalls, ThreadKinds DEF New
  <2>7. QED BY <2>2, <2>3, <2>4, <2>6, OkSets DEF StaticNext
<1>9. QED BY <1>7, <1>8

\* The end of a section under a lock.
LEMMA UnlockOk ==
  ASSUME NEW p \in Threads, NEW b, New(b, "unlock", 0)
  PROVE  Ok(p, b)
BY DEF New, Ok, CallOk, PlaceOk, StaticOps, InnerOps, OuterOps, BrowserOps, ClientOps, SweepOps, ProbeOps, RowOps, EntryOps

LEMMA StaticAct ==
  ASSUME Sound, NEW p \in Threads, wiring = Static, _act(p)
  PROVE  StaticNext(p) /\ UNCHANGED closed
<1>1. ~ Idle(p) /\ Arg(p).op = "act"
  BY DEF _act, Acquired, Doing, Arg
<1>2. Queues /\ DataOk /\ TaskOf(p) \in Tasks /\ Ok(p, Arg(p))
  BY <1>1, Known1
<1>3. UNCHANGED <<data, owner, closed>>
  BY DEF _act, Decides, env
<1>4. DataOk' /\ RowsGrow /\ \A x : Ok(p, x) => Ok(p, x)'
  BY <1>2, <1>3, DataKept, QuietNext DEF data
<1>5. CASE Takes(p, {})
  BY <1>3, <1>4, <1>5, OkSets DEF StaticNext
<1>6. CASE \E a, b : /\ Takes(p, {a, b}) /\ New(b, "unlock", 0)
                     /\ New(a, "operation", TaskOf(p)) /\ a.entry = Arg(p).entry
                     /\ a.row = tasks[TaskOf(p)] /\ a.row.status = "waiting_for_user"
  <2>1. PICK a, b : /\ Takes(p, {a, b}) /\ New(b, "unlock", 0)
                    /\ New(a, "operation", TaskOf(p)) /\ a.entry = Arg(p).entry
                    /\ a.row = tasks[TaskOf(p)] /\ a.row.status = "waiting_for_user"
    BY <1>6
  <2>2. Ok(p, b)
    BY <2>1, UnlockOk
  <2>3. p = Client
    BY <1>1, <1>2, ThreadKinds DEF Ok, PlaceOk, ClientOps
  <2>4. a.entry.kind = "confirmation" /\ a.entry.id # 0
    BY <1>1, <1>2, <2>1 DEF Ok, CallOk, EntryOps
  <2>5. ReadRow(a.row, TaskOf(p))
    BY <1>2, <2>1 DEF ReadRow, DataOk, RowsOk, TaskRow
  <2>6. Ok(p, a)
    BY <1>2, <2>1, <2>3, <2>4, <2>5, ThreadKinds DEF New, Ok, CallOk, PlaceOk, StaticOps, InnerOps, OuterOps, BrowserOps, ClientOps, SweepOps, ProbeOps, RowOps, EntryOps
  <2>7. QED BY <1>3, <1>4, <2>1, <2>2, <2>6, OkSets DEF StaticNext
<1>7. QED BY <1>2, <1>5, <1>6, Acts

LEMMA StaticCancelInteraction ==
  ASSUME Sound, NEW p \in Threads, wiring = Static, cancel_interaction(p)
  PROVE  StaticNext(p) /\ UNCHANGED closed
<1>1. ~ Idle(p) /\ Arg(p).op = "cancel_interaction"
  BY DEF cancel_interaction, Acquired, Doing, Arg
<1>2. Queues /\ DataOk /\ TaskOf(p) \in Tasks /\ Ok(p, Arg(p))
  BY <1>1, Known1
<1>3. UNCHANGED <<tasks, interactions, sessions, owner, closed>>
  BY DEF cancel_interaction, env
<1>4. LeasesOk'
  <2>1. CASE leases' = leases
    BY <1>2, <1>3, <2>1, DataKept
  <2>2. CASE leases' = [leases EXCEPT ![TaskOf(p)].live = TRUE]
    BY <1>2, <1>3, <2>2 DEF DataOk, LeasesOk
  <2>3. QED BY <2>1, <2>2 DEF cancel_interaction, TaskOf
<1>5. DataOk' /\ RowsGrow
  BY <1>2, <1>3, <1>4, DataKept DEF DataOk
<1>6. \A x : Ok(p, x) => Ok(p, x)'
  BY <1>2, <1>5, OkKept DEF DataOk
<1>7. CASE Takes(p, {})
  BY <1>3, <1>5, <1>7, OkSets DEF StaticNext
<1>8. CASE \E a, b : /\ Takes(p, {a, b}) /\ New(b, "unlock", 0)
                     /\ New(a, "cancel_operation", TaskOf(p)) /\ a.entry = Arg(p).entry
  <2>1. PICK a, b : /\ Takes(p, {a, b}) /\ New(b, "unlock", 0)
                    /\ New(a, "cancel_operation", TaskOf(p)) /\ a.entry = Arg(p).entry
    BY <1>8
  <2>2. Ok(p, b)
    BY <2>1, UnlockOk
  <2>3. p = Client
    BY <1>1, <1>2, ThreadKinds DEF Ok, PlaceOk, ClientOps
  <2>4. a.entry.kind = "confirmation" /\ a.entry.id # 0
    BY <1>1, <1>2, <2>1 DEF Ok, CallOk, EntryOps
  <2>5. Ok(p, a)
    BY <1>2, <2>1, <2>3, <2>4, ThreadKinds, OwnCalls DEF New
  <2>6. QED BY <1>3, <1>5, <1>6, <2>1, <2>2, <2>5, OkSets DEF StaticNext
<1>9. QED BY <1>2, <1>7, <1>8, CancelsInteraction

LEMMA StaticSweep ==
  ASSUME Sound, NEW p \in Threads, wiring = Static, sweep(p)
  PROVE  StaticNext(p) /\ UNCHANGED closed
<1>1. ~ Idle(p) /\ Arg(p).op = "sweep"
  BY DEF sweep, Doing, Arg
<1>2. Queues /\ DataOk /\ Ok(p, Arg(p)) /\ SessionsOk(sessions)
  BY <1>1, Known1 DEF DataOk
<1>3. sessions' = sessions
  <2>1. expire_sweep(sessions) = {sessions}
    BY <1>2, StaticAnswers
  <2>2. QED BY <2>1 DEF sweep
<1>4. UNCHANGED <<data, owner, closed>>
  BY <1>3 DEF sweep, env, data
<1>5. DataOk' /\ RowsGrow /\ \A x : Ok(p, x) => Ok(p, x)'
  BY <1>2, <1>4, DataKept, QuietNext DEF data
<1>6. p \in Tasks /\ p # Client
  BY <1>1, <1>2, ThreadKinds DEF Ok, PlaceOk, ProbeOps
<1>7. PICK N : /\ Takes(p, N)
               /\ \A c \in N : New(c, "sweep_expired", 0) \/ \E t \in Entries : New(c, "sweep_terminal", t)
  BY Sweeps
<1>8. ASSUME NEW c \in N PROVE Ok(p, c)
  <2>1. CASE New(c, "sweep_expired", 0)
    BY <1>6, <2>1 DEF New, Ok, CallOk, PlaceOk, StaticOps, InnerOps, OuterOps, BrowserOps, ClientOps, SweepOps, ProbeOps, RowOps, EntryOps
  <2>2. CASE \E t \in Tasks : New(c, "sweep_terminal", t)
    BY <1>6, <2>2 DEF New, Ok, CallOk, PlaceOk, StaticOps, InnerOps, OuterOps, BrowserOps, ClientOps, SweepOps, ProbeOps, RowOps, EntryOps
  <2>3. QED BY <1>7, <2>1, <2>2 DEF Entries
<1>9. QED BY <1>4, <1>5, <1>7, <1>8 DEF StaticNext, OkNext

LEMMA StaticSweepTerminal ==
  ASSUME Sound, NEW p \in Threads, wiring = Static, sweep_terminal(p)
  PROVE  StaticNext(p) /\ UNCHANGED closed
<1>1. ~ Idle(p) /\ Arg(p).op = "sweep_terminal"
  BY DEF sweep_terminal, Doing, Arg
<1>2. Queues /\ DataOk /\ TaskOf(p) \in Tasks /\ Ok(p, Arg(p))
  BY <1>1, Known1
<1>3. UNCHANGED <<data, owner, closed>>
  BY DEF sweep_terminal, Decides, env
<1>4. DataOk' /\ RowsGrow /\ \A x : Ok(p, x) => Ok(p, x)'
  BY <1>2, <1>3, DataKept, QuietNext DEF data
<1>5. CASE Takes(p, {})
  BY <1>3, <1>4, <1>5, OkSets DEF StaticNext
<1>6. CASE \E a : /\ Takes(p, {a}) /\ tasks[TaskOf(p)].status \in TERMINAL_STATUSES /\ TaskOf(p) \in Entries
                  /\ interactions[TaskOf(p)].kind \notin CleanupKinds =>
                       Is(a, "cancel_handle", TaskOf(p), NoRow, "terminal", A("failed"), interactions[TaskOf(p)])
  <2>1. PICK a : /\ Takes(p, {a}) /\ tasks[TaskOf(p)].status \in TERMINAL_STATUSES /\ TaskOf(p) \in Entries
                 /\ interactions[TaskOf(p)].kind \notin CleanupKinds =>
                      Is(a, "cancel_handle", TaskOf(p), NoRow, "terminal", A("failed"), interactions[TaskOf(p)])
    BY <1>6
  <2>2. interactions[TaskOf(p)].kind = "confirmation" /\ interactions[TaskOf(p)].id # 0
    BY <1>2, <2>1 DEF DataOk, EntriesOk, EntryOk, Entries
  <2>3. a.op = "cancel_handle" /\ a.task = TaskOf(p) /\ a.to = "terminal" /\ a.entry = interactions[TaskOf(p)]
    BY <2>1, <2>2 DEF Is, CleanupKinds
  <2>4. p \in Tasks /\ p # Client
    BY <1>1, <1>2, ThreadKinds DEF Ok, PlaceOk, ProbeOps
  <2>5. Ok(p, a)
    BY <1>2, <2>1, <2>2, <2>3, <2>4 DEF Ok, CallOk, PlaceOk, StaticOps, InnerOps, OuterOps, BrowserOps, ClientOps, SweepOps, ProbeOps, RowOps, EntryOps
  <2>6. QED BY <1>3, <1>4, <2>1, <2>5, OkSets DEF StaticNext
<1>7. QED BY <1>2, <1>5, <1>6, SweepsTerminal

LEMMA StaticSweepExpired ==
  ASSUME Sound, NEW p \in Threads, wiring = Static, sweep_expired(p)
  PROVE  StaticNext(p) /\ UNCHANGED closed
<1>1. ~ Idle(p) /\ Arg(p).op = "sweep_expired"
  BY DEF sweep_expired, Doing, Arg
<1>2. Queues /\ DataOk /\ Ok(p, Arg(p))
  BY <1>1, Known1
<1>3. UNCHANGED <<data, owner, closed>>
  BY DEF sweep_expired, env
<1>4. DataOk' /\ RowsGrow /\ \A x : Ok(p, x) => Ok(p, x)'
  BY <1>2, <1>3, DataKept, QuietNext DEF data
<1>5. PICK N : /\ Takes(p, N)
               /\ \A c \in N : \E t \in Entries : Is(c, "expire", t, NoRow, NONE, A("failed"), interactions[t])
  BY SweepsExpired
<1>6. p \in Tasks /\ p # Client
  BY <1>1, <1>2, ThreadKinds DEF Ok, PlaceOk, ProbeOps
<1>7. ASSUME NEW c \in N PROVE Ok(p, c)
  <2>1. PICK t \in Tasks : t \in Entries /\ c.op = "expire" /\ c.task = t /\ c.entry = interactions[t]
    BY <1>5 DEF Is, Entries
  <2>2. interactions[t].kind = "confirmation" /\ interactions[t].id # 0
    BY <1>2, <2>1 DEF DataOk, EntriesOk, EntryOk, Entries
  <2>3. QED BY <1>6, <2>1, <2>2 DEF Ok, CallOk, PlaceOk, StaticOps, InnerOps, OuterOps, BrowserOps, ClientOps, SweepOps, ProbeOps, RowOps, EntryOps
<1>8. QED BY <1>3, <1>4, <1>5, <1>7 DEF StaticNext, OkNext

LEMMA StaticExpire ==
  ASSUME Sound, NEW p \in Threads, wiring = Static, expire(p)
  PROVE  StaticNext(p) /\ UNCHANGED closed
<1>1. ~ Idle(p) /\ Arg(p).op = "expire"
  BY DEF expire, Acquired, Doing, Arg
<1>2. Queues /\ DataOk /\ TaskOf(p) \in Tasks /\ Ok(p, Arg(p))
  BY <1>1, Known1
<1>3. UNCHANGED <<data, owner, closed>>
  BY DEF expire, Decides, env
<1>4. DataOk' /\ RowsGrow /\ \A x : Ok(p, x) => Ok(p, x)'
  BY <1>2, <1>3, DataKept, QuietNext DEF data
<1>5. CASE Takes(p, {})
  BY <1>3, <1>4, <1>5, OkSets DEF StaticNext
<1>6. CASE \E a, b : /\ Takes(p, {a, b}) /\ New(b, "unlock", 0)
                     /\ Arg(p).entry.kind \notin CleanupKinds =>
                           Is(a, "cancel_handle", TaskOf(p), NoRow, "expired", A("failed"), Arg(p).entry)
  <2>1. PICK a, b : /\ Takes(p, {a, b}) /\ New(b, "unlock", 0)
                    /\ Arg(p).entry.kind \notin CleanupKinds =>
                          Is(a, "cancel_handle", TaskOf(p), NoRow, "expired", A("failed"), Arg(p).entry)
    BY <1>6
  <2>2. Arg(p).entry.kind = "confirmation" /\ Arg(p).entry.id # 0
    BY <1>1, <1>2 DEF Ok, CallOk, EntryOps
  <2>3. a.op = "cancel_handle" /\ a.task = TaskOf(p) /\ a.to = "expired" /\ a.entry = Arg(p).entry
    BY <2>1, <2>2 DEF Is, CleanupKinds
  <2>4. p \in Tasks /\ p # Client
    BY <1>1, <1>2, ThreadKinds DEF Ok, PlaceOk, ProbeOps
  <2>5. Ok(p, b)
    BY <2>1, UnlockOk
  <2>6. Ok(p, a)
    BY <1>2, <2>2, <2>3, <2>4 DEF Ok, CallOk, PlaceOk, StaticOps, InnerOps, OuterOps, BrowserOps, ClientOps, SweepOps, ProbeOps, RowOps, EntryOps
  <2>7. QED BY <1>3, <1>4, <2>1, <2>5, <2>6, OkSets DEF StaticNext
<1>7. QED BY <1>2, <1>5, <1>6, Expires

LEMMA StaticExpired ==
  ASSUME Sound, NEW p \in Threads, wiring = Static, expired(p)
  PROVE  StaticNext(p) /\ UNCHANGED closed
<1>1. ~ Idle(p) /\ Arg(p).op = "expired"
  BY DEF expired, Doing, Arg
<1>2. Queues /\ DataOk /\ TaskOf(p) \in Tasks /\ Ok(p, Arg(p))
  BY <1>1, Known1
<1>3. UNCHANGED <<data, owner, closed>>
  BY DEF expired, Decides, env
<1>4. DataOk' /\ RowsGrow /\ \A x : Ok(p, x) => Ok(p, x)'
  BY <1>2, <1>3, DataKept, QuietNext DEF data
<1>5. CASE \E a : Takes(p, {a}) /\ New(a, "drop", TaskOf(p))
  <2>1. PICK a : Takes(p, {a}) /\ New(a, "drop", TaskOf(p))
    BY <1>5
  <2>2. Ok(p, a)
    BY <1>2, <2>1, EasyCalls DEF New
  <2>3. QED BY <1>3, <1>4, <2>1, <2>2, OkSets DEF StaticNext
<1>6. CASE \E a, b, c : /\ Takes(p, {a, b, c}) /\ tasks[TaskOf(p)].status = "waiting_for_user"
                        /\ New(a, "release", TaskOf(p)) /\ New(c, "drop", TaskOf(p))
                        /\ New(b, "lost", TaskOf(p)) /\ b.row = tasks[TaskOf(p)]
  <2>1. PICK a, b, c : /\ Takes(p, {a, b, c}) /\ tasks[TaskOf(p)].status = "waiting_for_user"
                       /\ New(a, "release", TaskOf(p)) /\ New(c, "drop", TaskOf(p))
                       /\ New(b, "lost", TaskOf(p)) /\ b.row = tasks[TaskOf(p)]
    BY <1>6
  <2>2. Ok(p, a) /\ Ok(p, c)
    BY <1>2, <2>1, EasyCalls DEF New
  <2>3. p \in Tasks /\ p # Client
    BY <1>1, <1>2, ThreadKinds DEF Ok, PlaceOk, ProbeOps
  <2>4. ReadRow(b.row, TaskOf(p))
    BY <1>2, <2>1 DEF ReadRow, DataOk, RowsOk, TaskRow
  <2>5. Ok(p, b)
    BY <1>2, <2>1, <2>3, <2>4 DEF New, Ok, CallOk, PlaceOk, StaticOps, InnerOps, OuterOps, BrowserOps, ClientOps, SweepOps, ProbeOps, RowOps, EntryOps
  <2>6. QED BY <1>3, <1>4, <2>1, <2>2, <2>5, OkSets DEF StaticNext
<1>7. QED BY <1>5, <1>6, Expired

LEMMA StaticReserve ==
  ASSUME Sound, NEW p \in Threads, wiring = Static, _reserve_capacity(p)
  PROVE  StaticNext(p) /\ UNCHANGED closed
<1>1. ~ Idle(p) /\ Arg(p).op = "reserve"
  BY DEF _reserve_capacity, Doing, Arg
<1>2. Queues /\ DataOk /\ TaskOf(p) \in Tasks /\ Ok(p, Arg(p))
  BY <1>1, Known1
<1>3. UNCHANGED <<tasks, leases, interactions, sessions, owner, closed>>
  BY DEF _reserve_capacity, env
<1>4. DataOk' /\ RowsGrow
  BY <1>2, <1>3, DataKept DEF DataOk
<1>5. \A x : Ok(p, x) => Ok(p, x)'
  BY <1>2, <1>4, OkKept DEF DataOk
<1>6. p \in Tasks /\ p # Client /\ TaskOf(p) = p
  BY <1>1, <1>2, ThreadKinds DEF Ok, PlaceOk, ProbeOps, SweepOps, TaskOf, Arg
<1>7. ReadRow(Arg(p).row, p) /\ Arg(p).row.status = "probing"
  BY <1>1, <1>2, <1>6 DEF Ok, CallOk, RowOps, TaskOf, Arg
<1>8. CASE \E a : /\ Takes(p, {a}) /\ New(a, "transition", TaskOf(p)) /\ a.row = Arg(p).row
                  /\ a.to = "recoverable_failed"
  <2>1. PICK a : /\ Takes(p, {a}) /\ New(a, "transition", TaskOf(p)) /\ a.row = Arg(p).row
                 /\ a.to = "recoverable_failed"
    BY <1>8
  <2>2. Ok(p, a)
    BY <1>2, <1>6, <1>7, <2>1 DEF New, Ok, CallOk, PlaceOk, StaticOps, InnerOps, OuterOps, BrowserOps, ClientOps, SweepOps, ProbeOps, RowOps, EntryOps, ACTIVE_STATUSES
  <2>3. QED BY <1>3, <1>4, <1>5, <2>1, <2>2, OkSets DEF StaticNext
<1>9. CASE \E a, b : /\ Takes(p, {a, b}) /\ New(a, "check", TaskOf(p)) /\ a.row = Arg(p).row
                     /\ New(b, "unreserve", TaskOf(p))
  <2>1. PICK a, b : /\ Takes(p, {a, b}) /\ New(a, "check", TaskOf(p)) /\ a.row = Arg(p).row
                    /\ New(b, "unreserve", TaskOf(p))
    BY <1>9
  <2>2. Ok(p, a)
    BY <1>2, <1>6, <1>7, <2>1 DEF New, Ok, CallOk, PlaceOk, StaticOps, InnerOps, OuterOps, BrowserOps, ClientOps, SweepOps, ProbeOps, RowOps, EntryOps
  <2>3. Ok(p, b)
    BY <1>2, <1>6, <2>1, OwnCalls DEF New
  <2>4. QED BY <1>3, <1>4, <1>5, <2>1, <2>2, <2>3, OkSets DEF StaticNext
<1>10. QED BY <1>2, <1>8, <1>9, Reserves

LEMMA StaticCheck ==
  ASSUME Sound, NEW p \in Threads, wiring = Static, check(p)
  PROVE  StaticNext(p) /\ UNCHANGED closed
<1>1. ~ Idle(p) /\ Arg(p).op = "check"
  BY DEF check, Doing, Arg
<1>2. Queues /\ DataOk /\ TaskOf(p) \in Tasks /\ Ok(p, Arg(p))
  BY <1>1, Known1
<1>3. UNCHANGED <<data, owner, closed>>
  BY DEF check, Decides, env
<1>4. DataOk' /\ RowsGrow /\ \A x : Ok(p, x) => Ok(p, x)'
  BY <1>2, <1>3, DataKept, QuietNext DEF data
<1>5. CASE Takes(p, {})
  BY <1>3, <1>4, <1>5, OkSets DEF StaticNext
<1>6. CASE \E a : Takes(p, {a}) /\ New(a, "resolve", TaskOf(p)) /\ a.row = Arg(p).row
  <2>1. PICK a : Takes(p, {a}) /\ New(a, "resolve", TaskOf(p)) /\ a.row = Arg(p).row
    BY <1>6
  <2>2. p \in Tasks /\ p # Client /\ TaskOf(p) = p
    BY <1>1, <1>2, ThreadKinds DEF Ok, PlaceOk, ProbeOps, SweepOps, TaskOf, Arg
  <2>3. ReadRow(Arg(p).row, p) /\ Arg(p).row.status = "probing"
    BY <1>1, <1>2, <2>2 DEF Ok, CallOk, RowOps, TaskOf, Arg
  <2>4. Ok(p, a)
    BY <1>2, <2>1, <2>2, <2>3 DEF New, Ok, CallOk, PlaceOk, StaticOps, InnerOps, OuterOps, BrowserOps, ClientOps, SweepOps, ProbeOps, RowOps, EntryOps
  <2>5. QED BY <1>3, <1>4, <2>1, <2>4, OkSets DEF StaticNext
<1>7. QED BY <1>2, <1>5, <1>6, Checks

LEMMA StaticClose ==
  ASSUME Sound, NEW p \in Threads, wiring = Static, close_entry(p)
  PROVE  StaticNext(p) /\ UNCHANGED closed
<1>1. ~ Idle(p) /\ Arg(p).op = "close_entry"
  BY DEF close_entry, Doing, Arg
<1>2. Queues /\ DataOk /\ TaskOf(p) \in Tasks /\ Ok(p, Arg(p))
  BY <1>1, Known1
<1>3. UNCHANGED <<data, owner, closed>>
  BY DEF close_entry, Decides, env
<1>4. DataOk' /\ RowsGrow /\ \A x : Ok(p, x) => Ok(p, x)'
  BY <1>2, <1>3, DataKept, QuietNext DEF data
<1>5. CASE Takes(p, {})
  BY <1>3, <1>4, <1>5, OkSets DEF StaticNext
<1>6. CASE \E N : /\ Takes(p, N) /\ TaskOf(p) \in Entries
                  /\ interactions[TaskOf(p)].kind \notin CleanupKinds =>
                       \E a : /\ N = {a}
                              /\ Is(a, "cancel_handle", TaskOf(p), NoRow, "closing", A("failed"), interactions[TaskOf(p)])
  <2>1. PICK N : /\ Takes(p, N) /\ TaskOf(p) \in Entries
                 /\ interactions[TaskOf(p)].kind \notin CleanupKinds =>
                      \E a : /\ N = {a}
                             /\ Is(a, "cancel_handle", TaskOf(p), NoRow, "closing", A("failed"), interactions[TaskOf(p)])
    BY <1>6
  <2>2. interactions[TaskOf(p)].kind = "confirmation" /\ interactions[TaskOf(p)].id # 0
    BY <1>2, <2>1 DEF DataOk, EntriesOk, EntryOk, Entries
  <2>3. PICK a : /\ N = {a} /\ a.op = "cancel_handle" /\ a.task = TaskOf(p) /\ a.to = "closing"
                 /\ a.entry = interactions[TaskOf(p)]
    BY <2>1, <2>2 DEF Is, CleanupKinds
  <2>4. p = Client
    BY <1>1, <1>2, ThreadKinds DEF Ok, PlaceOk, ClientOps
  <2>5. Ok(p, a)
    BY <1>2, <2>2, <2>3, <2>4, ThreadKinds DEF Ok, CallOk, PlaceOk, StaticOps, InnerOps, OuterOps, BrowserOps, ClientOps, SweepOps, ProbeOps, RowOps, EntryOps
  <2>6. QED BY <1>3, <1>4, <2>1, <2>3, <2>5, OkSets DEF StaticNext
<1>7. QED BY <1>5, <1>6, ClosesEntry

\* What only a browser's handles need is never called.
LEMMA NoBrowser ==
  ASSUME Sound, NEW p \in Threads, wiring = Static
  PROVE  /\ ~ _store_cancel_pending(p) /\ ~ require_cleanup(p) /\ ~ _enter_cancel_pending(p)
         /\ ~ retry_cleanup_of(p) /\ ~ _retry_locked(p) /\ ~ retry_raised(p) /\ ~ retry_answered(p)
         /\ ~ complete_cleanup_gate(p) /\ ~ retry_stored(p) /\ ~ close_check(p)
<1>1. ~ Idle(p) => Arg(p).op \notin BrowserOps
  BY Known1 DEF Ok, CallOk, StaticOps
<1>2. QED BY <1>1 DEF BrowserOps, _store_cancel_pending, require_cleanup, _enter_cancel_pending, retry_cleanup_of,
            _retry_locked, retry_raised, retry_answered, complete_cleanup_gate, retry_stored, close_check,
            Acquired, Doing, Arg

LEMMA StaticStep ==
  ASSUME Sound, NEW p \in Threads, wiring = Static, Step(p)
  PROVE  StaticNext(p)
BY NoBrowser, StaticStore, StaticSmall, StaticRow, StaticApply, StaticView, StaticHandOver, StaticWait,
   StaticCancel, StaticAct, StaticCancelInteraction, StaticSweep, StaticSweepTerminal, StaticSweepExpired,
   StaticExpire, StaticExpired, StaticReserve, StaticCheck, StaticClose DEF Step

\* A step keeps the whole.
LEMMA SoundStep ==
  ASSUME Sound, NEW p \in Threads, Step(p)
  PROVE  Sound'
<1>1. PICK N : Takes(p, N) /\ \A c \in N : c.op = "unlock" => ~ Locked(c.entry.lock)
  BY StepLocks DEF TakesFree
<1>2. Queues' /\ Moves(p, N)
  BY <1>1, TakesTaken, TakenMoves DEF Sound
<1>3. OneHolder'
  BY <1>1, <1>2, HoldersKept DEF Sound
<1>4. wiring' = wiring
  BY <1>1 DEF Takes
<1>5. CASE wiring # Static
  BY <1>4, <1>5, <1>2, <1>3 DEF Sound, StaticOk
<1>6. CASE wiring = Static
  <2>1. PICK M : Takes(p, M) /\ \A c \in M : Ok(p, c)'
    BY <1>6, StaticStep DEF StaticNext, OkNext
  <2>2. Moves(p, M)
    BY <2>1, TakesTaken, TakenMoves DEF Sound
  <2>3. DataOk' /\ RowsGrow
    BY <1>6, StaticStep DEF StaticNext
  <2>4. StaticOk'
    BY <1>4, <2>1, <2>2, <2>3, StaticKept DEF Sound
  <2>5. QED BY <1>2, <1>3, <2>4 DEF Sound
<1>7. QED BY <1>5, <1>6

-----------------------------------------------------------------------------
(* What a thread begins with, and what happens by itself. *)

\* A thread that has nothing left to do begins with these calls.
Begins(p, N) ==
  /\ Idle(p) /\ wiring' = wiring
  /\ \E calls : Queue(p, calls) /\ N = ToSet(calls) /\ todo' = [todo EXCEPT ![p] = calls]
  /\ \A c \in N : c.op # "unlock"

LEMMA BeginsMoves ==
  ASSUME Queues, NEW p \in Threads, NEW N, Begins(p, N)
  PROVE  Queues' /\ Moves(p, N) /\ Calls(p)' = N /\ wiring' = wiring
<1>1. PICK calls : Queue(p, calls) /\ N = ToSet(calls) /\ todo' = [todo EXCEPT ![p] = calls]
  BY DEF Begins
<1>2. todo'[p] = calls /\ \A q \in Threads \ {p} : todo'[q] = todo[q]
  BY <1>1 DEF Queues
<1>3. todo' = [q \in Threads |-> todo'[q]]
  BY <1>1 DEF Queues
<1>4. \A q, x : Queue(q, x)' <=> Queue(q, x')
  BY DEF Begins, Queue, List, IsSeq, IsCall, Follows
<1>5. Queues'
  BY <1>1, <1>2, <1>3, <1>4 DEF Queues
<1>6. Calls(p)' = N /\ \A q \in Threads \ {p} : Calls(q)' = Calls(q)
  BY <1>1, <1>2 DEF Calls
<1>7. QED BY <1>5, <1>6 DEF Moves, Begins

LEMMA BeginSets ==
  ASSUME NEW p
  PROVE  /\ Start(p, <<>>) => Begins(p, {})
         /\ \A a : Start(p, <<a>>) /\ IsCall(a) /\ a.op # "unlock" => Begins(p, {a})
         /\ \A a, b : Start(p, <<a, b>>) /\ IsCall(a) /\ IsCall(b) /\ Follows(p, a, b)
                        /\ a.op # "unlock" /\ b.op # "unlock" => Begins(p, {a, b})
<1>1. ASSUME Start(p, <<>>) PROVE Begins(p, {})
  <2>1. Queue(p, <<>>) /\ ToSet(<<>>) = {}
    BY Short DEF Queue
  <2>2. QED BY <1>1, <2>1 DEF Start, Begins
<1>2. ASSUME NEW a, Start(p, <<a>>), IsCall(a), a.op # "unlock" PROVE Begins(p, {a})
  <2>1. Queue(p, <<a>>) /\ ToSet(<<a>>) = {a}
    BY <1>2, Queue1
  <2>2. \A c \in {a} : c.op # "unlock"
    BY <1>2
  <2>3. QED BY <1>2, <2>1, <2>2 DEF Start, Begins
<1>3. ASSUME NEW a, NEW b, Start(p, <<a, b>>), IsCall(a), IsCall(b), Follows(p, a, b), a.op # "unlock", b.op # "unlock"
      PROVE  Begins(p, {a, b})
  <2>1. Queue(p, <<a, b>>) /\ ToSet(<<a, b>>) = {a, b}
    BY <1>3, Queue2
  <2>2. \A c \in {a, b} : c.op # "unlock"
    BY <1>3
  <2>3. QED BY <1>3, <2>1, <2>2 DEF Start, Begins
<1>4. QED BY <1>1, <1>2, <1>3

\* A beginning keeps the whole.
LEMMA SoundBegin ==
  ASSUME Sound, NEW p \in Threads, NEW N, Begins(p, N),
         wiring = Static => DataOk' /\ RowsGrow /\ \A c \in N : Ok(p, c)'
  PROVE  Sound'
<1>1. Queues' /\ Moves(p, N) /\ wiring' = wiring
  BY BeginsMoves DEF Sound
<1>2. OneHolder'
  BY <1>1, HoldersKept DEF Sound, Begins
<1>3. StaticOk'
  BY <1>1, StaticKept DEF Sound
<1>4. QED BY <1>1, <1>2, <1>3 DEF Sound

\* The row of a task that changes its status.
LEMMA Changes ==
  ASSUME DataOk, NEW t \in Tasks, NEW to, CanTransition(tasks[t], to), Put(t, Transitioned(tasks[t], to))
  PROVE  /\ RowsOk' /\ RowsGrow /\ tasks'[t] = Transitioned(tasks[t], to)
         /\ ReadRow(tasks[t], t)' /\ tasks'[t].status = to
<1>1. tasks[t] \in TaskRow /\ tasks[t].resume_gate = "none"
  BY DEF DataOk, RowsOk
<1>2. PICK row : row = Transitioned(tasks[t], to)
  OBVIOUS
<1>3. row \in TaskRow /\ row.resume_gate = "none" /\ row.version = tasks[t].version + 1 /\ row.status = to
      /\ tasks[t].status \notin TERMINAL_STATUSES
  BY <1>1, <1>2, Rows
<1>4. tasks[t].version < row.version
  BY <1>1, <1>3 DEF TaskRow
<1>5. RowsOk' /\ RowsGrow /\ tasks'[t] = row
  BY <1>2, <1>3, <1>4, PutRow
<1>6. ReadRow(tasks[t], t)'
  BY <1>3, <1>5 DEF ReadRow, TaskRow
<1>7. QED BY <1>2, <1>3, <1>5, <1>6

LEMMA ProbeBegins ==
  ASSUME Sound, NEW t \in Tasks, probe_handler(t)
  PROVE  Sound'
<1>1. PICK row, s, r : /\ row = IF tasks[t].status = "created" THEN Transitioned(tasks[t], "probing") ELSE tasks[t]
                       /\ s = Call("sweep", t) /\ r = RowCall("reserve", t, row)
  OBVIOUS
<1>2. Put(t, row) /\ Start(t, <<s, r>>)
  BY <1>1 DEF probe_handler
<1>3. New(s, "sweep", t) /\ New(r, "reserve", t) /\ r.row = row
  BY <1>1, CallFields DEF New, Is
<1>4. Follows(t, s, r)
  BY <1>3 DEF New, Follows, Outer, OuterOps, Deciding
<1>5. t \in Threads /\ Begins(t, {s, r})
  BY <1>2, <1>3, <1>4, BeginSets, ThreadKinds DEF New
<1>6. ASSUME wiring = Static PROVE DataOk' /\ RowsGrow /\ \A c \in {s, r} : Ok(t, c)'
  <2>1. DataOk
    BY <1>6 DEF Sound, StaticOk
  <2>2. UNCHANGED <<leases, owner, interactions, sessions, closed>>
    BY DEF probe_handler
  <2>3. RowsOk' /\ RowsGrow /\ ReadRow(row, t)' /\ row.status = "probing"
    <3>1. CASE tasks[t].status = "created"
      <4>1. CanTransition(tasks[t], "probing")
        BY <2>1, <3>1 DEF DataOk, RowsOk, CanTransition, ALLOWED_TRANSITIONS, RESUMABLE_STATUSES
      <4>2. row = Transitioned(tasks[t], "probing")
        BY <1>1, <3>1
      <4>3. RowsOk' /\ RowsGrow /\ row = tasks'[t] /\ ReadRow(tasks[t], t)' /\ row.status = "probing"
        BY <1>2, <2>1, <4>1, <4>2, Changes
      <4>4. ReadRow(row, t)'
        BY <4>3
      <4>5. QED BY <4>3, <4>4
    <3>2. CASE tasks[t].status = "probing"
      <4>1. row = tasks[t] /\ tasks' = tasks
        <5>1. row = tasks[t]
          BY <1>1, <3>2
        <5>2. QED BY <1>2, <2>1, <5>1 DEF Put, DataOk, RowsOk
      <4>2. QED BY <2>1, <3>2, <4>1, DataKept DEF ReadRow, DataOk, RowsOk, TaskRow
    <3>3. QED BY <3>1, <3>2 DEF probe_handler
  <2>4. DataOk'
    BY <2>1, <2>2, <2>3, DataKept DEF DataOk
  <2>5. Ok(t, s)'
    BY <1>3, ThreadKinds DEF New, Ok, CallOk, PlaceOk, StaticOps, InnerOps, OuterOps, BrowserOps, ClientOps, SweepOps, ProbeOps, RowOps, EntryOps
  <2>6. Ok(t, r)'
    BY <1>3, <2>3, ThreadKinds DEF New, Ok, CallOk, PlaceOk, StaticOps, InnerOps, OuterOps, BrowserOps, ClientOps, SweepOps, ProbeOps, RowOps, EntryOps
  <2>7. QED BY <2>3, <2>4, <2>5, <2>6
<1>7. PICK N : N = {s, r}
  OBVIOUS
<1>8. QED BY <1>5, <1>6, <1>7, SoundBegin

\* A view of a task, which ends a client's operation.
LEMMA ViewOk ==
  ASSUME NEW t \in Tasks, NEW v, New(v, "view", t)
  PROVE  Ok(Client, v)'
BY ThreadKinds DEF New, Ok, CallOk, PlaceOk, StaticOps, InnerOps, OuterOps, BrowserOps, ClientOps, SweepOps, ProbeOps, RowOps, EntryOps

LEMMA ControlBegins ==
  ASSUME Sound, NEW t \in Tasks, pause_task(t) \/ cancel_task(t) \/ resume_task(t)
  PROVE  Sound'
<1>1. PICK to : CanTransition(tasks[t], to) /\ Control(t, Transitioned(tasks[t], to))
  BY DEF pause_task, cancel_task, resume_task
<1>2. PICK v : v = Call("view", t)
  OBVIOUS
<1>3. New(v, "view", t)
  BY <1>2, CallFields DEF New, Is
<1>4. Begins(Client, {v})
  BY <1>1, <1>2, <1>3, BeginSets DEF Control, New
<1>5. ASSUME wiring = Static PROVE DataOk' /\ RowsGrow /\ \A c \in {v} : Ok(Client, c)'
  <2>1. DataOk
    BY <1>5 DEF Sound, StaticOk
  <2>2. UNCHANGED <<leases, owner, interactions, sessions, closed>> /\ Put(t, Transitioned(tasks[t], to))
    BY <1>1 DEF Control
  <2>3. RowsOk' /\ RowsGrow
    BY <1>1, <2>1, <2>2, Changes
  <2>4. DataOk'
    BY <2>1, <2>2, <2>3, DataKept DEF DataOk
  <2>5. QED BY <1>3, <2>3, <2>4, ViewOk
<1>6. PICK N : N = {v}
  OBVIOUS
<1>7. QED BY <1>4, <1>5, <1>6, SoundBegin, ThreadKinds

LEMMA WorkBegins ==
  ASSUME Sound, NEW t \in Tasks, work(t)
  PROVE  Sound'
<1>1. PICK to : CanTransition(tasks[t], to) /\ Put(t, Transitioned(tasks[t], to))
  BY DEF work
<1>2. Begins(t, {}) /\ t \in Threads
  BY BeginSets, ThreadKinds DEF work
<1>3. ASSUME wiring = Static PROVE DataOk' /\ RowsGrow
  <2>1. DataOk
    BY <1>3 DEF Sound, StaticOk
  <2>2. UNCHANGED <<leases, owner, interactions, sessions, closed>>
    BY DEF work
  <2>3. RowsOk' /\ RowsGrow
    BY <1>1, <2>1, Changes
  <2>4. QED BY <2>1, <2>2, <2>3, DataKept DEF DataOk
<1>4. QED BY <1>2, <1>3, SoundBegin

LEMMA ActionBegins ==
  ASSUME Sound, NEW t \in Tasks,
         NEW op \in {"act", "cancel_interaction", "retry_cleanup"}, NEW kinds,
         op = "retry_cleanup" => kinds = CleanupKinds,
         op # "retry_cleanup" => kinds = {"verification", "confirmation"},
         _interaction_action(t, op, kinds)
  PROVE  Sound'
<1>1. PICK a, v : a = EntryCall(op, t, interactions[t]) /\ v = Call("view", t)
  OBVIOUS
<1>2. New(a, op, t) /\ a.entry = interactions[t] /\ New(v, "view", t)
  BY <1>1, CallFields DEF New, Is
<1>3. Follows(Client, a, v)
  BY <1>2 DEF New, Follows, Outer, OuterOps, Deciding
<1>4. Begins(Client, {a, v})
  BY <1>1, <1>2, <1>3, BeginSets DEF _interaction_action, New
<1>5. ASSUME wiring = Static PROVE DataOk' /\ RowsGrow /\ \A c \in {a, v} : Ok(Client, c)'
  <2>1. DataOk
    BY <1>5 DEF Sound, StaticOk
  <2>2. UNCHANGED <<data, owner, closed>> /\ interactions[t].kind \in kinds
    BY DEF _interaction_action
  <2>3. interactions[t].kind = "confirmation" /\ interactions[t].id # 0 /\ op # "retry_cleanup"
    BY <2>1, <2>2 DEF DataOk, EntriesOk, EntryOk, CleanupKinds, NoInteraction
  <2>4. Ok(Client, a)'
    BY <1>2, <2>3, ThreadKinds DEF New, Ok, CallOk, PlaceOk, StaticOps, InnerOps, OuterOps, BrowserOps, ClientOps, SweepOps, ProbeOps, RowOps, EntryOps
  <2>5. DataOk' /\ RowsGrow
    BY <2>1, <2>2, DataKept
  <2>6. QED BY <1>2, <2>4, <2>5, ViewOk
<1>6. PICK N : N = {a, v}
  OBVIOUS
<1>7. QED BY <1>4, <1>5, <1>6, SoundBegin, ThreadKinds

\* Steps that leave the threads alone.
LEMMA TimePasses ==
  ASSUME Sound, NEW t \in Tasks, lease_expires(t) \/ deadline_passes(t)
  PROVE  Sound'
<1>1. UNCHANGED <<tasks, owner, sessions, todo, closed, wiring>>
  BY DEF lease_expires, deadline_passes
<1>2. Queues' /\ OneHolder'
  BY <1>1 DEF Sound, Queues, Queue, List, IsSeq, IsCall, Follows, OneHolder, Calls
<1>3. ASSUME wiring = Static PROVE DataOk' /\ RowsGrow
  <2>1. DataOk
    BY <1>3 DEF Sound, StaticOk
  <2>2. CASE lease_expires(t)
    <3>1. leases' = [leases EXCEPT ![t].live = FALSE] /\ UNCHANGED interactions
      BY <2>2 DEF lease_expires
    <3>2. LeasesOk'
      BY <1>1, <2>1, <3>1 DEF DataOk, LeasesOk
    <3>3. QED BY <1>1, <2>1, <3>1, <3>2, DataKept DEF DataOk
  <2>3. CASE deadline_passes(t)
    <3>1. interactions' = [interactions EXCEPT ![t].expired = TRUE] /\ UNCHANGED leases /\ t \in Entries
      BY <2>3 DEF deadline_passes
    <3>2. EntriesOk'
      BY <2>1, <3>1 DEF DataOk, EntriesOk, EntryOk, IsEntry, Entries
    <3>3. QED BY <1>1, <2>1, <3>1, <3>2, DataKept DEF DataOk
  <2>4. QED BY <2>2, <2>3
<1>4. StaticOk'
  <2>1. \A p \in Threads : Moves(p, {})
    BY <1>1 DEF Moves, Calls
  <2>2. QED BY <1>1, <1>3, <2>1, StaticKept, ThreadKinds DEF Sound
<1>5. QED BY <1>2, <1>4 DEF Sound

LEMMA CloseBegins ==
  ASSUME Sound, close
  PROVE  Sound'
<1>0. Queues
  BY DEF Sound
<1>1. /\ Queues' /\ AllIdle /\ closed' = "complete" /\ wiring' = wiring
      /\ UNCHANGED <<data, owner, queued>>
      /\ \A p \in Threads \ {Client} : Calls(p)' = {}
      /\ \A c \in Calls(Client)' : \E t \in Entries : New(c, "close_entry", t)
  BY <1>0, Closes
<1>2. \A p \in Threads : Calls(p) = {}
  BY <1>1, Short DEF AllIdle, Idle, Calls
<1>3. Moves(Client, Calls(Client)')
  BY <1>1, <1>2 DEF Moves
<1>4. \A c \in Calls(Client)' : c.op = "close_entry" /\ c.task \in Tasks
  BY <1>1 DEF New, Entries
<1>5. OneHolder'
  BY <1>3, <1>4, HoldersKept, ThreadKinds DEF Sound
<1>6. ASSUME wiring = Static PROVE DataOk' /\ RowsGrow /\ \A c \in Calls(Client)' : Ok(Client, c)'
  <2>1. DataOk
    BY <1>6 DEF Sound, StaticOk
  <2>2. DataOk' /\ RowsGrow
    BY <1>1, <2>1, DataKept DEF DataOk, data
  <2>3. ASSUME NEW c, c.op = "close_entry", c.task \in Tasks PROVE Ok(Client, c)'
    BY <2>3, ThreadKinds DEF Ok, CallOk, PlaceOk, StaticOps, InnerOps, OuterOps, BrowserOps, ClientOps, SweepOps, ProbeOps, RowOps, EntryOps
  <2>4. QED BY <1>4, <2>2, <2>3
<1>7. StaticOk'
  BY <1>1, <1>3, <1>6, StaticKept, ThreadKinds DEF Sound
<1>8. QED BY <1>1, <1>5, <1>7 DEF Sound

LEMMA RestartSound ==
  ASSUME Sound, restart
  PROVE  Sound' /\ (wiring = Static => RowsGrow)
<1>1. todo' = [p \in Threads |-> <<>>] /\ wiring' = wiring
  BY DEF restart
<1>2. \A p \in Threads : Queue(p, <<>>)' /\ todo'[p] = <<>> /\ Calls(p)' = {}
  BY <1>1, Short DEF Queue, Calls, Follows, List, IsSeq
<1>3. Queues' /\ OneHolder'
  BY <1>1, <1>2 DEF Queues, OneHolder
<1>4. ASSUME wiring = Static PROVE DataOk' /\ RowsGrow
  <2>1. DataOk
    BY <1>4 DEF Sound, StaticOk
  <2>2. ASSUME NEW t \in Tasks
        PROVE  /\ Recovered(t) \in TaskRow /\ Recovered(t).resume_gate = "none"
               /\ Recovered(t) = tasks[t] \/ (tasks[t].version < Recovered(t).version /\ tasks[t].status \notin TERMINAL_STATUSES)
    <3>1. tasks[t] \in TaskRow /\ tasks[t].resume_gate = "none"
      BY <2>1 DEF DataOk, RowsOk
    <3>2. CASE tasks[t].status \in ACTIVE_STATUSES
      <4>1. CanTransition(tasks[t], "recoverable_failed")
        BY <3>1, <3>2 DEF CanTransition, ALLOWED_TRANSITIONS, ACTIVE_STATUSES, RESUMABLE_STATUSES
      <4>2. Recovered(t) = Transitioned(tasks[t], "recoverable_failed")
        BY <3>2 DEF Recovered, ACTIVE_STATUSES
      <4>3. tasks[t].version < tasks[t].version + 1
        BY <3>1 DEF TaskRow
      <4>4. QED BY <3>1, <4>1, <4>2, <4>3, Rows
    <3>3. CASE tasks[t].status \notin ACTIVE_STATUSES /\ tasks[t].status = "waiting_for_user" /\ ~ leases[t].live
      <4>1. tasks[t].status \notin TERMINAL_STATUSES
        BY <3>3 DEF TERMINAL_STATUSES
      <4>2. Recovered(t) = Lost(tasks[t])
        BY <3>3 DEF Recovered
      <4>3. tasks[t].version < tasks[t].version + 1
        BY <3>1 DEF TaskRow
      <4>4. QED BY <3>1, <4>1, <4>2, <4>3, Rows
    <3>4. CASE tasks[t].status \notin ACTIVE_STATUSES /\ ~ (tasks[t].status = "waiting_for_user" /\ ~ leases[t].live)
      BY <3>1, <3>4 DEF Recovered
    <3>5. QED BY <3>2, <3>3, <3>4
  <2>3. RowsOk' /\ RowsGrow
    BY <2>2 DEF restart, RowsOk, RowsGrow
  <2>4. LeasesOk'
    <3>1. PICK x : x = NoLease
      OBVIOUS
    <3>2. x \in [owner : Nat, live : BOOLEAN] /\ x.owner = 0
      BY <3>1 DEF NoLease
    <3>3. leases' = [t \in Tasks |-> IF tasks[t].status = "waiting_for_user" /\ ~ leases[t].live THEN x ELSE leases[t]]
          /\ owner' = owner + 1
      BY <3>1 DEF restart
    <3>4. QED BY <2>1, <3>2, <3>3 DEF DataOk, LeasesOk
  <2>5. EntriesOk' /\ SessionsOk(sessions)' /\ closed' \in {"no", "complete"}
    BY DEF restart, EntriesOk, EntryOk, SessionsOk, NoSessions, Unopened
  <2>6. QED BY <2>3, <2>4, <2>5 DEF DataOk
<1>5. StaticOk'
  BY <1>1, <1>2, <1>4 DEF StaticOk
<1>6. QED BY <1>3, <1>4, <1>5 DEF Sound

LEMMA SoundInit ==
  ASSUME Init
  PROVE  Sound
<1>1. \A p \in Threads : Queue(p, <<>>) /\ todo[p] = <<>> /\ Calls(p) = {}
  BY Short DEF Init, Queue, Calls
<1>2. Queues /\ OneHolder
  BY <1>1 DEF Init, Queues, OneHolder
<1>3. DataOk
  <2>1. RowsOk
    BY DEF Init, RowsOk, NewTask, TaskRow, TaskStatus, ResumeGate
  <2>2. LeasesOk
    BY DEF Init, LeasesOk, NoLease
  <2>3. EntriesOk /\ SessionsOk(sessions) /\ closed \in {"no", "complete"}
    BY DEF Init, EntriesOk, EntryOk, SessionsOk, NoSessions, Unopened
  <2>4. QED BY <2>1, <2>2, <2>3 DEF DataOk
<1>4. QED BY <1>1, <1>2, <1>3 DEF Sound, StaticOk

LEMMA SoundRequest ==
  ASSUME Sound, NEW t \in Tasks, Request(t)
  PROVE  Sound'
<1>1. CASE probe_handler(t)
  BY <1>1, ProbeBegins
<1>2. CASE work(t)
  BY <1>2, WorkBegins
<1>3. CASE pause_task(t) \/ cancel_task(t) \/ resume_task(t)
  BY <1>3, ControlBegins
<1>4. CASE \/ _interaction_action(t, "act", {"verification", "confirmation"})
           \/ _interaction_action(t, "cancel_interaction", {"verification", "confirmation"})
           \/ _interaction_action(t, "retry_cleanup", CleanupKinds)
  BY <1>4, ActionBegins
<1>5. CASE lease_expires(t) \/ deadline_passes(t)
  BY <1>5, TimePasses
<1>6. QED BY <1>1, <1>2, <1>3, <1>4, <1>5 DEF Request

LEMMA SoundStutter ==
  ASSUME Sound, UNCHANGED vars
  PROVE  Sound'
<1>1. UNCHANGED <<tasks, leases, owner, interactions, sessions, todo, closed, wiring>>
  BY DEF vars
<1>2. Queues' /\ OneHolder'
  BY <1>1 DEF Sound, Queues, Queue, List, IsSeq, IsCall, Follows, OneHolder, Calls
<1>3. Moves(Client, {})
  BY <1>1 DEF Moves, Calls
<1>4. ASSUME wiring = Static PROVE DataOk' /\ RowsGrow
  <2>1. DataOk
    BY <1>4 DEF Sound, StaticOk
  <2>2. UNCHANGED reserved /\ UNCHANGED <<data, owner, closed>>
    BY DEF vars, data
  <2>3. QED BY <2>1, <2>2, DataKept
<1>5. StaticOk'
  BY <1>1, <1>3, <1>4, StaticKept, ThreadKinds DEF Sound
<1>6. QED BY <1>2, <1>5 DEF Sound

\* The threads' lists of calls, the holders of the locks and, with the static service, the rows,
\* handles and calls are as they should be, whatever probes, client and clock do
\* (AdaptiveTaskController).
THEOREM Soundness == Spec => []Sound
<1>1. Init => Sound
  BY SoundInit
<1>2. Sound /\ [Next]_vars => Sound'
  BY SoundRequest, SoundStep, CloseBegins, RestartSound, SoundStutter DEF Next
<1>3. QED BY <1>1, <1>2, PTL DEF Spec

\* The thread that holds a lock is under way under it, and asks for no lock.
LEMMA HolderMoves ==
  ASSUME Queues, NEW q \in Threads, NEW c \in Calls(q), c.op = "unlock"
  PROVE  ~ Idle(q) /\ Arg(q).op \in InnerOps
<1>1. PICK s : s = todo[q]
  OBVIOUS
<1>2. Queue(q, s) /\ c \in ToSet(s)
  BY <1>1 DEF Queues, Calls
<1>3. s # <<>>
  BY <1>2, Elements DEF Queue, List
<1>4. s[1].op # "unlock"
  BY <1>2, <1>3 DEF Queue
<1>5. PICK i \in 1..Len(s) : s[i] = c
  BY <1>2, Elements DEF Queue, List
<1>6. Len(s) \in Nat
  BY <1>2, Elements DEF Queue, List
<1>7. 1 \in 1..Len(s) /\ 1 < i
  BY <1>4, <1>5, <1>6
<1>8. Follows(q, s[1], c)
  BY <1>2, <1>5, <1>7 DEF Queue, List
<1>9. Head(s) = s[1]
  BY <1>2, <1>3, TailElements DEF Queue, List
<1>10. QED BY <1>1, <1>3, <1>8, <1>9 DEF Follows, Inner, Idle, Arg

LEMMA NoDeadlockHolds ==
  ASSUME Queues
  PROVE  NoDeadlock
<1>1. SUFFICES ASSUME NEW p \in Threads, ~ Idle(p), Locked(Arg(p).entry.lock)
               PROVE  NoDeadlock
  BY DEF NoDeadlock, AllIdle
<1>2. PICK q \in Threads : \E c \in Calls(q) : c.op = "unlock"
  BY <1>1 DEF Locked, Calls
<1>3. ~ Idle(q) /\ Arg(q).op \in InnerOps
  BY <1>2, HolderMoves
<1>4. Arg(q).op \notin {"act", "cancel_interaction", "retry_cleanup", "expire"}
  BY <1>3 DEF InnerOps
<1>5. QED BY <1>3, <1>4 DEF NoDeadlock

\* While any thread has work left, one of them does not wait for an interaction's lock
\* (interaction.lock, taken in sweep, _interaction_action and retry_cleanup): whoever holds one
\* is never about to take one.
THEOREM NoDeadlockEver == Spec => []NoDeadlock
<1>1. Sound => NoDeadlock
  BY NoDeadlockHolds DEF Sound
<1>2. QED BY <1>1, Soundness, PTL

-----------------------------------------------------------------------------
(* A paused task. *)

\* How a step of any thread leaves a task's row.
Leaves(t) ==
  tasks[t].status = "paused" /\ tasks'[t].status # "paused" =>
    tasks'[t].status \in Exits \cup {tasks[t].resume_status}

LEMMA LeavesByRule ==
  ASSUME NEW t, NEW to, CanTransition(tasks[t], to), tasks'[t].status = to
  PROVE  Leaves(t)
BY DEF Leaves, CanTransition, RESUMABLE_STATUSES

\* A row written to one task.
LEMMA PutLeaves ==
  ASSUME RowsOk, NEW u \in Tasks, NEW row, Put(u, row),
         \/ tasks[u].status # "paused"
         \/ CanTransition(tasks[u], row.status)
  PROVE  \A t \in Tasks : Leaves(t)
<1>1. tasks'[u] = row /\ \A t \in Tasks \ {u} : tasks'[t] = tasks[t]
  BY DEF RowsOk, Put
<1>2. Leaves(u)
  BY <1>1, LeavesByRule DEF Leaves
<1>3. \A t \in Tasks \ {u} : Leaves(t)
  BY <1>1 DEF Leaves
<1>4. QED BY <1>2, <1>3

LEMMA StepLeaves ==
  ASSUME Sound, wiring = Static, NEW p \in Threads, Step(p)
  PROVE  \A t \in Tasks : Leaves(t)
<1>1. ~ Idle(p) => /\ DataOk /\ RowsOk /\ Ok(p, Arg(p))
                   /\ Arg(p).op \notin {"unlock", "sweep_expired"} => TaskOf(p) \in Tasks
  BY Known1
<1>2. CASE UNCHANGED tasks
  BY <1>2 DEF Leaves
<1>3. CASE _transition(p)
  <2>1. ~ Idle(p) /\ Arg(p).op = "transition"
    BY <1>3 DEF _transition, Doing, Arg
  <2>2. CASE /\ Fresh(Arg(p)) /\ CanTransition(Arg(p).row, Arg(p).to)
             /\ Put(TaskOf(p), Transitioned(Arg(p).row, Arg(p).to))
    <3>1. PICK c : c = Arg(p)
      OBVIOUS
    <3>2. c.task = TaskOf(p) /\ TaskOf(p) \in Tasks /\ ReadRow(c.row, c.task) /\ Fresh(c) /\ DataOk
      BY <1>1, <2>1, <2>2, <3>1 DEF Ok, CallOk, RowOps, TaskOf, Arg
    <3>3. c.row = tasks[c.task]
      BY <3>2, FreshRow
    <3>4. Transitioned(c.row, c.to).status = c.to
      BY DEF Transitioned
    <3>5. QED BY <1>1, <2>1, <2>2, <3>1, <3>2, <3>3, <3>4, PutLeaves
  <2>3. QED BY <1>2, <1>3, <2>2 DEF _transition, TaskOf
<1>4. CASE recover_lost_interaction(p)
  <2>1. ~ Idle(p) /\ Arg(p).op = "lost"
    BY <1>4 DEF recover_lost_interaction, Doing, Arg
  <2>2. CASE /\ Fresh(Arg(p)) /\ Arg(p).row.status = "waiting_for_user"
             /\ Put(TaskOf(p), Lost(Arg(p).row))
    <3>1. PICK c : c = Arg(p)
      OBVIOUS
    <3>2. c.task = TaskOf(p) /\ TaskOf(p) \in Tasks /\ ReadRow(c.row, c.task) /\ Fresh(c) /\ DataOk
      BY <1>1, <2>1, <2>2, <3>1 DEF Ok, CallOk, RowOps, TaskOf, Arg
    <3>3. c.row = tasks[c.task]
      BY <3>2, FreshRow
    <3>4. QED BY <1>1, <2>1, <2>2, <3>1, <3>2, <3>3, PutLeaves
  <2>3. QED BY <1>2, <1>4, <2>2 DEF recover_lost_interaction, TaskOf
<1>5. CASE hand_over(p)
  <2>1. ~ Idle(p) /\ Arg(p).op = "hand_over"
    BY <1>5 DEF hand_over, Doing, Arg
  <2>2. CASE /\ Fresh(Arg(p)) /\ CanTransition(Arg(p).row, "validating") /\ Arg(p).row.status # "validating"
             /\ Put(TaskOf(p), Transitioned(Arg(p).row, "validating"))
    <3>1. PICK c : c = Arg(p)
      OBVIOUS
    <3>2. c.task = TaskOf(p) /\ TaskOf(p) \in Tasks /\ ReadRow(c.row, c.task) /\ Fresh(c) /\ DataOk
      BY <1>1, <2>1, <2>2, <3>1 DEF Ok, CallOk, RowOps, TaskOf, Arg
    <3>3. c.row = tasks[c.task]
      BY <3>2, FreshRow
    <3>4. Transitioned(c.row, "validating").status = "validating"
      BY DEF Transitioned
    <3>5. QED BY <1>1, <2>1, <2>2, <3>1, <3>2, <3>3, <3>4, PutLeaves
  <2>3. QED BY <1>2, <1>5, <2>2 DEF hand_over, TaskOf
<1>6. CASE wait(p)
  <2>1. ~ Idle(p) /\ Arg(p).op = "wait"
    BY <1>6 DEF wait, Doing, Arg
  <2>2. CASE Fresh(Arg(p)) /\ \E row : Put(TaskOf(p), row)
    <3>1. PICK c : c = Arg(p)
      OBVIOUS
    <3>2. /\ c.task = TaskOf(p) /\ TaskOf(p) \in Tasks /\ ReadRow(c.row, c.task) /\ Fresh(c) /\ DataOk
          /\ c.row.status \in {"probing", "waiting_for_user"}
      BY <1>1, <2>1, <2>2, <3>1 DEF Ok, CallOk, RowOps, TaskOf, Arg
    <3>3. c.row = tasks[c.task]
      BY <3>2, FreshRow
    <3>4. QED BY <1>1, <2>1, <2>2, <3>1, <3>2, <3>3, PutLeaves
  <2>3. QED BY <1>2, <1>6, <2>2 DEF wait, TaskOf
<1>7. CASE \/ _store_result_handle(p) \/ _drop(p) \/ _release_lease(p) \/ _clear_if_terminal(p)
           \/ _apply_result(p) \/ _schedule_or_fail(p) \/ _best_effort_cancel(p) \/ abandon(p)
           \/ _act(p) \/ operation(p) \/ cancel_interaction(p) \/ cancel_operation(p)
           \/ sweep(p) \/ sweep_terminal(p) \/ sweep_expired(p) \/ expire(p) \/ expired(p)
           \/ _reserve_capacity(p) \/ check(p) \/ resolve_task(p) \/ _release_reservation(p)
           \/ close_entry(p)
  <2>1. UNCHANGED tasks
    BY <1>7 DEF _store_result_handle, _drop, _release_lease, _clear_if_terminal, _apply_result, _schedule_or_fail,
         _best_effort_cancel, abandon, _act, operation, cancel_interaction, cancel_operation, sweep, sweep_terminal,
         sweep_expired, expire, expired, _reserve_capacity, check, resolve_task, _release_reservation, close_entry,
         Decides, data
  <2>2. QED BY <1>2, <2>1
<1>8. QED BY <1>3, <1>4, <1>5, <1>6, <1>7, NoBrowser DEF Step

LEMMA RequestLeaves ==
  ASSUME Sound, wiring = Static, NEW u \in Tasks, Request(u)
  PROVE  \A t \in Tasks : Leaves(t)
<1>0. RowsOk
  BY DEF Sound, StaticOk, DataOk
<1>1. \A x : Transitioned(tasks[u], x).status = x
  BY DEF Transitioned
<1>2. CASE probe_handler(u)
  <2>1. tasks[u].status # "paused" /\ \E row : Put(u, row)
    BY <1>2 DEF probe_handler
  <2>2. QED BY <1>0, <2>1, PutLeaves
<1>3. CASE work(u) \/ pause_task(u) \/ cancel_task(u) \/ resume_task(u)
  <2>1. \E to : CanTransition(tasks[u], to) /\ Put(u, Transitioned(tasks[u], to))
    BY <1>3 DEF work, pause_task, cancel_task, resume_task, Control
  <2>2. QED BY <1>0, <1>1, <2>1, PutLeaves
<1>4. CASE UNCHANGED tasks
  BY <1>4 DEF Leaves
<1>5. QED BY <1>2, <1>3, <1>4 DEF Request, _interaction_action, lease_expires, deadline_passes, data

\* A late answer never moves a task somebody has paused (the version checks of probe_handler,
\* _apply_result and the transitions they call): it leaves the pause for the status it was
\* paused in, or for good.
THEOREM PausedStays == Spec => PausedStaysPaused
<1>1. Sound /\ [Next]_vars =>
        [wiring = Static => \A t \in Tasks :
           tasks[t].status = "paused" /\ tasks'[t].status # "paused" =>
             tasks'[t].status \in Exits \cup {tasks[t].resume_status}]_vars
  <2>1. SUFFICES ASSUME Sound, [Next]_vars, wiring = Static PROVE \A t \in Tasks : Leaves(t)
    BY DEF Leaves
  <2>2. CASE restart
    <3>1. ASSUME NEW t \in Tasks, tasks[t].status = "paused" PROVE tasks'[t] = tasks[t]
      BY <2>2, <3>1 DEF restart, Recovered, ACTIVE_STATUSES
    <3>2. QED BY <3>1 DEF Leaves
  <2>3. CASE UNCHANGED tasks
    BY <2>3 DEF Leaves
  <2>4. QED BY <2>1, <2>2, <2>3, StepLeaves, RequestLeaves DEF Next, close, data, vars
<1>2. QED BY <1>1, Soundness, PTL DEF Spec, PausedStaysPaused

=============================================================================
