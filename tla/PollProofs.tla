----------------------------- MODULE PollProofs -----------------------------
(***************************************************************************)
(* Proofs about the scheduler of module Poll, for any set of tasks,        *)
(* notifiers, descriptors and timeouts, and about the signal guards of     *)
(* module SignalGuard, for any guards, waiting tasks and signals, and any  *)
(* number of signals caught.                                               *)
(***************************************************************************)
EXTENDS Poll, SignalGuard, FiniteSetTheorems, SequenceLemmas, TLAPS

-----------------------------------------------------------------------------
(***************************************************************************)
(* Facts about the queues of wakes.                                        *)
(***************************************************************************)
(* A wake queued: table[#table + 1] = wake.                                *)
LEMMA AppendWake ==
  ASSUME NEW q \in Seq(Wake), NEW w \in Wake
  PROVE  /\ Append(q, w) \in Seq(Wake)
         /\ ToSet(Append(q, w)) = ToSet(q) \cup {w}
         /\ \A t : Queued(Append(q, w), t) <=> Queued(q, t) \/ t = w.task
         /\ Once(q) /\ ~Queued(q, w.task) => Once(Append(q, w))
<1>1. Append(q, w) \in Seq(Wake)
  OBVIOUS
<1>2. ToSet(Append(q, w)) = ToSet(q) \cup {w}
  BY ToSetAppend
<1>3. \A t : Queued(Append(q, w), t) <=> Queued(q, t) \/ t = w.task
  BY <1>2 DEF Queued
<1>4. Once(q) /\ ~Queued(q, w.task) => Once(Append(q, w))
  BY DEF Once, Queued, ToSet
<1> QED
  BY <1>1, <1>2, <1>3, <1>4

(* Two queues one after the other.                                         *)
LEMMA ConcatWakes ==
  ASSUME NEW q \in Seq(Wake), NEW r \in Seq(Wake)
  PROVE  /\ q \o r \in Seq(Wake)
         /\ ToSet(q \o r) = ToSet(q) \cup ToSet(r)
         /\ \A t : Queued(q \o r, t) <=> Queued(q, t) \/ Queued(r, t)
         /\ Once(q) /\ Once(r) /\ (\A t : ~(Queued(q, t) /\ Queued(r, t)))
               => Once(q \o r)
<1>1. q \o r \in Seq(Wake)
  OBVIOUS
<1>2. ToSet(q \o r) = ToSet(q) \cup ToSet(r)
  <2>1. ASSUME NEW x \in ToSet(q \o r) PROVE x \in ToSet(q) \cup ToSet(r)
    BY <2>1 DEF ToSet
  <2>2. ASSUME NEW x \in ToSet(q) PROVE x \in ToSet(q \o r)
    BY <2>2 DEF ToSet
  <2>3. ASSUME NEW x \in ToSet(r) PROVE x \in ToSet(q \o r)
    <3>1. PICK i \in DOMAIN r : r[i] = x
      BY <2>3 DEF ToSet
    <3>2. /\ Len(q) + i \in DOMAIN (q \o r)
          /\ (q \o r)[Len(q) + i] = x
      BY <3>1
    <3> QED
      BY <3>2 DEF ToSet
  <2> QED
    BY <2>1, <2>2, <2>3
<1>3. \A t : Queued(q \o r, t) <=> Queued(q, t) \/ Queued(r, t)
  BY <1>2 DEF Queued
<1>4. ASSUME Once(q), Once(r), \A t : ~(Queued(q, t) /\ Queued(r, t))
      PROVE  Once(q \o r)
  <2> DEFINE c == q \o r
  <2>1. /\ DOMAIN q = 1 .. Len(q) /\ DOMAIN r = 1 .. Len(r)
        /\ Len(q) \in Nat /\ Len(r) \in Nat
        /\ DOMAIN c = 1 .. (Len(q) + Len(r))
        /\ \A i \in DOMAIN q : c[i] = q[i]
        /\ \A i \in DOMAIN c : i \notin DOMAIN q =>
              i - Len(q) \in DOMAIN r /\ c[i] = r[i - Len(q)]
    BY ConcatProperties
  <2> HIDE DEF c
  <2>2. \A i \in DOMAIN q, j \in DOMAIN r : q[i].task # r[j].task
    BY <1>4 DEF Queued, ToSet
  <2>3. SUFFICES ASSUME NEW i \in DOMAIN c, NEW j \in DOMAIN c,
                        c[i].task = c[j].task
                 PROVE  i = j
    BY DEF Once, c
  <2>4. CASE i \in DOMAIN q /\ j \in DOMAIN q
    BY <1>4, <2>1, <2>3, <2>4 DEF Once
  <2>5. CASE i \notin DOMAIN q /\ j \notin DOMAIN q
    <3>1. i - Len(q) = j - Len(q)
      BY <1>4, <2>1, <2>3, <2>5 DEF Once
    <3> QED
      BY <2>1, <3>1
  <2>6. CASE i \in DOMAIN q /\ j \notin DOMAIN q
    BY <2>1, <2>2, <2>3, <2>6
  <2>7. CASE i \notin DOMAIN q /\ j \in DOMAIN q
    BY <2>1, <2>2, <2>3, <2>7
  <2> QED
    BY <2>4, <2>5, <2>6, <2>7
<1> QED
  BY <1>1, <1>2, <1>3, <1>4

(* The wakes of the tasks of a list, all with one answer.                  *)
WakesOf(q, a, n) == [i \in DOMAIN q |-> WakeOf(q[i], a, n)]

LEMMA WakesOfList ==
  ASSUME NEW q \in Seq(Task), NEW a \in Answers, NEW n \in Notifier \cup {None}
  PROVE  /\ WakesOf(q, a, n) \in Seq(Wake)
         /\ \A w \in ToSet(WakesOf(q, a, n)) :
              w.task \in ToSet(q) /\ w.answer = a /\ w.notice = n
         /\ \A t : Queued(WakesOf(q, a, n), t) <=> t \in ToSet(q)
         /\ IsInjective(q) => Once(WakesOf(q, a, n))
<1>1. WakesOf(q, a, n) \in Seq(Wake)
  <2>1. \A i \in 1 .. Len(q) : WakeOf(q[i], a, n) \in Wake
    BY DEF WakeOf, Wake
  <2> QED
    BY <2>1 DEF WakesOf
<1>2. \A w \in ToSet(WakesOf(q, a, n)) :
              w.task \in ToSet(q) /\ w.answer = a /\ w.notice = n
  BY DEF WakesOf, WakeOf, ToSet
<1>3. \A t : Queued(WakesOf(q, a, n), t) <=> t \in ToSet(q)
  <2> DEFINE r == WakesOf(q, a, n)
  <2>1. DOMAIN r = DOMAIN q /\ \A i \in DOMAIN q : r[i].task = q[i]
    BY DEF WakesOf, WakeOf
  <2> HIDE DEF r
  <2>2. \A t : Queued(r, t) <=> t \in ToSet(q)
    BY <2>1 DEF ToSet, Queued
  <2> QED
    BY <2>2 DEF r
<1>4. IsInjective(q) => Once(WakesOf(q, a, n))
  BY DEF WakesOf, WakeOf, IsInjective, Once
<1> QED
  BY <1>1, <1>2, <1>3, <1>4

(* A killed task's wake taken out of a queue.                              *)
LEMMA DropWake ==
  ASSUME NEW q \in Seq(Wake), NEW i \in DOMAIN q, Once(q)
  PROVE  /\ RemoveAt(q, i) \in Seq(Wake)
         /\ ToSet(RemoveAt(q, i)) \subseteq ToSet(q)
         /\ \A t : Queued(RemoveAt(q, i), t) <=> Queued(q, t) /\ t # q[i].task
         /\ Once(RemoveAt(q, i))
<1> DEFINE r == RemoveAt(q, i)
<1>1. /\ r \in Seq(Wake) /\ Len(r) = Len(q) - 1
      /\ \A j \in 1 .. (Len(q) - 1) : r[j] = IF j < i THEN q[j] ELSE q[j + 1]
  BY RemoveAtPlaces
<1> HIDE DEF r
<1>2. ToSet(r) \subseteq ToSet(q)
  BY <1>1 DEF ToSet
<1>3. \A j \in DOMAIN r : r[j].task # q[i].task
  BY <1>1 DEF Once
<1>4. Once(r)
  BY RemoveAtSource DEF Once, r
<1>5. ASSUME NEW t, Queued(q, t), t # q[i].task PROVE Queued(r, t)
  <2>1. PICK k \in DOMAIN q : q[k].task = t
    BY <1>5 DEF Queued, ToSet
  <2>2. k # i
    BY <1>5, <2>1
  <2>3. CASE k < i
    <3>1. k \in DOMAIN r /\ r[k] = q[k]
      BY <1>1, <2>3
    <3> QED
      BY <3>1, <2>1 DEF Queued, ToSet
  <2>4. CASE k > i
    <3>1. k - 1 \in DOMAIN r /\ r[k - 1] = q[k]
      BY <1>1, <2>4
    <3> QED
      BY <3>1, <2>1 DEF Queued, ToSet
  <2> QED
    BY <2>2, <2>3, <2>4
<1>6. \A t : Queued(r, t) <=> Queued(q, t) /\ t # q[i].task
  BY <1>2, <1>3, <1>5 DEF Queued, ToSet
<1> QED
  BY <1>1, <1>2, <1>4, <1>6 DEF r

(* The next wake taken from a queue.                                       *)
LEMMA TailWake ==
  ASSUME NEW q \in Seq(Wake), q # <<>>, Once(q)
  PROVE  /\ Head(q) \in Wake /\ Head(q) \in ToSet(q)
         /\ Tail(q) \in Seq(Wake)
         /\ ToSet(Tail(q)) \subseteq ToSet(q)
         /\ \A t : Queued(Tail(q), t) <=> Queued(q, t) /\ t # Head(q).task
         /\ Once(Tail(q))
<1> DEFINE r == Tail(q)
<1>1. /\ Head(q) \in Wake /\ Head(q) = q[1] /\ 1 \in DOMAIN q
      /\ r \in Seq(Wake) /\ Len(q) \in Nat
      /\ DOMAIN q = 1 .. Len(q) /\ DOMAIN r = 1 .. (Len(q) - 1)
      /\ \A j \in DOMAIN r : j + 1 \in DOMAIN q /\ r[j] = q[j + 1]
  BY HeadTailProperties
<1> HIDE DEF r
<1>2. ToSet(r) \subseteq ToSet(q) /\ Head(q) \in ToSet(q)
  BY <1>1 DEF ToSet
<1>3. \A j \in DOMAIN r : r[j].task # q[1].task
  BY <1>1 DEF Once
<1>4. Once(r)
  BY <1>1 DEF Once
<1>5. ASSUME NEW t, Queued(q, t), t # q[1].task PROVE Queued(r, t)
  <2>1. PICK k \in DOMAIN q : q[k].task = t
    BY <1>5 DEF Queued, ToSet
  <2>2. k - 1 \in DOMAIN r /\ r[k - 1] = q[k]
    BY <1>1, <1>5, <2>1
  <2> QED
    BY <2>1, <2>2 DEF Queued, ToSet
<1>6. ASSUME NEW t, Queued(r, t) PROVE Queued(q, t) /\ t # q[1].task
  BY <1>2, <1>3, <1>6 DEF Queued, ToSet
<1> QED
  BY <1>1, <1>2, <1>4, <1>5, <1>6 DEF r

-----------------------------------------------------------------------------
(***************************************************************************)
(* The same of the lists of waiters and joiners.                           *)
(***************************************************************************)
(* A task that begins a wait goes last.                                    *)
LEMMA AppendTask ==
  ASSUME NEW s \in Seq(Task), NEW t \in Task
  PROVE  /\ Append(s, t) \in Seq(Task)
         /\ ToSet(Append(s, t)) = ToSet(s) \cup {t}
         /\ IsInjective(s) /\ t \notin ToSet(s) => IsInjective(Append(s, t))
BY ToSetAppend, AppendOnce

(* A task whose wait ends otherwise is taken out.                          *)
LEMMA WithoutTask ==
  ASSUME NEW s \in Seq(Task), IsInjective(s), NEW t
  PROVE  /\ Without(s, t) \in Seq(Task)
         /\ ToSet(Without(s, t)) = ToSet(s) \ {t}
         /\ IsInjective(Without(s, t))
<1>1. CASE t \notin ToSet(s)
  BY <1>1 DEF Without
<1>2. CASE t \in ToSet(s)
  <2> DEFINE i == CHOOSE k \in DOMAIN s : s[k] = t
  <2>1. i \in DOMAIN s /\ s[i] = t
    BY <1>2 DEF ToSet
  <2>2. Without(s, t) = RemoveAt(s, i)
    BY <1>2 DEF Without
  <2> HIDE DEF i
  <2> QED
    BY <2>1, <2>2, RemoveAtPlaces, RemoveEntry
<1> QED
  BY <1>1, <1>2

(* The first waiter is taken out.                                          *)
LEMMA TailTask ==
  ASSUME NEW s \in Seq(Task), IsInjective(s), s # <<>>
  PROVE  /\ Head(s) \in Task /\ Head(s) \in ToSet(s)
         /\ Tail(s) \in Seq(Task)
         /\ ToSet(Tail(s)) = ToSet(s) \ {Head(s)}
         /\ IsInjective(Tail(s))
BY TailEntry
-----------------------------------------------------------------------------
(***************************************************************************)
(* The inductive invariant.  Shapes is what the promises of Poll lack to   *)
(* be inductive: a parked wait is of the kind its fields say, the order of *)
(* waits is strict, and nothing is left of a batch once the loop polls.    *)
(* Unstarted says that a task not yet spawned has left no trace.           *)
(***************************************************************************)
WaitShape(w) ==
  /\ w.kind # "none"
  /\ w.kind \in {"fd", "ready"} <=> w.fds # {}
  /\ w.kind = "notice" <=> w.gate # None
  /\ w.kind = "join" <=> w.joined # None
  /\ w.kind = "delay" => w.at # None

Shapes ==
  /\ \A t \in parked : WaitShape(wait[t])
  /\ \A p \in before : p[1] # p[2]
  /\ phase = "expire" => batch = <<>> /\ current = None

Unstarted ==
  /\ killed \subseteq tasks \cup ended
  /\ \A t \in Task : Queued(batch, t) => t \in tasks \cup ended
  /\ \A t \in Task \ (tasks \cup ended) : wait[t] = NoWait

IInv == /\ TypeOK /\ OnePlace /\ ListsExact /\ LiveCount
        /\ CancelledNotParked /\ Truthful /\ Shapes /\ Unstarted

-----------------------------------------------------------------------------
(***************************************************************************)
(* What answering waits does.  Woken says that the tasks S were parked and *)
(* are queued once each, with answer a, behind the queue q.                *)
(***************************************************************************)
Woken(S, q, a) ==
  /\ S \subseteq parked /\ parked' = parked \ S
  /\ before' \subseteq before /\ before' \subseteq parked' \X parked'
  /\ ready' \in Seq(Wake) /\ Once(ready')
  /\ \A t : Queued(ready', t) <=> Queued(q, t) \/ t \in S
  /\ \A w \in ToSet(ready') : w \in ToSet(q) \/ (w.task \in S /\ w.answer = a)

(* A queue no parked task has a wake in.                                   *)
Unqueued(q) == q \in Seq(Wake) /\ Once(q) /\ \A t \in parked : ~Queued(q, t)

(* The tasks of a sorted list of waits are each in it once.                *)
LEMMA InOrderList ==
  ASSUME TypeOK, Shapes, NEW S \in SUBSET parked, NEW q \in InOrder(S)
  PROVE  q \in Seq(Task) /\ IsInjective(q) /\ ToSet(q) = S
<1>1. Cardinality(S) \in Nat
  BY TaskAssumption, FS_Subset, FS_CardinalityType DEF TypeOK
<1>2. q \in [1 .. Cardinality(S) -> S] /\ S \subseteq Task
  BY DEF InOrder, TypeOK
<1>3. q \in Seq(Task)
  BY <1>1, <1>2
<1>4. ToSet(q) = S
  BY <1>2 DEF InOrder, ToSet
<1>5. \A i, j \in DOMAIN q : i < j => q[i] # q[j]
  <2>1. SUFFICES ASSUME NEW i \in DOMAIN q, NEW j \in DOMAIN q, i < j,
                        q[i] = q[j]
                 PROVE  FALSE
    OBVIOUS
  <2>2. <<q[i], q[j]>> \in before
    BY <2>1 DEF InOrder
  <2> QED
    BY <2>1, <2>2 DEF Shapes
<1>6. IsInjective(q)
  BY <1>1, <1>2, <1>5 DEF IsInjective
<1> QED
  BY <1>3, <1>4, <1>6

(* AnswerAll answers the tasks of its list.                                *)
LEMMA AnswerAllWakes ==
  ASSUME TypeOK, Unqueued(ready), NEW q \in Seq(Task), IsInjective(q),
         ToSet(q) \subseteq parked,
         NEW a \in Answers, NEW n \in Notifier \cup {None}, AnswerAll(q, a, n)
  PROVE  Woken(ToSet(q), ready, a)
<1> DEFINE r == WakesOf(q, a, n)
<1>1. /\ r \in Seq(Wake) /\ Once(r)
      /\ \A t : Queued(r, t) <=> t \in ToSet(q)
      /\ \A w \in ToSet(r) : w.task \in ToSet(q) /\ w.answer = a
  BY WakesOfList
<1>2. ready' = ready \o r
  BY DEF AnswerAll, WakesOf
<1> HIDE DEF r
<1>3. \A t : ~(Queued(ready, t) /\ Queued(r, t))
  BY <1>1 DEF Unqueued
<1>4. /\ ready' \in Seq(Wake) /\ Once(ready')
      /\ \A t : Queued(ready', t) <=> Queued(ready, t) \/ t \in ToSet(q)
      /\ ToSet(ready') = ToSet(ready) \cup ToSet(r)
  BY <1>1, <1>2, <1>3, ConcatWakes DEF Unqueued
<1>5. /\ parked' = parked \ ToSet(q)
      /\ before' = {p \in before : ToSet(q) \cap {p[1], p[2]} = {}}
  BY DEF AnswerAll
<1>6. before' \subseteq before /\ before' \subseteq parked' \X parked'
  BY <1>5 DEF TypeOK
<1> QED
  BY <1>1, <1>4, <1>5, <1>6 DEF Woken

(* Finish takes a wait from the lists it is in, and no other.              *)
ListsOf(P) ==
  /\ joiners' \in [Task -> Seq(Task)] /\ waiters' \in [Notifier -> Seq(Task)]
  /\ \A n \in Notifier : /\ IsInjective(waiters'[n])
                         /\ ToSet(waiters'[n]) = {t \in P : wait[t].gate = n}
  /\ \A u \in Task : /\ IsInjective(joiners'[u])
                     /\ ToSet(joiners'[u]) = {t \in P : wait[t].joined = u}

LEMMA FinishLists ==
  ASSUME TypeOK, OnePlace, ListsExact, NEW t \in parked, Finish(t)
  PROVE  /\ ListsOf(parked')
         /\ parked' = parked \ {t}
         /\ before' \subseteq before /\ before' \subseteq parked' \X parked'
<1>1. /\ parked' = parked \ {t}
      /\ before' = {p \in before : t \notin {p[1], p[2]}}
  BY DEF Finish
<1>2. before' \subseteq before /\ before' \subseteq parked' \X parked'
  BY <1>1 DEF TypeOK
<1>3. t \in Task /\ wait[t] \in Wait
  BY DEF TypeOK
<1>4. ASSUME NEW n \in Notifier
      PROVE  /\ waiters'[n] \in Seq(Task) /\ IsInjective(waiters'[n])
             /\ ToSet(waiters'[n]) = {x \in parked' : wait[x].gate = n}
  <2>1. /\ waiters[n] \in Seq(Task) /\ IsInjective(waiters[n])
        /\ ToSet(waiters[n]) = {x \in parked : wait[x].gate = n}
    BY DEF TypeOK, ListsExact
  <2>2. CASE wait[t].gate = n
    <3>1. waiters'[n] = Without(waiters[n], t)
      BY <2>2, NoneAssumption DEF Finish, TypeOK
    <3> QED
      BY <1>1, <2>1, <3>1, WithoutTask
  <2>3. CASE wait[t].gate # n
    <3>1. waiters'[n] = waiters[n]
      BY <2>3 DEF Finish, TypeOK
    <3> QED
      BY <1>1, <2>1, <2>3, <3>1
  <2> QED
    BY <2>2, <2>3
<1>5. ASSUME NEW u \in Task
      PROVE  /\ joiners'[u] \in Seq(Task) /\ IsInjective(joiners'[u])
             /\ ToSet(joiners'[u]) = {x \in parked' : wait[x].joined = u}
  <2>1. /\ joiners[u] \in Seq(Task) /\ IsInjective(joiners[u])
        /\ ToSet(joiners[u]) = {x \in parked : wait[x].joined = u}
    BY DEF TypeOK, ListsExact
  <2>2. CASE wait[t].joined = u
    <3>1. u \in Task \ ended
      BY <2>2, NoneAssumption DEF ListsExact, OnePlace
    <3>2. joiners'[u] = Without(joiners[u], t)
      BY <2>2, <3>1 DEF Finish, TypeOK
    <3> QED
      BY <1>1, <2>1, <3>2, WithoutTask
  <2>3. CASE wait[t].joined # u
    <3>1. joiners'[u] = joiners[u]
      BY <2>3 DEF Finish, TypeOK
    <3> QED
      BY <1>1, <2>1, <2>3, <3>1
  <2> QED
    BY <2>2, <2>3
<1>6. DOMAIN waiters' = Notifier /\ DOMAIN joiners' = Task
  BY DEF Finish, TypeOK
<1>7. waiters' \in [Notifier -> Seq(Task)]
  <2>1. waiters' = [n \in Notifier |-> waiters'[n]]
    BY <1>6 DEF Finish, TypeOK
  <2> QED
    BY <1>4, <2>1
<1>8. joiners' \in [Task -> Seq(Task)]
  <2>1. joiners' = [u \in Task |-> joiners'[u]]
    BY <1>6 DEF Finish, TypeOK
  <2> QED
    BY <1>5, <2>1
<1> QED
  BY <1>1, <1>2, <1>4, <1>5, <1>7, <1>8 DEF ListsOf

(* Answer answers one task.                                                *)
LEMMA AnswerWakes ==
  ASSUME TypeOK, OnePlace, ListsExact, Unqueued(ready),
         NEW t \in parked, NEW a \in Answers, Answer(t, a)
  PROVE  Woken({t}, ready, a) /\ ListsOf(parked')
<1>1. /\ ListsOf(parked') /\ parked' = parked \ {t}
      /\ before' \subseteq before /\ before' \subseteq parked' \X parked'
  BY FinishLists DEF Answer
<1> DEFINE w == WakeOf(t, a, None)
<1>2. w \in Wake /\ w.task = t /\ w.answer = a
  BY DEF WakeOf, Wake, TypeOK
<1>3. ready' = Append(ready, w)
  BY DEF Answer
<1> HIDE DEF w
<1>4. /\ ready' \in Seq(Wake) /\ Once(ready')
      /\ \A u : Queued(ready', u) <=> Queued(ready, u) \/ u = t
      /\ ToSet(ready') = ToSet(ready) \cup {w}
  BY <1>2, <1>3, AppendWake DEF Unqueued
<1> QED
  BY <1>1, <1>2, <1>4 DEF Woken

(* HandOn answers the first waiter, if there is one.                       *)
LEMMA HandOnWakes ==
  ASSUME TypeOK, ListsExact, NEW n \in Notifier, NEW q, Unqueued(q), HandOn(n, q)
  PROVE  \E S \in SUBSET parked :
           /\ Woken(S, q, "ok")
           /\ \A t \in S : wait[t].gate = n
           /\ waiters' \in [Notifier -> Seq(Task)]
           /\ \A m \in Notifier :
                /\ IsInjective(waiters'[m])
                /\ ToSet(waiters'[m]) = {t \in parked' : wait[t].gate = m}
<1>1. CASE waiters[n] = <<>>
  <2>1. /\ ready' = q /\ parked' = parked /\ before' = before
        /\ waiters' = waiters
    BY <1>1 DEF HandOn
  <2>2. Woken({}, q, "ok")
    BY <2>1 DEF Woken, Unqueued, TypeOK
  <2>3. /\ {} \in SUBSET parked /\ \A t \in {} : wait[t].gate = n
        /\ waiters' \in [Notifier -> Seq(Task)]
        /\ \A m \in Notifier :
             /\ IsInjective(waiters'[m])
             /\ ToSet(waiters'[m]) = {t \in parked' : wait[t].gate = m}
    BY <2>1 DEF TypeOK, ListsExact
  <2> QED
    BY <2>2, <2>3
<1>2. CASE waiters[n] # <<>>
  <2> DEFINE first == Head(waiters[n])
             w == WakeOf(first, "ok", n)
  <2>1. /\ waiters' = [waiters EXCEPT ![n] = Tail(waiters[n])]
        /\ parked' = parked \ {first}
        /\ before' = {p \in before : first \notin {p[1], p[2]}}
        /\ ready' = Append(q, w)
    BY <1>2 DEF HandOn
  <2>2. /\ waiters[n] \in Seq(Task) /\ IsInjective(waiters[n])
        /\ ToSet(waiters[n]) = {t \in parked : wait[t].gate = n}
    BY DEF TypeOK, ListsExact
  <2>3. /\ first \in Task /\ first \in ToSet(waiters[n])
        /\ Tail(waiters[n]) \in Seq(Task)
        /\ ToSet(Tail(waiters[n])) = ToSet(waiters[n]) \ {first}
        /\ IsInjective(Tail(waiters[n]))
    BY <1>2, <2>2, TailTask
  <2>4. first \in parked /\ wait[first].gate = n
    BY <2>2, <2>3
  <2>5. w \in Wake /\ w.task = first /\ w.answer = "ok"
    BY <2>3 DEF WakeOf, Wake, Answers
  <2> HIDE DEF first, w
  <2>6. /\ ready' \in Seq(Wake) /\ Once(ready')
        /\ \A u : Queued(ready', u) <=> Queued(q, u) \/ u = first
        /\ ToSet(ready') = ToSet(q) \cup {w}
    BY <2>1, <2>4, <2>5, AppendWake DEF Unqueued
  <2>7. before' \subseteq before /\ before' \subseteq parked' \X parked'
    BY <2>1 DEF TypeOK
  <2>8. Woken({first}, q, "ok")
    BY <2>1, <2>4, <2>5, <2>6, <2>7 DEF Woken
  <2>9. waiters' \in [Notifier -> Seq(Task)]
    BY <2>1, <2>3 DEF TypeOK
  <2>10. ASSUME NEW m \in Notifier
         PROVE  /\ IsInjective(waiters'[m])
                /\ ToSet(waiters'[m]) = {t \in parked' : wait[t].gate = m}
    <3>1. CASE m = n
      BY <2>1, <2>2, <2>3, <3>1 DEF TypeOK
    <3>2. CASE m # n
      <4>1. waiters'[m] = waiters[m]
        BY <2>1, <3>2 DEF TypeOK
      <4> QED
        BY <2>1, <2>4, <3>2, <4>1 DEF ListsExact
    <3> QED
      BY <3>1, <3>2
  <2>11. {first} \in SUBSET parked /\ \A t \in {first} : wait[t].gate = n
    BY <2>4
  <2> QED
    BY <2>8, <2>9, <2>10, <2>11
<1> QED
  BY <1>1, <1>2
-----------------------------------------------------------------------------
(***************************************************************************)
(* The steps.                                                              *)
(***************************************************************************)
LEMMA ReadyFree ==
  ASSUME TypeOK, OnePlace
  PROVE  Unqueued(ready)
  BY DEF Unqueued, TypeOK, OnePlace

(* A step that only answers waits, truly, keeps the invariant.             *)
LEMMA WakeStep ==
  ASSUME IInv, NEW S, NEW a, Woken(S, ready, a), ListsOf(parked'),
         UNCHANGED <<run, killing, current, tasks, live, ended, killed,
                     shields, wait, now>>,
         batch' \in Seq(Wake), Once(batch'), ToSet(batch') \subseteq ToSet(batch),
         \A t \in tasks : Queued(batch', t) <=> Queued(batch, t),
         phase' \in {"batch", "expire"},
         phase' = "expire" => batch' = <<>> /\ current = None,
         cancelled \subseteq cancelled', cancelled' \subseteq Task,
         \A t \in parked' : t \in cancelled' => shields[t] > 0,
         \A w \in Wake : w.task \in S /\ w.answer = a => TrueWake(w)'
  PROVE  IInv'
<1>1. TypeOK'
  BY DEF IInv, TypeOK, Woken, ListsOf
<1>2. OnePlace'
  <2>1. \A t : Queued(batch', t) => Queued(batch, t)
    BY DEF Queued
  <2>2. parked' \subseteq parked /\ S \subseteq tasks /\ tasks \subseteq Task
    BY DEF Woken, IInv, OnePlace, TypeOK
  <2>3. \A t \in tasks' :
         \/ t \in {current', killing'} \cup parked'
         \/ Queued(ready', t) \/ Queued(batch', t)
    BY DEF IInv, OnePlace, Woken
  <2>4. \A t \in Task : Queued(ready', t) => t \in tasks' /\ ~Queued(batch', t)
    BY <2>1, <2>2 DEF IInv, OnePlace, Woken
  <2>5. \A t \in parked' : ~Queued(ready', t) /\ ~Queued(batch', t)
    BY <2>1 DEF IInv, OnePlace, Woken
  <2>6. current' # None => /\ current' \in tasks' \ parked'
                           /\ ~Queued(ready', current') /\ ~Queued(batch', current')
    BY <2>1, <2>2 DEF IInv, OnePlace, Woken
  <2>7. killing' # None => /\ current' \notin {None, killing'}
                           /\ killing' \in (tasks' \cap killed') \ parked'
                           /\ ~Queued(ready', killing')
    BY <2>2 DEF IInv, OnePlace, Woken
  <2> QED
    BY <2>2, <2>3, <2>4, <2>5, <2>6, <2>7 DEF IInv, OnePlace, Woken
<1>3. ListsExact'
  BY DEF IInv, ListsExact, ListsOf, Woken
<1>4. LiveCount'
  BY DEF IInv, LiveCount
<1>5. CancelledNotParked'
  BY DEF CancelledNotParked
<1>6. Truthful'
  <2>1. SUFFICES ASSUME NEW w \in ToSet(ready') \cup ToSet(batch') PROVE TrueWake(w)'
    BY DEF Truthful
  <2>2. w \in Wake
    BY <1>1, <2>1 DEF TypeOK, ToSet
  <2>3. CASE w \in ToSet(ready) \cup ToSet(batch)
    <3>1. TrueWake(w)
      BY <2>3 DEF IInv, Truthful
    <3> QED
      BY <3>1 DEF TrueWake
  <2>4. CASE w.task \in S /\ w.answer = a
    BY <2>2, <2>4
  <2> QED
    BY <2>1, <2>3, <2>4 DEF Woken
<1>7. Shapes'
  BY DEF IInv, Shapes, Woken
<1>8. Unstarted'
  BY DEF IInv, Unstarted, Queued
<1> QED
  BY <1>1, <1>2, <1>3, <1>4, <1>5, <1>6, <1>7, <1>8 DEF IInv

(* Lists of waits that lose only the waiters of one notifier, or none.     *)
LEMMA ListsKeepJoiners ==
  ASSUME TypeOK, ListsExact, Shapes, UNCHANGED joiners,
         NEW S \in SUBSET parked, parked' = parked \ S,
         \A t \in S : wait[t].kind # "join",
         waiters' \in [Notifier -> Seq(Task)],
         \A m \in Notifier :
           /\ IsInjective(waiters'[m])
           /\ ToSet(waiters'[m]) = {t \in parked' : wait[t].gate = m}
  PROVE  ListsOf(parked')
<1>1. \A t \in S : wait[t].joined = None
  BY DEF Shapes, WaitShape
<1>2. \A u \in Task : {t \in parked' : wait[t].joined = u}
                        = {t \in parked : wait[t].joined = u}
  BY <1>1, NoneAssumption
<1> QED
  BY <1>2 DEF ListsOf, TypeOK, ListsExact

(* A wake by a descriptor or a notice is true of any wait that is neither  *)
(* a join nor a delay.                                                     *)
LEMMA OkIsTrue ==
  ASSUME NEW S, UNCHANGED wait, \A t \in S : wait[t].kind \notin {"join", "delay"}
  PROVE  \A w \in Wake : w.task \in S /\ w.answer = "ok" => TrueWake(w)'
  BY DEF TrueWake

LEMMA NotifyOneStep ==
  ASSUME IInv, NEW n \in Notifier, NotifyOne(n)
  PROVE  IInv'
<1>1. PICK S \in SUBSET parked :
           /\ Woken(S, ready, "ok")
           /\ \A t \in S : wait[t].gate = n
           /\ waiters' \in [Notifier -> Seq(Task)]
           /\ \A m \in Notifier :
                /\ IsInjective(waiters'[m])
                /\ ToSet(waiters'[m]) = {t \in parked' : wait[t].gate = m}
  BY HandOnWakes, ReadyFree DEF IInv, NotifyOne
<1>2. \A t \in S : wait[t].kind = "notice"
  BY <1>1, NoneAssumption DEF IInv, Shapes, WaitShape
<1>3. ListsOf(parked')
  BY <1>1, <1>2, ListsKeepJoiners DEF IInv, NotifyOne, Woken
<1>4. \A w \in Wake : w.task \in S /\ w.answer = "ok" => TrueWake(w)'
  BY <1>2, OkIsTrue DEF NotifyOne
<1>5. UNCHANGED <<run, phase, killing, current, tasks, live, ended, killed,
                 cancelled, shields, wait, batch, now>>
  BY DEF NotifyOne, settled
<1>6. /\ batch' \in Seq(Wake) /\ Once(batch') /\ ToSet(batch') \subseteq ToSet(batch)
      /\ \A u \in tasks : Queued(batch', u) <=> Queued(batch, u)
      /\ phase' \in {"batch", "expire"}
      /\ phase' = "expire" => batch' = <<>> /\ current = None
  BY <1>5 DEF IInv, TypeOK, OnePlace, Shapes
<1>7. /\ cancelled \subseteq cancelled' /\ cancelled' \subseteq Task
      /\ \A u \in parked' : u \in cancelled' => shields[u] > 0
  BY <1>1, <1>5 DEF IInv, TypeOK, CancelledNotParked, Woken
<1> QED
  BY <1>1, <1>3, <1>4, <1>5, <1>6, <1>7, WakeStep

LEMMA NotifyAllStep ==
  ASSUME IInv, NEW n \in Notifier, NotifyAll(n)
  PROVE  IInv'
<1> DEFINE S == ToSet(waiters[n])
<1>1. /\ waiters[n] \in Seq(Task) /\ IsInjective(waiters[n])
      /\ S = {t \in parked : wait[t].gate = n}
  BY DEF IInv, TypeOK, ListsExact
<1>2. Woken(S, ready, "ok")
  BY <1>1, AnswerAllWakes, ReadyFree DEF IInv, NotifyAll, Answers
<1>3. \A t \in S : wait[t].kind = "notice"
  BY <1>1, NoneAssumption DEF IInv, Shapes, WaitShape
<1>4. waiters' = [waiters EXCEPT ![n] = <<>>]
  BY DEF NotifyAll
<1>5. ASSUME NEW m \in Notifier
      PROVE  /\ IsInjective(waiters'[m])
             /\ ToSet(waiters'[m]) = {t \in parked' : wait[t].gate = m}
  <2>1. CASE m = n
    <3>1. waiters'[m] = <<>>
      BY <1>4, <2>1 DEF IInv, TypeOK
    <3>2. IsInjective(<<>>) /\ ToSet(<<>>) = {}
      BY DEF IsInjective, ToSet
    <3> QED
      BY <1>1, <1>2, <2>1, <3>1, <3>2 DEF Woken
  <2>2. CASE m # n
    <3>1. waiters'[m] = waiters[m]
      BY <1>4, <2>2 DEF IInv, TypeOK
    <3> QED
      BY <1>1, <1>2, <2>2, <3>1 DEF IInv, ListsExact, Woken
  <2> QED
    BY <2>1, <2>2
<1>6. waiters' \in [Notifier -> Seq(Task)]
  BY <1>4 DEF IInv, TypeOK
<1>7. ListsOf(parked')
  BY <1>2, <1>3, <1>5, <1>6, ListsKeepJoiners DEF IInv, NotifyAll, Woken
<1>8. \A w \in Wake : w.task \in S /\ w.answer = "ok" => TrueWake(w)'
  BY <1>3, OkIsTrue DEF NotifyAll
<1> HIDE DEF S
<1>9. UNCHANGED <<run, phase, killing, current, tasks, live, ended, killed,
                 cancelled, shields, wait, batch, now>>
  BY DEF NotifyAll, settled
<1>10. /\ batch' \in Seq(Wake) /\ Once(batch') /\ ToSet(batch') \subseteq ToSet(batch)
       /\ \A u \in tasks : Queued(batch', u) <=> Queued(batch, u)
       /\ phase' \in {"batch", "expire"}
       /\ phase' = "expire" => batch' = <<>> /\ current = None
  BY <1>9 DEF IInv, TypeOK, OnePlace, Shapes
<1>11. /\ cancelled \subseteq cancelled' /\ cancelled' \subseteq Task
       /\ \A u \in parked' : u \in cancelled' => shields[u] > 0
  BY <1>2, <1>9 DEF IInv, TypeOK, CancelledNotParked, Woken
<1> QED
  BY <1>2, <1>7, <1>8, <1>9, <1>10, <1>11, WakeStep

(* The waits on a descriptor are in no list.                               *)
LEMMA HitsWake ==
  ASSUME IInv, NEW S \in SUBSET OnFd, NEW q \in InOrder(S),
         AnswerAll(q, "ok", None), UNCHANGED <<wait, joiners, waiters>>
  PROVE  /\ Woken(S, ready, "ok") /\ ListsOf(parked')
         /\ \A w \in Wake : w.task \in S /\ w.answer = "ok" => TrueWake(w)'
<1>1. S \in SUBSET parked /\ \A t \in S : wait[t].kind \in {"fd", "ready"}
  BY DEF OnFd, IInv, Shapes, WaitShape
<1>2. q \in Seq(Task) /\ IsInjective(q) /\ ToSet(q) = S
  BY <1>1, InOrderList DEF IInv
<1>3. Woken(S, ready, "ok")
  BY <1>1, <1>2, AnswerAllWakes, ReadyFree DEF IInv, Answers
<1>4. \A t \in S : wait[t].gate = None
  BY <1>1 DEF IInv, Shapes, WaitShape
<1>5. \A m \in Notifier : {t \in parked' : wait[t].gate = m}
                            = {t \in parked : wait[t].gate = m}
  BY <1>3, <1>4, NoneAssumption DEF Woken
<1>6. ListsOf(parked')
  BY <1>1, <1>3, <1>5, ListsKeepJoiners DEF IInv, Woken, TypeOK, ListsExact
<1>7. \A w \in Wake : w.task \in S /\ w.answer = "ok" => TrueWake(w)'
  BY <1>1, OkIsTrue
<1> QED
  BY <1>3, <1>6, <1>7

LEMMA AnswerWaitsStep ==
  ASSUME IInv, NEW fd \in Fd, AnswerWaits(fd)
  PROVE  IInv'
<1> DEFINE S == {t \in parked : fd \in wait[t].fds}
<1>1. S \in SUBSET OnFd
  BY DEF OnFd
<1>2. PICK q \in InOrder(S) : AnswerAll(q, "ok", None)
  BY DEF AnswerWaits
<1> HIDE DEF S
<1>3. /\ Woken(S, ready, "ok") /\ ListsOf(parked')
      /\ \A w \in Wake : w.task \in S /\ w.answer = "ok" => TrueWake(w)'
  BY <1>1, <1>2, HitsWake DEF AnswerWaits
<1> QED
  BY <1>3, WakeStep
     DEF IInv, AnswerWaits, settled, TypeOK, OnePlace, Shapes, Woken,
         CancelledNotParked

LEMMA PollOnceStep ==
  ASSUME IInv, PollOnce
  PROVE  IInv'
<1>1. PICK S \in SUBSET OnFd : \E q \in InOrder(S) : AnswerAll(q, "ok", None)
  BY DEF PollOnce
<1>2. PICK q \in InOrder(S) : AnswerAll(q, "ok", None)
  BY <1>1
<1>3. /\ Woken(S, ready, "ok") /\ ListsOf(parked')
      /\ \A w \in Wake : w.task \in S /\ w.answer = "ok" => TrueWake(w)'
  BY <1>2, HitsWake DEF PollOnce
<1> QED
  BY <1>3, WakeStep
     DEF IInv, PollOnce, LoopRuns, settled, TypeOK, OnePlace, Shapes, Woken,
         CancelledNotParked

LEMMA CancelStep ==
  ASSUME IInv, NEW u \in Task, Cancel(u)
  PROVE  IInv'
<1>1. /\ cancelled' = cancelled \cup {u}
      /\ UNCHANGED <<run, phase, current, killing, settled, shields, batch, now>>
  BY DEF Cancel
<1>2. CASE u \in parked /\ shields[u] = 0
  <2>1. Answer(u, "cancelled") /\ UNCHANGED wait
    BY <1>2 DEF Cancel
  <2>2. Woken({u}, ready, "cancelled") /\ ListsOf(parked')
    BY <1>2, <2>1, AnswerWakes, ReadyFree DEF IInv, Answers
  <2>3. \A w \in Wake : w.task \in {u} /\ w.answer = "cancelled" => TrueWake(w)'
    BY <1>1, <1>2, <2>1 DEF TrueWake
  <2>4. \A t \in parked' : t \in cancelled' => shields[t] > 0
    BY <1>1, <2>2 DEF IInv, CancelledNotParked, Woken
  <2> DEFINE S == {u}
  <2>5. /\ Woken(S, ready, "cancelled")
        /\ \A w \in Wake : w.task \in S /\ w.answer = "cancelled" => TrueWake(w)'
    BY <2>2, <2>3
  <2> HIDE DEF S
  <2>6. /\ UNCHANGED <<run, killing, current, tasks, live, ended, killed,
                       shields, wait, now>>
        /\ batch' \in Seq(Wake) /\ Once(batch') /\ batch' = batch
        /\ phase' \in {"batch", "expire"}
        /\ phase' = "expire" => batch' = <<>> /\ current = None
        /\ cancelled \subseteq cancelled' /\ cancelled' \subseteq Task
    BY <1>1, <2>1 DEF IInv, settled, TypeOK, OnePlace, Shapes
  <2> QED
    BY <2>2, <2>4, <2>5, <2>6, WakeStep
<1>3. CASE ~(u \in parked /\ shields[u] = 0)
  <2>1. UNCHANGED <<parked, wait, joiners, waiters, before, ready>>
    BY <1>3 DEF Cancel, waiting
  <2>2. Woken({}, ready, "ok")
    BY <2>1 DEF Woken, IInv, TypeOK, OnePlace
  <2>3. ListsOf(parked')
    BY <2>1 DEF ListsOf, IInv, TypeOK, ListsExact
  <2>4. \A t \in parked' : t \in cancelled' => shields[t] > 0
    BY <1>1, <1>3, <2>1 DEF IInv, CancelledNotParked, TypeOK
  <2> QED
    BY <1>1, <2>1, <2>2, <2>3, <2>4, WakeStep
       DEF IInv, settled, TypeOK, OnePlace, Shapes
<1> QED
  BY <1>2, <1>3

LEMMA ExpireOneStep ==
  ASSUME IInv, ExpireOne
  PROVE  IInv'
<1>1. PICK t \in Due : Answer(t, IF wait[t].kind = "delay" THEN "ok" ELSE "timeout")
  BY DEF ExpireOne
<1> DEFINE a == IF wait[t].kind = "delay" THEN "ok" ELSE "timeout"
<1>2. t \in parked /\ wait[t].at # None /\ wait[t].at <= now
  BY DEF Due, OnTimer
<1>3. a \in Answers
  BY DEF Answers
<1>4. Answer(t, a)
  BY <1>1
<1>5. Woken({t}, ready, a) /\ ListsOf(parked')
  BY <1>2, <1>3, <1>4, AnswerWakes, ReadyFree DEF IInv
<1>6. \A w \in Wake : w.task \in {t} /\ w.answer = a => TrueWake(w)'
  BY <1>2 DEF TrueWake, ExpireOne
<1> DEFINE S == {t}
<1>7. /\ Woken(S, ready, a)
      /\ \A w \in Wake : w.task \in S /\ w.answer = a => TrueWake(w)'
  BY <1>5, <1>6
<1> HIDE DEF S, a
<1> QED
  BY <1>5, <1>7, WakeStep
     DEF IInv, ExpireOne, LoopRuns, settled, TypeOK, OnePlace, Shapes, Woken,
         CancelledNotParked

LEMMA PassByStep ==
  ASSUME IInv, PassBy
  PROVE  IInv'
<1> DEFINE w0 == Head(batch)
<1>1. /\ w0 \in Wake /\ w0.task \in ended
      /\ batch' \in Seq(Wake) /\ Once(batch') /\ ToSet(batch') \subseteq ToSet(batch)
      /\ \A t : Queued(batch', t) <=> Queued(batch, t) /\ t # w0.task
  BY TailWake DEF PassBy, IInv, TypeOK, OnePlace
<1>2. \A t \in tasks : Queued(batch', t) <=> Queued(batch, t)
  BY <1>1 DEF IInv, OnePlace
<1>3. UNCHANGED <<run, phase, current, killing, settled, cancelled, shields,
                  wait, joiners, now>>
  BY DEF PassBy
<1>4. phase = "batch"
  BY DEF PassBy, LoopRuns
<1>5. CASE w0.notice = None
  <2>1. UNCHANGED <<parked, before, waiters, ready>>
    BY <1>5 DEF PassBy
  <2>2. Woken({}, ready, "ok")
    BY <2>1 DEF Woken, IInv, TypeOK, OnePlace
  <2>3. ListsOf(parked')
    BY <1>3, <2>1 DEF ListsOf, IInv, TypeOK, ListsExact
  <2> DEFINE S == {}
  <2>4. /\ Woken(S, ready, "ok")
        /\ \A w \in Wake : w.task \in S /\ w.answer = "ok" => TrueWake(w)'
    BY <2>2
  <2> HIDE DEF S, w0
  <2> QED
    BY <1>1, <1>2, <1>3, <1>4, <2>1, <2>3, <2>4, WakeStep
       DEF IInv, settled, TypeOK, CancelledNotParked
<1>6. CASE w0.notice # None
  <2>1. w0.notice \in Notifier /\ HandOn(w0.notice, ready)
    BY <1>1, <1>6 DEF PassBy, Wake
  <2>2. PICK S \in SUBSET parked :
           /\ Woken(S, ready, "ok")
           /\ \A t \in S : wait[t].gate = w0.notice
           /\ waiters' \in [Notifier -> Seq(Task)]
           /\ \A m \in Notifier :
                /\ IsInjective(waiters'[m])
                /\ ToSet(waiters'[m]) = {t \in parked' : wait[t].gate = m}
    BY <2>1, HandOnWakes, ReadyFree DEF IInv
  <2>3. \A t \in S : wait[t].kind = "notice"
    BY <1>6, <2>2 DEF IInv, Shapes, WaitShape
  <2>4. ListsOf(parked')
    BY <1>3, <2>2, <2>3, ListsKeepJoiners DEF IInv, Woken
  <2>5. \A w \in Wake : w.task \in S /\ w.answer = "ok" => TrueWake(w)'
    BY <1>3, <2>3, OkIsTrue
  <2> QED
    BY <1>1, <1>2, <1>3, <1>4, <2>2, <2>4, <2>5, WakeStep
       DEF IInv, settled, TypeOK, CancelledNotParked, Woken
<1> QED
  BY <1>5, <1>6
-----------------------------------------------------------------------------
(* The wake of one task added behind the ready queue.                      *)
LEMMA QueueOne ==
  ASSUME TypeOK, OnePlace, NEW t \in Task, NEW a \in Answers,
         ~Queued(ready, t), ready' = Append(ready, WakeOf(t, a, None))
  PROVE  /\ ready' \in Seq(Wake) /\ Once(ready')
         /\ \A u : Queued(ready', u) <=> Queued(ready, u) \/ u = t
         /\ \A w \in ToSet(ready') :
              w \in ToSet(ready) \/ (w.task = t /\ w.answer = a)
<1> DEFINE w == WakeOf(t, a, None)
<1>1. w \in Wake /\ w.task = t /\ w.answer = a /\ ready' = Append(ready, w)
  BY DEF WakeOf, Wake
<1> HIDE DEF w
<1>2. ready \in Seq(Wake) /\ Once(ready)
  BY DEF TypeOK, OnePlace
<1>3. /\ ready' \in Seq(Wake) /\ ToSet(ready') = ToSet(ready) \cup {w}
      /\ \A u : Queued(ready', u) <=> Queued(ready, u) \/ u = t
      /\ Once(ready')
  BY <1>1, <1>2, AppendWake
<1> QED
  BY <1>1, <1>3

(* A wait begun: parked last in the list it asks for, or answered at once  *)
(* where the task is cancelled.                                            *)
LEMMA ParkStep ==
  ASSUME IInv, NEW t \in Task, NEW w \in Wait, WaitShape(w),
         w.joined \in tasks \cup {None}, Park(t, w)
  PROVE  IInv'
<1>1. /\ t = current /\ t \in tasks /\ t \notin parked /\ killing = None
      /\ ~Queued(ready, t) /\ ~Queued(batch, t) /\ phase # "expire"
      /\ current' = None
      /\ UNCHANGED <<run, phase, killing, settled, cancelled, shields, batch, now>>
  BY NoneAssumption DEF IInv, OnePlace, Shapes, Park, Runs
<1>2. \A p \in before : p[1] # t /\ p[2] # t
  BY <1>1 DEF IInv, TypeOK
<1>3. CASE t \in cancelled /\ shields[t] = 0
  <2>1. /\ wait' = [wait EXCEPT ![t] = [w EXCEPT !.at = None]]
        /\ ready' = Append(ready, WakeOf(t, "cancelled", None))
        /\ UNCHANGED <<parked, before, joiners, waiters>>
    BY <1>3 DEF Park
  <2>2. /\ ready' \in Seq(Wake) /\ Once(ready')
        /\ \A u : Queued(ready', u) <=> Queued(ready, u) \/ u = t
        /\ \A x \in ToSet(ready') :
             x \in ToSet(ready) \/ (x.task = t /\ x.answer = "cancelled")
    BY <1>1, <2>1, QueueOne DEF IInv, Answers
  <2>3. wait' \in [Task -> Wait] /\ \A u \in parked : wait'[u] = wait[u]
    BY <1>1, <2>1 DEF IInv, TypeOK, Wait
  <2>4. TypeOK'
    BY <1>1, <2>1, <2>2, <2>3 DEF IInv, TypeOK, settled
  <2>5. OnePlace'
    BY <1>1, <2>1, <2>2 DEF IInv, OnePlace, settled
  <2>6. ListsExact' /\ Shapes'
    BY <1>1, <2>1, <2>3 DEF IInv, ListsExact, Shapes, settled
  <2>7. LiveCount' /\ CancelledNotParked'
    BY <1>1, <2>1 DEF IInv, LiveCount, CancelledNotParked, settled
  <2>8. Truthful'
    <3>1. SUFFICES ASSUME NEW x \in ToSet(ready') \cup ToSet(batch')
                   PROVE  TrueWake(x)'
      BY DEF Truthful
    <3>2. CASE x \in ToSet(ready) \cup ToSet(batch)
      <4>1. TrueWake(x) /\ x.task # t
        BY <1>1, <3>2 DEF IInv, Truthful, Queued
      <4>2. x.task \in Task => wait'[x.task] = wait[x.task]
        BY <2>1, <4>1 DEF IInv, TypeOK
      <4> QED
        BY <1>1, <4>1, <4>2 DEF TrueWake, settled, IInv, TypeOK
    <3>3. CASE x.task = t /\ x.answer = "cancelled"
      BY <1>1, <1>3, <3>3 DEF TrueWake
    <3> QED
      BY <1>1, <2>2, <3>1, <3>2, <3>3
  <2>9. Unstarted'
    BY <1>1, <2>1 DEF IInv, Unstarted, TypeOK, settled
  <2> QED
    BY <2>4, <2>5, <2>6, <2>7, <2>8, <2>9 DEF IInv
<1>4. CASE ~(t \in cancelled /\ shields[t] = 0)
  <2>1. /\ wait' = [wait EXCEPT ![t] = w]
        /\ parked' = parked \cup {t}
        /\ before' = before \cup {<<u, t>> : u \in parked}
        /\ joiners' = IF w.joined # None
                      THEN [joiners EXCEPT ![w.joined] = Append(@, t)]
                      ELSE joiners
        /\ waiters' = IF w.gate # None
                      THEN [waiters EXCEPT ![w.gate] = Append(@, t)]
                      ELSE waiters
        /\ UNCHANGED ready
    BY <1>4 DEF Park
  <2>2. /\ wait' \in [Task -> Wait] /\ wait'[t] = w
        /\ \A u \in Task \ {t} : wait'[u] = wait[u]
        /\ tasks \subseteq Task /\ w.gate \in Notifier \cup {None}
    BY <2>1 DEF IInv, TypeOK, Wait
  <2>3. before' \subseteq parked' \X parked' /\ \A p \in before' : p[1] # p[2]
    BY <1>1, <2>1 DEF IInv, TypeOK, Shapes
  <2>4. ASSUME NEW n \in Notifier
        PROVE  /\ waiters'[n] \in Seq(Task) /\ IsInjective(waiters'[n])
               /\ ToSet(waiters'[n]) = {u \in parked' : wait'[u].gate = n}
    <3>1. /\ waiters[n] \in Seq(Task) /\ IsInjective(waiters[n])
          /\ ToSet(waiters[n]) = {u \in parked : wait[u].gate = n}
      BY DEF IInv, TypeOK, ListsExact
    <3>2. {u \in parked' : wait'[u].gate = n}
            = IF w.gate = n THEN ToSet(waiters[n]) \cup {t} ELSE ToSet(waiters[n])
      BY <1>1, <2>1, <2>2, <3>1 DEF IInv, TypeOK
    <3>3. CASE w.gate = n
      <4>1. waiters'[n] = Append(waiters[n], t)
        BY <2>1, <3>3, NoneAssumption DEF IInv, TypeOK
      <4> QED
        BY <1>1, <3>1, <3>2, <3>3, <4>1, AppendTask
    <3>4. CASE w.gate # n
      <4>1. waiters'[n] = waiters[n]
        BY <2>1, <3>4 DEF IInv, TypeOK
      <4> QED
        BY <3>1, <3>2, <3>4, <4>1
    <3> QED
      BY <3>3, <3>4
  <2>5. ASSUME NEW v \in Task
        PROVE  /\ joiners'[v] \in Seq(Task) /\ IsInjective(joiners'[v])
               /\ ToSet(joiners'[v]) = {u \in parked' : wait'[u].joined = v}
    <3>1. /\ joiners[v] \in Seq(Task) /\ IsInjective(joiners[v])
          /\ ToSet(joiners[v]) = {u \in parked : wait[u].joined = v}
      BY DEF IInv, TypeOK, ListsExact
    <3>2. {u \in parked' : wait'[u].joined = v}
            = IF w.joined = v THEN ToSet(joiners[v]) \cup {t} ELSE ToSet(joiners[v])
      BY <1>1, <2>1, <2>2, <3>1 DEF IInv, TypeOK
    <3>3. CASE w.joined = v
      <4>1. joiners'[v] = Append(joiners[v], t)
        BY <2>1, <3>3, NoneAssumption DEF IInv, TypeOK
      <4> QED
        BY <1>1, <3>1, <3>2, <3>3, <4>1, AppendTask
    <3>4. CASE w.joined # v
      <4>1. joiners'[v] = joiners[v]
        BY <2>1, <3>4 DEF IInv, TypeOK
      <4> QED
        BY <3>1, <3>2, <3>4, <4>1
    <3> QED
      BY <3>3, <3>4
  <2>6. waiters' \in [Notifier -> Seq(Task)]
    <3>1. waiters' = [n \in Notifier |-> waiters'[n]]
      BY <2>1 DEF IInv, TypeOK
    <3> QED
      BY <2>4, <3>1
  <2>7. joiners' \in [Task -> Seq(Task)]
    <3>1. joiners' = [v \in Task |-> joiners'[v]]
      BY <2>1 DEF IInv, TypeOK
    <3> QED
      BY <2>5, <3>1
  <2>8. TypeOK'
    BY <1>1, <2>1, <2>2, <2>3, <2>6, <2>7 DEF IInv, TypeOK, settled
  <2>9. OnePlace'
    BY <1>1, <2>1 DEF IInv, OnePlace, settled
  <2>10. ListsExact'
    <3>1. \A u \in parked' : wait'[u].joined \in tasks' \cup {None}
      BY <1>1, <2>1, <2>2 DEF IInv, ListsExact, TypeOK, settled
    <3> QED
      BY <2>4, <2>5, <3>1 DEF ListsExact
  <2>11. Shapes'
    BY <1>1, <2>1, <2>2, <2>3 DEF IInv, Shapes, TypeOK
  <2>12. LiveCount' /\ CancelledNotParked'
    BY <1>1, <1>4, <2>1 DEF IInv, LiveCount, CancelledNotParked, settled, TypeOK
  <2>13. Truthful'
    <3>1. SUFFICES ASSUME NEW x \in ToSet(ready) \cup ToSet(batch)
                   PROVE  TrueWake(x)'
      BY <1>1, <2>1 DEF Truthful
    <3>2. TrueWake(x) /\ x.task # t
      BY <1>1, <3>1 DEF IInv, Truthful, Queued
    <3>3. x.task \in Task => wait'[x.task] = wait[x.task]
      BY <2>2, <3>2
    <3> QED
      BY <1>1, <3>2, <3>3 DEF TrueWake, settled, IInv, TypeOK
  <2>14. Unstarted'
    BY <1>1, <2>1 DEF IInv, Unstarted, TypeOK, settled
  <2> QED
    BY <2>8, <2>9, <2>10, <2>11, <2>12, <2>13, <2>14 DEF IInv
<1> QED
  BY <1>3, <1>4

(* The waits a task may begin have their shape.                            *)
LEMMA YieldStep ==
  ASSUME IInv, NEW t \in Task, Yield(t)
  PROVE  IInv'
<1>1. PICK due \in Deadlines :
         \/ \E fd \in Fd : WaitFd(t, fd, due)
         \/ \E fds \in SUBSET Fd : WaitReady(t, fds, due)
         \/ Delay(t, due)
         \/ \E n \in Notifier : NotifierWait(t, n, due)
         \/ \E u \in Task : Join(t, u, due)
  BY DEF Yield
<1>2. due \in Nat \cup {None} /\ (due # None => due \in Nat)
  <2>1. now \in Nat
    BY DEF IInv, TypeOK
  <2> QED
    BY <2>1, BoundAssumption DEF Deadlines
<1>3. ASSUME NEW fd \in Fd, WaitFd(t, fd, due) PROVE IInv'
  <2> DEFINE w == [NoWait EXCEPT !.kind = "fd", !.fds = {fd}, !.at = due]
  <2>1. w \in Wait /\ WaitShape(w) /\ w.joined = None
    BY <1>2 DEF NoWait, Wait, WaitShape, Kinds
  <2> QED
    BY <1>3, <2>1, ParkStep DEF WaitFd
<1>4. ASSUME NEW fds \in SUBSET Fd, WaitReady(t, fds, due) PROVE IInv'
  <2> DEFINE w == [NoWait EXCEPT !.kind = "ready", !.fds = fds, !.at = due]
  <2>1. w \in Wait /\ WaitShape(w) /\ w.joined = None
    BY <1>2, <1>4 DEF NoWait, Wait, WaitShape, Kinds, WaitReady
  <2> QED
    BY <1>4, <2>1, ParkStep DEF WaitReady
<1>5. ASSUME Delay(t, due) PROVE IInv'
  <2> DEFINE w == [NoWait EXCEPT !.kind = "delay", !.at = due]
  <2>1. w \in Wait /\ WaitShape(w) /\ w.joined = None
    BY <1>2, <1>5 DEF NoWait, Wait, WaitShape, Kinds, Delay
  <2> QED
    BY <1>5, <2>1, ParkStep DEF Delay
<1>6. ASSUME NEW n \in Notifier, NotifierWait(t, n, due) PROVE IInv'
  <2> DEFINE w == [NoWait EXCEPT !.kind = "notice", !.gate = n, !.at = due]
  <2>1. w \in Wait /\ WaitShape(w) /\ w.joined = None
    BY <1>2, NoneAssumption DEF NoWait, Wait, WaitShape, Kinds
  <2> QED
    BY <1>6, <2>1, ParkStep DEF NotifierWait
<1>7. ASSUME NEW u \in Task, Join(t, u, due) PROVE IInv'
  <2> DEFINE w == [NoWait EXCEPT !.kind = "join", !.joined = u, !.at = due]
  <2>1. w \in Wait /\ WaitShape(w) /\ w.joined \in tasks
    BY <1>2, <1>7, NoneAssumption DEF NoWait, Wait, WaitShape, Kinds, Join
  <2> QED
    BY <1>7, <2>1, ParkStep DEF Join
<1> QED
  BY <1>1, <1>3, <1>4, <1>5, <1>6, <1>7
(* Whatever leaves the waits of a queued task and what it is told of alone *)
(* leaves a true wake true.                                                *)
LEMMA StaysTrue ==
  ASSUME TypeOK, NEW w \in Wake, TrueWake(w),
         w.task \in tasks' \ {killing'} =>
           /\ w.task \in tasks \ {killing}
           /\ wait'[w.task] = wait[w.task] /\ shields'[w.task] = shields[w.task],
         cancelled' = cancelled, now' = now \/ now' = now + 1,
         ended \subseteq ended', killed \subseteq killed',
         ended \cap killed' \subseteq killed
  PROVE  TrueWake(w)'
<1>1. wait[w.task] \in Wait
  BY DEF TypeOK, Wake
<1>2. wait[w.task].at # None => wait[w.task].at \in Nat
  BY <1>1 DEF Wait
<1>3. wait[w.task].at # None /\ wait[w.task].at <= now => wait[w.task].at <= now'
  BY <1>2 DEF TypeOK
<1> QED
  BY <1>3 DEF TrueWake

LEMMA SpawnStep ==
  ASSUME IInv, NEW t \in Task, NEW u \in Task, Spawn(t, u)
  PROVE  IInv'
<1>1. /\ u \notin tasks /\ u \notin ended
      /\ tasks' = tasks \cup {u} /\ live' = live + 1
      /\ ready' = Append(ready, WakeOf(u, "ok", None))
      /\ UNCHANGED <<run, phase, current, killing, ended, killed, cancelled,
                     shields, parked, wait, joiners, waiters, before, batch, now>>
      /\ killing = None
  BY DEF Spawn, Runs, waiting
<1>2. /\ ~Queued(ready, u) /\ ~Queued(batch, u) /\ u \notin parked
      /\ u # current /\ u \notin killed /\ wait[u] = NoWait
  BY <1>1, NoneAssumption DEF IInv, OnePlace, Unstarted
<1>3. /\ ready' \in Seq(Wake) /\ Once(ready')
      /\ \A x : Queued(ready', x) <=> Queued(ready, x) \/ x = u
      /\ \A w \in ToSet(ready') :
           w \in ToSet(ready) \/ (w.task = u /\ w.answer = "ok")
  BY <1>1, <1>2, QueueOne DEF IInv, Answers
<1>4. TypeOK'
  <2>1. live' \in Nat /\ tasks' \subseteq Task
    BY <1>1 DEF IInv, TypeOK
  <2> QED
    BY <1>1, <1>3, <2>1 DEF IInv, TypeOK
<1>5. OnePlace'
  BY <1>1, <1>2, <1>3 DEF IInv, OnePlace
<1>6. ListsExact' /\ Shapes' /\ CancelledNotParked'
  BY <1>1 DEF IInv, ListsExact, Shapes, CancelledNotParked
<1>7. LiveCount'
  <2>1. IsFiniteSet(tasks)
    BY TaskAssumption, FS_Subset DEF IInv, TypeOK
  <2> QED
    BY <1>1, <2>1, FS_AddElement DEF IInv, LiveCount
<1>8. Truthful'
  <2>1. SUFFICES ASSUME NEW w \in ToSet(ready') \cup ToSet(batch') PROVE TrueWake(w)'
    BY DEF Truthful
  <2>2. w \in Wake
    BY <1>4, <2>1 DEF TypeOK, ToSet
  <2>3. CASE w \in ToSet(ready) \cup ToSet(batch)
    <3>1. TrueWake(w) /\ w.task # u
      BY <1>2, <2>3 DEF IInv, Truthful, Queued
    <3> QED
      BY <1>1, <3>1 DEF TrueWake
  <2>4. CASE w.task = u /\ w.answer = "ok"
    BY <1>1, <1>2, <2>4 DEF TrueWake, NoWait
  <2> QED
    BY <1>1, <1>3, <2>1, <2>3, <2>4
<1>9. Unstarted'
  BY <1>1 DEF IInv, Unstarted
<1> QED
  BY <1>4, <1>5, <1>6, <1>7, <1>8, <1>9 DEF IInv

(* Poll.shielded, entered and left by the running task.                    *)
LEMMA ShieldStep ==
  ASSUME IInv, NEW t \in Task, Shield(t) \/ Unshield(t)
  PROVE  IInv'
<1>1. /\ t = current
      /\ shields' \in [Task -> Nat]
      /\ \A u \in Task \ {t} : shields'[u] = shields[u]
      /\ UNCHANGED <<run, phase, current, killing, tasks, live, ended, killed,
                     cancelled, parked, wait, joiners, waiters, before, ready,
                     batch, now>>
  <2>1. shields \in [Task -> Nat]
    BY DEF IInv, TypeOK
  <2>2. CASE Shield(t)
    BY <2>1, <2>2 DEF Shield, Runs, settled, waiting, queues
  <2>3. CASE Unshield(t)
    BY <2>1, <2>3 DEF Unshield, Runs, settled, waiting, queues
  <2> QED
    BY <2>2, <2>3
<1>2. t \notin parked /\ ~Queued(ready, t) /\ ~Queued(batch, t)
  BY <1>1, NoneAssumption DEF IInv, OnePlace
<1>3. TypeOK' /\ OnePlace' /\ ListsExact' /\ LiveCount' /\ Shapes' /\ Unstarted'
  BY <1>1 DEF IInv, TypeOK, OnePlace, ListsExact, LiveCount, Shapes, Unstarted
<1>4. CancelledNotParked'
  BY <1>1, <1>2 DEF IInv, CancelledNotParked, TypeOK
<1>5. Truthful'
  <2>1. SUFFICES ASSUME NEW w \in ToSet(ready) \cup ToSet(batch) PROVE TrueWake(w)'
    BY <1>1 DEF Truthful
  <2>2. TrueWake(w) /\ w.task # t /\ w \in Wake
    BY <1>2, <2>1 DEF IInv, Truthful, Queued, TypeOK, ToSet
  <2>3. shields'[w.task] = shields[w.task]
    BY <1>1, <2>2 DEF Wake
  <2> QED
    BY <1>1, <2>2, <2>3 DEF TrueWake
<1> QED
  BY <1>3, <1>4, <1>5 DEF IInv

LEMMA ResumedStep ==
  ASSUME IInv, Resume
  PROVE  IInv'
<1> DEFINE h == Head(batch)
<1>1. /\ h \in Wake /\ h \in ToSet(batch)
      /\ batch' \in Seq(Wake) /\ Once(batch') /\ ToSet(batch') \subseteq ToSet(batch)
      /\ \A t : Queued(batch', t) <=> Queued(batch, t) /\ t # h.task
  BY TailWake DEF Resume, IInv, TypeOK, OnePlace
<1>2. /\ h.task \notin ended /\ current' = h.task /\ current = None
      /\ phase = "batch"
      /\ wait' = [wait EXCEPT ![h.task] = NoWait]
      /\ UNCHANGED <<run, phase, killing, tasks, live, ended, killed, cancelled,
                     shields, parked, joiners, waiters, before, ready, now>>
  BY DEF Resume, LoopRuns, settled
<1> HIDE DEF h
<1>3. /\ h.task \in Task /\ h.task \in tasks /\ killing = None
      /\ h.task \notin parked /\ ~Queued(ready, h.task) /\ ~Queued(batch', h.task)
  BY <1>1, <1>2 DEF IInv, OnePlace, Unstarted, Queued, Wake
<1>4. /\ wait' \in [Task -> Wait]
      /\ \A t \in Task \ {h.task} : wait'[t] = wait[t]
  BY <1>2, <1>3 DEF IInv, TypeOK, Wait, NoWait, Kinds
<1>5. TypeOK'
  BY <1>1, <1>2, <1>3, <1>4 DEF IInv, TypeOK
<1>6. OnePlace'
  BY <1>1, <1>2, <1>3, NoneAssumption DEF IInv, OnePlace
<1>7. ListsExact'
  <2>1. \A t \in parked : wait'[t] = wait[t]
    BY <1>3, <1>4 DEF IInv, TypeOK
  <2> QED
    BY <1>2, <2>1 DEF IInv, ListsExact
<1>8. Shapes' /\ LiveCount' /\ CancelledNotParked' /\ Unstarted'
  BY <1>1, <1>2, <1>3, <1>4
     DEF IInv, Shapes, LiveCount, CancelledNotParked, Unstarted, TypeOK
<1>9. Truthful'
  <2>1. SUFFICES ASSUME NEW w \in ToSet(ready') \cup ToSet(batch') PROVE TrueWake(w)'
    BY DEF Truthful
  <2>2. w \in ToSet(ready) \cup ToSet(batch) /\ w \in Wake
    <3>1. w \in ToSet(ready) \cup ToSet(batch)
      BY <1>1, <1>2, <2>1
    <3> QED
      BY <3>1 DEF IInv, TypeOK, ToSet
  <2>3. w.task # h.task /\ w.task \in Task
    BY <1>2, <1>3, <2>1, <2>2 DEF Queued, Wake
  <2>4. TrueWake(w) /\ wait'[w.task] = wait[w.task]
    BY <1>4, <2>2, <2>3 DEF IInv, Truthful
  <2> QED
    BY <1>2, <2>4 DEF TrueWake
<1> QED
  BY <1>5, <1>6, <1>7, <1>8, <1>9 DEF IInv

LEMMA TakeBatchStep ==
  ASSUME IInv, TakeBatch
  PROVE  IInv'
<1>1. /\ batch = <<>> /\ current = None /\ phase' = "batch"
      /\ batch' = ready /\ ready' = <<>>
      /\ UNCHANGED <<run, current, killing, tasks, live, ended, killed, cancelled,
                     shields, parked, wait, joiners, waiters, before, now>>
  BY DEF TakeBatch, LoopRuns, settled, waiting, IInv, Shapes
<1>2. <<>> \in Seq(Wake) /\ Once(<<>>) /\ ToSet(<<>>) = {} /\ \A t : ~Queued(<<>>, t)
  BY DEF Once, Queued, ToSet
<1>3. TypeOK' /\ OnePlace'
  BY <1>1, <1>2 DEF IInv, TypeOK, OnePlace
<1>4. ListsExact' /\ LiveCount' /\ CancelledNotParked' /\ Shapes'
  BY <1>1 DEF IInv, ListsExact, LiveCount, CancelledNotParked, Shapes
<1>5. Unstarted'
  BY <1>1 DEF IInv, Unstarted, OnePlace
<1>6. Truthful'
  <2>1. SUFFICES ASSUME NEW w \in ToSet(ready) PROVE TrueWake(w)'
    BY <1>1, <1>2 DEF Truthful
  <2>2. TrueWake(w)
    BY <2>1 DEF IInv, Truthful
  <2> QED
    BY <1>1, <2>2 DEF TrueWake
<1> QED
  BY <1>3, <1>4, <1>5, <1>6 DEF IInv

LEMMA TickStep ==
  ASSUME IInv, Tick
  PROVE  IInv'
<1>1. /\ now' = now + 1
      /\ UNCHANGED <<run, phase, current, killing, tasks, live, ended, killed,
                     cancelled, shields, parked, wait, joiners, waiters, before,
                     ready, batch>>
  BY DEF Tick, settled, waiting, queues
<1>2. TypeOK' /\ OnePlace' /\ ListsExact' /\ LiveCount' /\ Shapes' /\ Unstarted'
      /\ CancelledNotParked'
  BY <1>1 DEF IInv, TypeOK, OnePlace, ListsExact, LiveCount, Shapes, Unstarted,
              CancelledNotParked
<1>3. Truthful'
  <2>1. SUFFICES ASSUME NEW w \in ToSet(ready) \cup ToSet(batch) PROVE TrueWake(w)'
    BY <1>1 DEF Truthful
  <2>2. TrueWake(w) /\ w \in Wake
    BY <2>1 DEF IInv, Truthful, TypeOK, ToSet
  <2> QED
    BY <1>1, <2>2, StaysTrue DEF IInv
<1> QED
  BY <1>2, <1>3 DEF IInv

(* close_all leaves nothing that could be answered or resumed.             *)
LEMMA CloseAllStep ==
  ASSUME IInv, killing = None, NEW how \in {"raised", "deadlock"}, CloseAll(how)
  PROVE  IInv'
<1>1. /\ run' = how /\ tasks' = {} /\ live' = 0 /\ current' = None
      /\ ended' = ended \cup tasks /\ killed' = killed \cup tasks
      /\ parked' = {} /\ before' = {} /\ wait' = [t \in Task |-> NoWait]
      /\ joiners' = [t \in Task |-> <<>>] /\ waiters' = [n \in Notifier |-> <<>>]
      /\ ready' = <<>> /\ batch' = <<>>
      /\ UNCHANGED <<phase, killing, cancelled, shields, now>>
  BY DEF CloseAll
<1>2. /\ <<>> \in Seq(Wake) /\ Once(<<>>) /\ ToSet(<<>>) = {} /\ \A t : ~Queued(<<>>, t)
      /\ <<>> \in Seq(Task) /\ IsInjective(<<>>)
  BY DEF Once, Queued, ToSet, IsInjective
<1>3. NoWait \in Wait
  BY DEF NoWait, Wait, Kinds
<1>4. TypeOK'
  BY <1>1, <1>2, <1>3 DEF IInv, TypeOK
<1>5. OnePlace' /\ Unstarted'
  BY <1>1, <1>2 DEF IInv, OnePlace, Unstarted
<1>6. ListsExact' /\ CancelledNotParked' /\ Shapes' /\ Truthful'
  BY <1>1, <1>2 DEF ListsExact, CancelledNotParked, Shapes, Truthful
<1>7. LiveCount'
  BY <1>1, FS_EmptySet DEF LiveCount
<1> QED
  BY <1>4, <1>5, <1>6, <1>7 DEF IInv
-----------------------------------------------------------------------------
(***************************************************************************)
(* A kill up to the victim's handlers.  Whichever queue or list the victim *)
(* u was in, what is left is the same: it is nowhere but in `killing` and, *)
(* if its wake was in the batch being resumed, there.                      *)
(***************************************************************************)
LEMMA KilledStep ==
  ASSUME IInv, NEW u \in tasks, NEW S, current # None, killing = None, u # current,
         killing' = u, killed' = killed \cup {u},
         wait' = [wait EXCEPT ![u] = NoWait],
         UNCHANGED <<run, phase, current, tasks, live, ended, cancelled, shields,
                     batch, now>>,
         S \subseteq parked \ {u}, parked' = (parked \ {u}) \ S,
         before' \subseteq before, before' \subseteq parked' \X parked',
         ListsOf(parked'), \A t \in S : wait[t].kind = "notice",
         ready' \in Seq(Wake), Once(ready'),
         \A t : Queued(ready', t) <=> (Queued(ready, t) /\ t # u) \/ t \in S,
         \A w \in ToSet(ready') :
           w \in ToSet(ready) \/ (w.task \in S /\ w.answer = "ok")
  PROVE  IInv'
<1>1. u \in Task /\ u # None
  BY NoneAssumption DEF IInv, TypeOK
<1>2. /\ wait' \in [Task -> Wait]
      /\ \A t \in Task \ {u} : wait'[t] = wait[t]
  BY <1>1 DEF IInv, TypeOK, Wait, NoWait, Kinds
<1>3. TypeOK'
  BY <1>1, <1>2 DEF IInv, TypeOK, ListsOf
<1>4. OnePlace'
  <2>1. S \subseteq tasks /\ S \subseteq Task
    BY DEF IInv, OnePlace, TypeOK
  <2>2. \A t \in tasks' :
         \/ t \in {current', killing'} \cup parked'
         \/ Queued(ready', t) \/ Queued(batch', t)
    <3>1. ASSUME NEW t \in tasks, t # u, t # current
          PROVE  t \in parked \/ Queued(ready, t) \/ Queued(batch, t)
      BY <3>1, NoneAssumption DEF IInv, OnePlace, TypeOK
    <3> QED
      BY <3>1
  <2>3. \A t \in Task : Queued(ready', t) => t \in tasks' /\ ~Queued(batch', t)
    BY <2>1 DEF IInv, OnePlace
  <2>4. \A t \in parked' : ~Queued(ready', t) /\ ~Queued(batch', t)
    BY DEF IInv, OnePlace
  <2>5. /\ current' \in tasks' \ parked'
        /\ ~Queued(ready', current') /\ ~Queued(batch', current')
    BY DEF IInv, OnePlace
  <2>6. /\ current' \notin {None, killing'}
        /\ killing' \in (tasks' \cap killed') \ parked'
        /\ ~Queued(ready', killing')
    BY DEF IInv, OnePlace
  <2>7. tasks' \cap killed' \subseteq {killing'} /\ parked' \subseteq tasks'
    BY NoneAssumption DEF IInv, OnePlace, TypeOK
  <2> QED
    BY <2>2, <2>3, <2>4, <2>5, <2>6, <2>7 DEF IInv, OnePlace
<1>5. ListsExact'
  <2>1. \A t \in parked' : wait'[t] = wait[t]
    BY <1>2 DEF IInv, TypeOK
  <2> QED
    BY <2>1 DEF IInv, ListsExact, ListsOf
<1>6. Shapes' /\ LiveCount' /\ CancelledNotParked'
  BY <1>2 DEF IInv, Shapes, LiveCount, CancelledNotParked, TypeOK
<1>7. Unstarted'
  BY <1>2 DEF IInv, Unstarted
<1>8. Truthful'
  <2>1. SUFFICES ASSUME NEW w \in ToSet(ready') \cup ToSet(batch') PROVE TrueWake(w)'
    BY DEF Truthful
  <2>2. w \in Wake
    BY <1>3, <2>1 DEF TypeOK, ToSet
  <2>3. w.task # u => wait'[w.task] = wait[w.task]
    BY <1>2, <2>2 DEF Wake
  <2>4. CASE w \in ToSet(ready) \cup ToSet(batch)
    <3>1. TrueWake(w)
      BY <2>4 DEF IInv, Truthful
    <3>2. u \notin ended
      BY DEF IInv, OnePlace
    <3>3. w.task \in tasks' \ {killing'} =>
            w.task \in tasks \ {killing} /\ wait'[w.task] = wait[w.task]
      BY <2>3, NoneAssumption DEF IInv, TypeOK
    <3>4. ended \cap killed' \subseteq killed
      BY <3>2
    <3> QED
      BY <2>2, <3>1, <3>3, <3>4, StaysTrue DEF IInv
  <2>5. CASE w.task \in S /\ w.answer = "ok"
    BY <2>3, <2>5 DEF TrueWake
  <2> QED
    BY <2>1, <2>4, <2>5
<1> QED
  BY <1>3, <1>4, <1>5, <1>6, <1>7, <1>8 DEF IInv

LEMMA KillParkedStep ==
  ASSUME IInv, NEW t \in Task, NEW u \in Task, KillParked(t, u)
  PROVE  IInv'
<1>1. /\ u \in parked /\ u \in tasks /\ u # current
      /\ current # None /\ killing = None
  BY NoneAssumption DEF KillParked, Runs, IInv, OnePlace
<1>2. /\ ListsOf(parked') /\ parked' = parked \ {u}
      /\ before' \subseteq before /\ before' \subseteq parked' \X parked'
  BY <1>1, FinishLists DEF KillParked, IInv
<1>3. ready' = ready /\ ready \in Seq(Wake) /\ Once(ready) /\ ~Queued(ready, u)
  BY <1>1 DEF KillParked, queues, IInv, TypeOK, OnePlace
<1>4. /\ killing' = u /\ killed' = killed \cup {u}
      /\ wait' = [wait EXCEPT ![u] = NoWait]
      /\ UNCHANGED <<run, phase, current, tasks, live, ended, cancelled, shields,
                     batch, now>>
  BY DEF KillParked, queues
<1> DEFINE S == {}
<1>5. /\ S \subseteq parked \ {u} /\ parked' = (parked \ {u}) \ S
      /\ \A x \in S : wait[x].kind = "notice"
      /\ \A x : Queued(ready', x) <=> (Queued(ready, x) /\ x # u) \/ x \in S
      /\ \A w \in ToSet(ready') :
           w \in ToSet(ready) \/ (w.task \in S /\ w.answer = "ok")
  BY <1>2, <1>3
<1> HIDE DEF S
<1> QED
  BY <1>1, <1>2, <1>3, <1>4, <1>5, KilledStep

LEMMA KillInBatchStep ==
  ASSUME IInv, NEW t \in Task, NEW u \in Task, KillInBatch(t, u)
  PROVE  IInv'
<1>1. /\ u \in tasks /\ u # current /\ current # None /\ killing = None
      /\ u \notin parked /\ ~Queued(ready, u)
  BY NoneAssumption DEF KillInBatch, Runs, IInv, OnePlace
<1>2. /\ killing' = u /\ killed' = killed \cup {u}
      /\ wait' = [wait EXCEPT ![u] = NoWait]
      /\ UNCHANGED <<run, phase, current, tasks, live, ended, cancelled, shields,
                     batch, now, parked, joiners, waiters, before, ready>>
  BY DEF KillInBatch, queues
<1>3. /\ ListsOf(parked') /\ before' \subseteq before
      /\ before' \subseteq parked' \X parked'
      /\ ready' \in Seq(Wake) /\ Once(ready')
  BY <1>2 DEF IInv, TypeOK, OnePlace, ListsExact, ListsOf
<1> DEFINE S == {}
<1>4. /\ S \subseteq parked \ {u} /\ parked' = (parked \ {u}) \ S
      /\ \A x \in S : wait[x].kind = "notice"
      /\ \A x : Queued(ready', x) <=> (Queued(ready, x) /\ x # u) \/ x \in S
      /\ \A w \in ToSet(ready') :
           w \in ToSet(ready) \/ (w.task \in S /\ w.answer = "ok")
  BY <1>1, <1>2
<1> HIDE DEF S
<1> QED
  BY <1>1, <1>2, <1>3, <1>4, KilledStep

LEMMA KillReadyStep ==
  ASSUME IInv, NEW t \in Task, NEW u \in Task, KillReady(t, u)
  PROVE  IInv'
<1>1. PICK i \in DOMAIN ready :
        /\ ready[i].task = u
        /\ IF ready[i].notice = None
           THEN /\ ready' = RemoveAt(ready, i)
                /\ UNCHANGED <<parked, before, waiters>>
           ELSE HandOn(ready[i].notice, RemoveAt(ready, i))
  BY DEF KillReady
<1>2. /\ killing' = u /\ killed' = killed \cup {u}
      /\ wait' = [wait EXCEPT ![u] = NoWait]
      /\ UNCHANGED <<run, phase, current, tasks, live, ended, cancelled, shields,
                     joiners, batch, now>>
  BY DEF KillReady
<1>3. Queued(ready, u)
  BY <1>1 DEF Queued, ToSet
<1>4. /\ u \in tasks /\ u # current /\ current # None /\ killing = None
      /\ u \notin parked
  BY <1>3, NoneAssumption DEF KillReady, Runs, IInv, OnePlace
<1> DEFINE q == RemoveAt(ready, i)
<1>5. /\ q \in Seq(Wake) /\ ToSet(q) \subseteq ToSet(ready) /\ Once(q)
      /\ \A x : Queued(q, x) <=> Queued(ready, x) /\ x # u
  BY <1>1, DropWake DEF IInv, TypeOK, OnePlace
<1>6. Unqueued(q)
  BY <1>5 DEF Unqueued, IInv, OnePlace
<1>7. ready[i] \in Wake
  BY DEF IInv, TypeOK
<1>8. CASE ready[i].notice = None
  <2>1. ready' = q /\ UNCHANGED <<parked, before, waiters>>
    BY <1>1, <1>8
  <2>2. /\ ListsOf(parked') /\ before' \subseteq before
        /\ before' \subseteq parked' \X parked'
    BY <1>2, <2>1 DEF IInv, TypeOK, ListsExact, ListsOf
  <2> DEFINE S == {}
  <2>3. /\ S \subseteq parked \ {u} /\ parked' = (parked \ {u}) \ S
        /\ \A x \in S : wait[x].kind = "notice"
        /\ \A x : Queued(ready', x) <=> (Queued(ready, x) /\ x # u) \/ x \in S
        /\ \A w \in ToSet(ready') :
             w \in ToSet(ready) \/ (w.task \in S /\ w.answer = "ok")
    BY <1>4, <1>5, <2>1
  <2> HIDE DEF S, q
  <2> QED
    BY <1>2, <1>4, <1>5, <2>1, <2>2, <2>3, KilledStep
<1>9. CASE ready[i].notice # None
  <2> DEFINE n == ready[i].notice
  <2>1. n \in Notifier /\ HandOn(n, q)
    BY <1>1, <1>7, <1>9 DEF Wake
  <2> HIDE DEF n, q
  <2>2. PICK S \in SUBSET parked :
           /\ Woken(S, q, "ok")
           /\ \A x \in S : wait[x].gate = n
           /\ waiters' \in [Notifier -> Seq(Task)]
           /\ \A m \in Notifier :
                /\ IsInjective(waiters'[m])
                /\ ToSet(waiters'[m]) = {x \in parked' : wait[x].gate = m}
    BY <1>6, <2>1, HandOnWakes DEF IInv
  <2>3. \A x \in S : wait[x].kind = "notice"
    BY <2>1, <2>2, NoneAssumption DEF IInv, Shapes, WaitShape
  <2>4. ListsOf(parked')
    BY <1>2, <2>2, <2>3, ListsKeepJoiners DEF IInv, Woken
  <2>5. /\ S \subseteq parked \ {u} /\ parked' = (parked \ {u}) \ S
        /\ before' \subseteq before /\ before' \subseteq parked' \X parked'
        /\ ready' \in Seq(Wake) /\ Once(ready')
        /\ \A x : Queued(ready', x) <=> (Queued(ready, x) /\ x # u) \/ x \in S
        /\ \A w \in ToSet(ready') :
             w \in ToSet(ready) \/ (w.task \in S /\ w.answer = "ok")
    BY <1>4, <1>5, <2>2 DEF Woken
  <2> QED
    BY <1>2, <1>4, <2>3, <2>4, <2>5, KilledStep
<1> QED
  BY <1>8, <1>9

-----------------------------------------------------------------------------
(* A task that ends, by its kill or by itself, answers its joiners.        *)
LEMMA EndStep ==
  ASSUME IInv, NEW u \in tasks, NEW a \in {"ok", "cancelled"}, End(u, a),
         u = (IF a = "ok" THEN current ELSE killing),
         killing # None => a = "cancelled",
         killing' = None, current' = (IF a = "ok" THEN None ELSE current),
         shields' \in [Task -> Nat],
         \A t \in Task \ {u} : shields'[t] = shields[t],
         UNCHANGED <<run, phase, killed, cancelled, wait, waiters, batch, now>>
  PROVE  IInv'
<1> DEFINE S == ToSet(joiners[u])
<1>1. /\ u \in Task /\ u # None /\ joiners[u] \in Seq(Task) /\ IsInjective(joiners[u])
      /\ S = {t \in parked : wait[t].joined = u}
  BY NoneAssumption DEF IInv, TypeOK, ListsExact
<1>2. /\ tasks' = tasks \ {u} /\ live' = live - 1 /\ ended' = ended \cup {u}
      /\ AnswerAll(joiners[u], a, None)
      /\ joiners' = [joiners EXCEPT ![u] = <<>>]
  BY DEF End
<1>3. Woken(S, ready, a)
  BY <1>1, <1>2, AnswerAllWakes, ReadyFree DEF IInv, Answers
<1>4. \A t \in S : wait[t].kind = "join" /\ wait[t].gate = None /\ wait[t].joined = u
  BY <1>1 DEF IInv, Shapes, WaitShape
<1> HIDE DEF S
<1>5. /\ u \notin parked /\ ~Queued(ready, u) /\ phase # "expire"
      /\ (a = "ok" => ~Queued(batch, u) /\ killing = None /\ u \notin killed)
      /\ (a = "cancelled" => u \in killed /\ current \in tasks \ {u})
  BY <1>1 DEF IInv, OnePlace, Shapes
<1>6. TypeOK'
  <2>1. IsFiniteSet(tasks) /\ live = Cardinality(tasks)
    BY TaskAssumption, FS_Subset DEF IInv, TypeOK, LiveCount
  <2>2. Cardinality(tasks \ {u}) = Cardinality(tasks) - 1 /\ IsFiniteSet(tasks \ {u})
    BY <2>1, FS_RemoveElement
  <2>3. live' \in Nat /\ live' = Cardinality(tasks')
    BY <1>2, <2>1, <2>2, FS_CardinalityType
  <2>4. joiners' \in [Task -> Seq(Task)]
    BY <1>2 DEF IInv, TypeOK
  <2>5. current' \in Task \cup {None}
    BY DEF IInv, TypeOK
  <2> QED
    BY <1>2, <1>3, <2>3, <2>4, <2>5 DEF IInv, TypeOK, Woken
<1>7. LiveCount'
  <2>1. IsFiniteSet(tasks) /\ live = Cardinality(tasks)
    BY TaskAssumption, FS_Subset DEF IInv, TypeOK, LiveCount
  <2> QED
    BY <1>2, <2>1, FS_RemoveElement DEF LiveCount
<1>8. OnePlace'
  <2>2. S \subseteq tasks' /\ S \subseteq Task
    BY <1>2, <1>3, <1>5 DEF IInv, OnePlace, TypeOK, Woken
  <2>3. \A t \in tasks' :
         \/ t \in {current', killing'} \cup parked'
         \/ Queued(ready', t) \/ Queued(batch', t)
    <3>1. SUFFICES ASSUME NEW t \in tasks, t # u
                   PROVE  \/ t \in {current', killing'} \cup parked'
                          \/ Queued(ready', t) \/ Queued(batch', t)
      BY <1>2
    <3>2. t \in {current'} \cup parked \/ Queued(ready, t) \/ Queued(batch, t)
      BY <3>1, NoneAssumption DEF IInv, OnePlace, TypeOK
    <3> QED
      BY <1>3, <3>2 DEF Woken
  <2>4. \A t \in Task : Queued(ready', t) => t \in tasks' /\ ~Queued(batch', t)
    BY <1>2, <1>3, <1>5, <2>2 DEF IInv, OnePlace, Woken
  <2>5. \A t \in parked' : ~Queued(ready', t) /\ ~Queued(batch', t)
    BY <1>3 DEF IInv, OnePlace, Woken
  <2>6. current' # None => /\ current' \in tasks' \ parked'
                           /\ ~Queued(ready', current') /\ ~Queued(batch', current')
    BY <1>2, <1>3, <1>5 DEF IInv, OnePlace, Woken
  <2>7. parked' \subseteq tasks' /\ Once(ready') /\ Once(batch')
    BY <1>2, <1>3, <1>5 DEF IInv, OnePlace, Woken
  <2>8. tasks' \cap ended' = {} /\ tasks' \cap killed' \subseteq {killing'}
    BY <1>2, <1>5 DEF IInv, OnePlace
  <2> QED
    BY <2>3, <2>4, <2>5, <2>6, <2>7, <2>8 DEF OnePlace
<1>9. ListsExact'
  <2>1. ASSUME NEW v \in Task
        PROVE  /\ IsInjective(joiners'[v])
               /\ ToSet(joiners'[v]) = {t \in parked' : wait'[t].joined = v}
    <3>1. CASE v = u
      <4>1. joiners'[v] = <<>>
        BY <1>2, <3>1 DEF IInv, TypeOK
      <4>2. IsInjective(<<>>) /\ ToSet(<<>>) = {}
        BY DEF IsInjective, ToSet
      <4> QED
        BY <1>1, <1>3, <3>1, <4>1, <4>2 DEF Woken
    <3>2. CASE v # u
      <4>1. joiners'[v] = joiners[v]
        BY <1>2, <3>2 DEF IInv, TypeOK
      <4> QED
        BY <1>1, <1>3, <3>2, <4>1 DEF IInv, ListsExact, Woken
    <3> QED
      BY <3>1, <3>2
  <2>2. ASSUME NEW n \in Notifier
        PROVE  /\ IsInjective(waiters'[n])
               /\ ToSet(waiters'[n]) = {t \in parked' : wait'[t].gate = n}
    BY <1>3, <1>4, NoneAssumption DEF IInv, ListsExact, Woken
  <2>3. \A t \in parked' : wait'[t].joined \in tasks' \cup {None}
    BY <1>1, <1>2, <1>3 DEF IInv, ListsExact, Woken
  <2> QED
    BY <2>1, <2>2, <2>3 DEF ListsExact
<1>10. CancelledNotParked'
  BY <1>3, <1>5 DEF IInv, CancelledNotParked, Woken, TypeOK
<1>11. Shapes'
  BY <1>3, <1>5 DEF IInv, Shapes, Woken
<1>12. Unstarted'
  BY <1>2 DEF IInv, Unstarted
<1>13. Truthful'
  <2>1. SUFFICES ASSUME NEW w \in ToSet(ready') \cup ToSet(batch') PROVE TrueWake(w)'
    BY DEF Truthful
  <2>2. w \in Wake
    BY <1>6, <2>1 DEF TypeOK, ToSet
  <2>3. CASE w \in ToSet(ready) \cup ToSet(batch)
    <3>1. TrueWake(w)
      BY <2>3 DEF IInv, Truthful
    <3>2. w.task # u => shields'[w.task] = shields[w.task]
      BY <2>2 DEF Wake
    <3>3. killing # None => killing = u
      BY DEF IInv
    <3> QED
      BY <1>2, <3>1, <3>2, <3>3, NoneAssumption DEF TrueWake, IInv, TypeOK
  <2>4. CASE w.task \in S /\ w.answer = a
    <3>1. wait[w.task].kind = "join" /\ wait[w.task].joined = u
      BY <1>4, <2>4
    <3> QED
      BY <1>2, <1>5, <2>4, <3>1 DEF TrueWake
  <2> QED
    BY <1>3, <2>1, <2>3, <2>4 DEF Woken
<1> QED
  BY <1>6, <1>7, <1>8, <1>9, <1>10, <1>11, <1>12, <1>13 DEF IInv
LEMMA KillEndStep ==
  ASSUME IInv, KillEnd
  PROVE  IInv'
<1>1. killing \in tasks
  BY DEF KillEnd, IInv, OnePlace
<1>2. /\ shields' \in [Task -> Nat]
      /\ \A t \in Task \ {killing} : shields'[t] = shields[t]
  BY DEF KillEnd, IInv, TypeOK
<1> QED
  BY <1>1, <1>2, EndStep DEF KillEnd

LEMMA ReturnStep ==
  ASSUME IInv, NEW t \in Task, Return(t)
  PROVE  IInv'
<1>1. t = current /\ t \in tasks /\ killing = None
  BY NoneAssumption DEF Return, Runs, IInv, OnePlace
<1>2. shields' = shields /\ shields \in [Task -> Nat]
  BY DEF Return, IInv, TypeOK
<1> QED
  BY <1>1, <1>2, EndStep DEF Return

(* Every run begins with the invariant.                                    *)
LEMMA InitInv == Init => IInv
<1> SUFFICES ASSUME Init PROVE IInv
  OBVIOUS
<1> USE DEF Init
<1> DEFINE w == WakeOf(Main, "ok", None)
<1>1. w \in Wake /\ w.task = Main /\ w.answer = "ok"
  BY TaskAssumption DEF WakeOf, Wake, Answers
<1>2. batch = <<w>>
  OBVIOUS
<1> HIDE DEF w
<1>3. /\ batch \in Seq(Wake) /\ Once(batch) /\ ToSet(batch) = {w}
      /\ \A t : Queued(batch, t) <=> t = Main
  <2>1. batch \in Seq(Wake) /\ DOMAIN batch = {1} /\ batch[1] = w
    BY <1>1, <1>2
  <2>2. Once(batch) /\ ToSet(batch) = {w}
    BY <2>1 DEF Once, ToSet
  <2> QED
    BY <1>1, <2>1, <2>2 DEF Queued
<1>4. /\ <<>> \in Seq(Wake) /\ Once(<<>>) /\ ToSet(<<>>) = {} /\ \A t : ~Queued(<<>>, t)
      /\ <<>> \in Seq(Task) /\ IsInjective(<<>>)
  BY DEF Once, Queued, ToSet, IsInjective
<1>5. NoWait \in Wait
  BY DEF NoWait, Wait, Kinds
<1>6. TypeOK
  BY <1>3, <1>4, <1>5, TaskAssumption DEF TypeOK
<1>7. OnePlace /\ Unstarted
  BY <1>3, <1>4, TaskAssumption, NoneAssumption DEF OnePlace, Unstarted
<1>8. ListsExact /\ CancelledNotParked /\ Shapes
  BY <1>4 DEF ListsExact, CancelledNotParked, Shapes
<1>9. LiveCount
  BY FS_Singleton DEF LiveCount
<1>10. Truthful
  BY <1>1, <1>3, <1>4, TaskAssumption DEF Truthful, TrueWake, NoWait
<1> QED
  BY <1>6, <1>7, <1>8, <1>9, <1>10 DEF IInv

(* Every step keeps it.                                                    *)
LEMMA NextInv == IInv /\ [Next]_vars => IInv'
<1> SUFFICES ASSUME IInv, [Next]_vars PROVE IInv'
  OBVIOUS
<1>1. CASE \E t \in Task : Yield(t)
  BY <1>1, YieldStep
<1>2. CASE \E t \in Task : Return(t)
  BY <1>2, ReturnStep
<1>3. CASE \E t \in Task : Raise(t)
  BY <1>3, CloseAllStep DEF Raise, Runs
<1>4. CASE \E t, u \in Task : Spawn(t, u)
  BY <1>4, SpawnStep
<1>5. CASE \E t \in Task : Shield(t) \/ Unshield(t)
  BY <1>5, ShieldStep
<1>6. CASE \E t \in Task : Kill(t)
  BY <1>6, KillParkedStep, KillReadyStep, KillInBatchStep DEF Kill
<1>7. CASE Handler
  BY <1>7, CancelStep, NotifyOneStep, NotifyAllStep, AnswerWaitsStep DEF Handler
<1>8. CASE KillEnd
  BY <1>8, KillEndStep
<1>9. CASE Turn
  <2>1. CASE Resume
    BY <2>1, ResumedStep
  <2>2. CASE PassBy
    BY <2>2, PassByStep
  <2>3. CASE RunReturns
    <3>1. /\ run' = "returned"
          /\ UNCHANGED <<phase, current, killing, tasks, live, ended, killed,
                         cancelled, shields, parked, wait, joiners, waiters,
                         before, ready, batch, now>>
      BY <2>3 DEF RunReturns, settled, waiting, queues
    <3>2. TypeOK' /\ OnePlace' /\ ListsExact' /\ LiveCount'
      BY <3>1 DEF IInv, TypeOK, OnePlace, ListsExact, LiveCount
    <3>3. CancelledNotParked' /\ Shapes' /\ Unstarted' /\ Truthful'
      BY <3>1 DEF IInv, CancelledNotParked, Shapes, Unstarted, Truthful, TrueWake
    <3> QED
      BY <3>2, <3>3 DEF IInv
  <2>4. CASE PollOnce
    BY <2>4, PollOnceStep
  <2>5. CASE PollStuck \/ PollFails
    <3>1. killing = None
      BY <2>5 DEF PollStuck, PollFails, LoopRuns, IInv, OnePlace
    <3> QED
      BY <2>5, <3>1, CloseAllStep DEF PollStuck, PollFails
  <2>6. CASE ExpireOne
    BY <2>6, ExpireOneStep
  <2>7. CASE TakeBatch
    BY <2>7, TakeBatchStep
  <2> QED
    BY <1>9, <2>1, <2>2, <2>3, <2>4, <2>5, <2>6, <2>7 DEF Turn
<1>10. CASE Tick
  BY <1>10, TickStep
<1>11. CASE UNCHANGED vars
  <2>1. UNCHANGED <<run, phase, current, killing, tasks, live, ended, killed,
                    cancelled, shields, parked, wait, joiners, waiters, before,
                    ready, batch, now>>
    BY <1>11 DEF vars, settled, waiting, queues
  <2>2. TypeOK' /\ OnePlace' /\ ListsExact' /\ LiveCount'
    BY <2>1 DEF IInv, TypeOK, OnePlace, ListsExact, LiveCount
  <2>3. CancelledNotParked' /\ Shapes' /\ Unstarted' /\ Truthful'
    BY <2>1 DEF IInv, CancelledNotParked, Shapes, Unstarted, Truthful, TrueWake
  <2> QED
    BY <2>2, <2>3 DEF IInv
<1> QED
  BY <1>1, <1>2, <1>3, <1>4, <1>5, <1>6, <1>7, <1>8, <1>9, <1>10, <1>11
     DEF Next, Stop, Call, Over

-----------------------------------------------------------------------------
(***************************************************************************)
(* The theorems.                                                           *)
(***************************************************************************)
(* The inductive invariant holds of every run.                             *)
THEOREM Invariance == Spec => []IInv
  BY InitInv, NextInv, PTL DEF Spec

(* The variables of the scheduler keep their types.                        *)
THEOREM TypeCorrect == Spec => []TypeOK
<1>1. IInv => TypeOK
  BY DEF IInv
<1> QED
  BY <1>1, Invariance, PTL

(* No wake-up is lost and no task is resumed twice for one wait: every     *)
(* task not ended is in one place, whatever kills, cancels, closings and   *)
(* timeouts fall between a wake and its resume.                            *)
THEOREM NoLostWake == Spec => []OnePlace
<1>1. IInv => OnePlace
  BY DEF IInv
<1> QED
  BY <1>1, Invariance, PTL

(* The lists of waiters and joiners hold exactly the tasks parked there.   *)
THEOREM ListsAreExact == Spec => []ListsExact
<1>1. IInv => ListsExact
  BY DEF IInv
<1> QED
  BY <1>1, Invariance, PTL

(* loop.live is the number of tasks not ended.                             *)
THEOREM LiveIsCount == Spec => []LiveCount
<1>1. IInv => LiveCount
  BY DEF IInv
<1> QED
  BY <1>1, Invariance, PTL

(* A task cancelled and unshielded is parked in no wait.                   *)
THEOREM CancelReaches == Spec => []CancelledNotParked
<1>1. IInv => CancelledNotParked
  BY DEF IInv
<1> QED
  BY <1>1, Invariance, PTL

(* Every answer a resumed wait gives is true.                              *)
THEOREM AnswersAreTrue == Spec => []Truthful
<1>1. IInv => Truthful
  BY DEF IInv
<1> QED
  BY <1>1, Invariance, PTL

(* The deadlock error is raised only of a run in which every task left     *)
(* waits, with no time limit, on another task or for its notice.           *)
THEOREM DeadlockIsReal == Spec => DeadlockHonest
<1> DEFINE Honest == run' = "deadlock" /\ run = "on" =>
                       \A t \in tasks : /\ t \in parked
                                        /\ wait[t].kind \in {"join", "notice"}
                                        /\ wait[t].at = None
<1>1. ASSUME IInv, [Next]_vars PROVE [Honest]_vars
  <2>1. SUFFICES ASSUME run' = "deadlock", run = "on", NEW t \in tasks
                 PROVE  /\ t \in parked /\ wait[t].kind \in {"join", "notice"}
                        /\ wait[t].at = None
    OBVIOUS
  <2>2. PollStuck
    BY <1>1, <2>1
       DEF Next, Yield, WaitFd, WaitReady, Delay, NotifierWait, Join, Park, Stop,
           Return, Raise, CloseAll, Call, Spawn, Shield, Unshield, Kill,
           KillParked, KillReady, KillInBatch, Handler, Cancel, NotifyOne,
           NotifyAll, AnswerWaits, KillEnd, Turn, Resume, PassBy, RunReturns,
           PollOnce, PollFails, ExpireOne, TakeBatch, Tick, Over, vars
  <2>3. /\ ready = <<>> /\ batch = <<>> /\ current = None
        /\ OnFd = {} /\ OnTimer = {}
    BY <2>2 DEF PollStuck, LoopRuns, Stuck
  <2>4. \A x : ~Queued(<<>>, x)
    BY DEF Queued, ToSet
  <2>5. t \in parked
    BY <1>1, <2>1, <2>3, <2>4, NoneAssumption DEF IInv, OnePlace, TypeOK
  <2>6. wait[t].fds = {} /\ wait[t].at = None
    BY <2>3, <2>5 DEF OnFd, OnTimer
  <2>7. WaitShape(wait[t]) /\ wait[t].kind \in Kinds
    BY <1>1, <2>5 DEF IInv, Shapes, TypeOK, Wait
  <2> QED
    BY <2>5, <2>6, <2>7 DEF WaitShape, Kinds
<1> QED
  BY <1>1, Invariance, PTL DEF Spec, DeadlockHonest

-----------------------------------------------------------------------------
(***************************************************************************)
(* The stamp: a count in units, and the number of a signal below the unit. *)
(***************************************************************************)
LEMMA Remainder ==
  ASSUME NEW U \in Nat \ {0}, NEW k \in Nat, NEW s \in 0 .. U - 1
  PROVE  (k * U + s) % U = s
BY Z3

IsStamp(x) == x \in Nat /\ (x = 0 \/ x % Unit \in Signals)

(* A signal moves the stamp on, and the new stamp names it.                *)
LEMMA StampMoves ==
  ASSUME NEW x \in Nat, NEW s \in Signals
  PROVE  /\ (x \div Unit + 1) * Unit + s \in Nat
         /\ (x \div Unit + 1) * Unit + s > x
         /\ ((x \div Unit + 1) * Unit + s) % Unit = s
<1> DEFINE q == x \div Unit
<1>1. Unit \in Nat \ {0} /\ s \in 1 .. Unit - 1
  BY GuardAssumption
<1>2. q \in Nat /\ x = Unit * q + (x % Unit) /\ x % Unit \in 0 .. Unit - 1
  BY <1>1, Z3
<1> HIDE DEF q
<1>3. (q + 1) * Unit = Unit * q + Unit /\ (q + 1) * Unit \in Nat
  BY <1>1, <1>2, Z3
<1>4. ((q + 1) * Unit + s) % Unit = s
  <2>1. q + 1 \in Nat /\ s \in 0 .. Unit - 1
    BY <1>1, <1>2
  <2> QED
    BY <1>1, <2>1, Remainder
<1>5. (q + 1) * Unit + s \in Nat /\ (q + 1) * Unit + s > x
  BY <1>1, <1>2, <1>3
<1> QED
  BY <1>4, <1>5 DEF q

-----------------------------------------------------------------------------
(***************************************************************************)
(* The inductive invariant.  Stamps says that every stamp kept names a     *)
(* signal, and that a guard not opened yet has read nothing; Asked that a  *)
(* task in a wait waits on a guard that was opened; Covered that,          *)
(* while the process lives, the last signal caught is kept by a released   *)
(* guard, or will reach somebody: it is owed already, or a guard still     *)
(* open was opened before it.                                              *)
(***************************************************************************)
Stamps ==
  /\ IsStamp(stamp) /\ IsStamp(owed) /\ owed <= stamp
  /\ \A g \in Guard : IsStamp(read[g])
  /\ \A g \in Guard : status[g] = "new" => read[g] = opened[g]

Asked == \A t \in Waiter : at[t] # "idle" => status[on[t]] # "new"

Kept == \E g \in Guard : status[g] = "released" /\ read[g] = stamp /\ signal[g] # 0

Covered ==
  died = 0 =>
    \/ stamp = 0 \/ Kept
    \/ depth > 0 /\ (owed = stamp \/ \E g \in Guard : IsOpen(g) /\ opened[g] # stamp)

GuardInv == GuardsAgree /\ Stamps /\ Asked /\ Covered

(* A guard that closes: what is left of the open ones.                     *)
LEMMA LeftGuards ==
  ASSUME GuardTypeOK, NEW g \in Guard, IsOpen(g)
  PROVE  /\ Left(g) \in Seq(Guard) /\ IsInjective(Left(g))
         /\ Len(Left(g)) = Len(guards) - 1
         /\ ToSet(Left(g)) = {h \in Guard : IsOpen(h)} \ {g}
<1> DEFINE i == CHOOSE k \in DOMAIN guards : guards[k] = g
<1>1. g \in ToSet(guards)
  BY DEF GuardTypeOK
<1>2. i \in DOMAIN guards /\ guards[i] = g
  BY <1>1 DEF ToSet
<1>3. Left(g) = RemoveAt(guards, i)
  BY DEF Left
<1>4. guards \in Seq(Guard) /\ IsInjective(guards) /\ ToSet(guards) = {h \in Guard : IsOpen(h)}
  BY DEF GuardTypeOK
<1> HIDE DEF i
<1>5. Left(g) \in Seq(Guard) /\ Len(Left(g)) = Len(guards) - 1
  BY <1>2, <1>3, <1>4, RemoveAtPlaces
<1>6. IsInjective(Left(g)) /\ ToSet(Left(g)) = ToSet(guards) \ {g}
  BY <1>2, <1>3, <1>4, RemoveEntry
<1> QED
  BY <1>4, <1>5, <1>6

(* The innermost guard is one of the open ones.                            *)
LEMMA InnermostIsOpen ==
  ASSUME NEW S, NEW q \in Seq(S), q # <<>>
  PROVE  Last(q) \in ToSet(q)
BY DEF Last, ToSet

(* A stamp of no signal is 0, and the others name theirs.                  *)
LEMMA StampNames ==
  ASSUME NEW x, IsStamp(x)
  PROVE  /\ x % Unit \in Signals \cup {0}
         /\ x % Unit = 0 <=> x = 0
<1>1. Unit \in Nat \ {0} /\ Signals \subseteq 1 .. Unit - 1
  BY GuardAssumption
<1>2. 0 % Unit = 0
  BY <1>1, Z3
<1> QED
  BY <1>1, <1>2 DEF IsStamp

-----------------------------------------------------------------------------
(***************************************************************************)
(* The invariant, step by step.                                            *)
(***************************************************************************)
LEMMA GuardInitInv == GuardInit => GuardInv
<1> SUFFICES ASSUME GuardInit PROVE GuardInv
  OBVIOUS
<1> USE GuardAssumption DEF GuardInit
<1>1. ToSet(guards) = {} /\ IsInjective(guards) /\ Len(guards) = 0 /\ guards \in Seq(Guard)
  BY DEF ToSet, IsInjective
<1>2. GuardTypeOK
  BY <1>1 DEF GuardTypeOK, IsOpen
<1>3. CoreAgrees /\ SeesSince /\ ParkedOnOpen
  BY DEF CoreAgrees, SeesSince, ParkedOnOpen
<1>4. Stamps /\ Asked /\ Covered
  BY DEF Stamps, IsStamp, Asked, Covered
<1> QED
  BY <1>2, <1>3, <1>4 DEF GuardInv, GuardsAgree

(* A signal comes.                                                         *)
LEMMA SignalStep ==
  ASSUME GuardInv, NEW s \in Signals, Signal(s)
  PROVE  GuardInv'
<1> USE DEF GuardInv, GuardsAgree, core, state
<1>1. CASE depth = 0
  BY <1>1, GuardAssumption
     DEF Signal, GuardTypeOK, IsOpen, CoreAgrees, SeesSince, ParkedOnOpen, Stamps, IsStamp,
         Asked, Covered, Kept
<1>2. CASE depth # 0
  <2>1. stamp \in Nat /\ depth \in Nat /\ guards # <<>> /\ depth > 0
    BY <1>2 DEF GuardTypeOK
  <2>2. /\ stamp' \in Nat /\ stamp' > stamp /\ stamp' % Unit = s /\ readable' = TRUE
        /\ UNCHANGED <<depth, read_to, died, guards, status, state, owed, at, on, opened>>
    BY <1>2, <2>1, StampMoves DEF Signal
  <2>3. GuardTypeOK'
    BY <2>2 DEF GuardTypeOK, IsOpen
  <2>4. CoreAgrees' /\ SeesSince' /\ ParkedOnOpen'
    BY <2>1, <2>2 DEF GuardTypeOK, CoreAgrees, SeesSince, ParkedOnOpen, IsOpen
  <2>5. Stamps' /\ Asked'
    BY <2>1, <2>2 DEF GuardTypeOK, Stamps, IsStamp, Asked
  <2>6. Last(guards) \in ToSet(guards)
    BY <2>1, InnermostIsOpen DEF GuardTypeOK
  <2>7. PICK g \in Guard : IsOpen(g)
    BY <2>6 DEF GuardTypeOK
  <2>8. opened[g] <= stamp /\ opened[g] \in Nat
    BY DEF SeesSince, GuardTypeOK
  <2>9. Covered'
    BY <2>1, <2>2, <2>7, <2>8 DEF Covered, IsOpen
  <2> QED
    BY <2>3, <2>4, <2>5, <2>9
<1> QED
  BY <1>1, <1>2

(* A guard opens inside the others.                                        *)
LEMMA OpenStep ==
  ASSUME GuardInv, NEW g \in Guard, guard(g)
  PROVE  GuardInv'
<1> USE DEF GuardInv, GuardsAgree
<1>1. /\ guards \in Seq(Guard) /\ IsInjective(guards) /\ g \notin ToSet(guards)
      /\ guards' = Append(guards, g)
  BY DEF guard, GuardTypeOK, IsOpen
<1>2. /\ guards' \in Seq(Guard) /\ IsInjective(guards') /\ Len(guards') = Len(guards) + 1
      /\ ToSet(guards') = ToSet(guards) \cup {g} /\ Last(guards') = g
  BY <1>1, ToSetAppend, AppendOnce DEF Last
<1>3. ToSet(guards') = {h \in Guard : IsOpen(h)}'
  BY <1>2 DEF guard, GuardTypeOK, IsOpen
<1>4. GuardTypeOK'
  BY <1>2, <1>3 DEF guard, GuardTypeOK, guard_child_signals
<1>5. CoreAgrees'
  BY <1>2 DEF guard, guard_child_signals, CoreAgrees, GuardTypeOK
<1>6. SeesSince' /\ ParkedOnOpen'
  BY DEF guard, SeesSince, ParkedOnOpen, GuardTypeOK, Stamps, IsOpen
<1>7. Stamps' /\ Asked'
  BY GuardAssumption DEF guard, Stamps, IsStamp, Asked, GuardTypeOK
<1>8. Covered'
  BY DEF guard, guard_child_signals, Covered, Kept, GuardTypeOK, IsOpen
<1> QED
  BY <1>4, <1>5, <1>6, <1>7, <1>8

(* A caller reads a guard, open or closed.                                 *)
LEMMA ReadStep ==
  ASSUME GuardInv, NEW g \in Guard, status[g] # "new",
         NEW kept \in Signals \cup {0}, read_guard(g, kept),
         UNCHANGED <<stamp, depth, died, guards, status, owed, opened>>,
         readable' \in BOOLEAN, on' \in [Waiter -> Waited],
         at' \in [Waiter -> {"idle", "parked", "ready", "batch", "drained"}],
         ParkedOnOpen', Asked'
  PROVE  GuardInv'
<1> USE DEF GuardInv, GuardsAgree
<1>1. stamp % Unit \in Signals \cup {0} /\ stamp \in Nat
  BY StampNames DEF Stamps, IsStamp
<1>2. GuardTypeOK'
  <2>1. /\ read_to' \in Nat /\ read' \in [Guard -> Nat]
        /\ fresh' \in [Guard -> Signals \cup {0}] /\ signal' \in [Guard -> Signals \cup {0}]
    <3>1. CASE IsOpen(g)
      BY <1>1, <3>1 DEF GuardTypeOK, read_guard, Noted, child_signal_read
    <3>2. CASE ~IsOpen(g)
      BY <3>2 DEF GuardTypeOK, read_guard
    <3> QED BY <3>1, <3>2
  <2> QED BY <1>1, <2>1 DEF GuardTypeOK, IsOpen
<1>3. CoreAgrees'
  <2>1. guards # <<>> => Last(guards) \in Guard
    BY InnermostIsOpen DEF GuardTypeOK
  <2> QED
    BY <2>1 DEF GuardTypeOK, CoreAgrees, read_guard, Noted, child_signal_read
<1>4. SeesSince'
  <2>1. CASE IsOpen(g)
    <3>1. Noted(g, kept)
      BY <2>1 DEF read_guard
    <3> QED
      BY <1>1, <3>1 DEF GuardTypeOK, SeesSince, Noted
  <2>2. CASE ~IsOpen(g)
    BY <2>2 DEF SeesSince, read_guard
  <2> QED
    BY <2>1, <2>2
<1>5. Stamps'
  BY DEF GuardTypeOK, Stamps, IsStamp, read_guard, Noted, IsOpen
<1>6. Covered'
  BY DEF GuardTypeOK, Covered, Kept, read_guard, Noted, IsOpen
<1> QED
  BY <1>2, <1>3, <1>4, <1>5, <1>6

(* The signal a guard has to take is one, or none.                         *)
LEMMA FreshIsSignal ==
  ASSUME GuardInv, NEW g \in Guard
  PROVE  Fresh(g) \in Signals \cup {0}
BY StampNames DEF GuardInv, GuardsAgree, GuardTypeOK, Stamps, Fresh

(* What closing and releasing a guard share.                               *)
LEMMA RestoreStep ==
  ASSUME GuardInv, NEW g \in Guard, NEW how \in {"closed", "released"},
         restore_guard(g, how)
  PROVE  /\ owed' \in Nat /\ died' \in Signals \cup {0} => GuardsAgree'
         /\ Asked' /\ \A h \in Guard : IsStamp(read'[h])
         /\ \A h \in Guard : status'[h] = "new" => read'[h] = opened'[h]
         /\ read'[g] = stamp /\ stamp' = stamp
         /\ signal'[g] = IF opened[g] = stamp THEN 0 ELSE stamp % Unit
         /\ guards' = <<>> <=> \A h \in Guard : IsOpen(h) => h = g
         /\ depth' = Len(guards')
<1> USE DEF GuardInv, GuardsAgree
<1>1. stamp % Unit \in Signals \cup {0} /\ stamp \in Nat
  BY StampNames DEF Stamps, IsStamp
<1>2. IsOpen(g) /\ guards' = Left(g) /\ stamp' = stamp /\ opened' = opened /\ on' = on
  BY DEF restore_guard
<1>3. /\ guards' \in Seq(Guard) /\ IsInjective(guards') /\ Len(guards') = Len(guards) - 1
      /\ ToSet(guards') = {h \in Guard : IsOpen(h)} \ {g}
  BY <1>2, LeftGuards
<1>4. Len(guards) \in Nat /\ depth = Len(guards)
  BY DEF GuardTypeOK
<1>5. guards' # <<>> => Last(guards') \in ToSet(guards')
  BY <1>3, InnermostIsOpen
<1>6. guards' = <<>> <=> \A h \in Guard : IsOpen(h) => h = g
  <2>1. guards' = <<>> => ToSet(guards') = {}
    BY DEF ToSet
  <2> QED
    BY <1>3, <1>5, <2>1
<1>7. status' = [status EXCEPT ![g] = how] /\ at' = Closing
  BY DEF restore_guard
<1>8. ToSet(guards') = {h \in Guard : IsOpen(h)}'
  BY <1>3, <1>7 DEF GuardTypeOK, IsOpen
<1>9. Noted(g, Fresh(g)) /\ Fresh(g) \in Signals \cup {0}
  BY FreshIsSignal DEF restore_guard
<1>10. /\ depth' = depth - 1 /\ readable' = (depth > 1 /\ readable)
       /\ read_to' = IF depth > 1 THEN IF guards' = <<>> THEN 0 ELSE read[Last(guards')]
                     ELSE read_to
  BY DEF restore_guard, unguard_child_signals
<1>11. read_to' \in Nat /\ readable' \in BOOLEAN /\ depth' = Len(guards')
  BY <1>3, <1>4, <1>5, <1>10 DEF GuardTypeOK
<1>12. at' \in [Waiter -> {"idle", "parked", "ready", "batch", "drained"}]
  BY <1>7 DEF GuardTypeOK, Closing
<1>13. /\ read' \in [Guard -> Nat] /\ fresh' \in [Guard -> Signals \cup {0}]
       /\ signal' \in [Guard -> Signals \cup {0}] /\ read'[g] = stamp
  BY <1>1, <1>9 DEF GuardTypeOK, Noted
<1>14. owed' \in Nat /\ died' \in Signals \cup {0} => GuardTypeOK'
  BY <1>1, <1>2, <1>3, <1>7, <1>8, <1>11, <1>12, <1>13 DEF GuardTypeOK
<1>15. CoreAgrees'
  BY <1>3, <1>4, <1>5, <1>9, <1>10 DEF GuardTypeOK, CoreAgrees, Noted
<1>16. SeesSince'
  BY <1>1, <1>2, <1>9 DEF GuardTypeOK, SeesSince, Noted
<1>17. ParkedOnOpen'
  BY <1>7 DEF GuardTypeOK, ParkedOnOpen, Closing
<1>18. /\ Asked' /\ \A h \in Guard : IsStamp(read'[h])
       /\ \A h \in Guard : status'[h] = "new" => read'[h] = opened'[h]
  <2>1. Asked'
    BY <1>2, <1>7 DEF GuardTypeOK, Asked, Closing
  <2> QED
    BY <1>2, <1>7, <1>9, <2>1 DEF GuardTypeOK, Stamps, Noted, IsOpen
<1>19. signal'[g] = IF opened[g] = stamp THEN 0 ELSE stamp % Unit
  BY <1>2, <1>13, <1>16 DEF SeesSince
<1> QED
  BY <1>2, <1>6, <1>11, <1>13, <1>14, <1>15, <1>16, <1>17, <1>18, <1>19

(* The owner closes a guard: the last delivers what was caught, any other  *)
(* leaves it owed.                                                         *)
LEMMA CloseStep ==
  ASSUME GuardInv, NEW g \in Guard, close(g)
  PROVE  GuardInv'
<1>1. /\ IsStamp(stamp) /\ IsStamp(owed) /\ owed <= stamp /\ stamp \in Nat /\ owed \in Nat
      /\ stamp % Unit \in Signals \cup {0} /\ stamp % Unit = 0 <=> stamp = 0
      /\ owed % Unit \in Signals \cup {0} /\ owed % Unit = 0 <=> owed = 0
  BY StampNames DEF GuardInv, Stamps, IsStamp
<1>2. /\ owed' \in Nat /\ died' \in Signals \cup {0} => GuardsAgree'
      /\ Asked' /\ \A h \in Guard : IsStamp(read'[h])
      /\ \A h \in Guard : status'[h] = "new" => read'[h] = opened'[h]
      /\ read'[g] = stamp /\ stamp' = stamp
      /\ signal'[g] = IF opened[g] = stamp THEN 0 ELSE stamp % Unit
      /\ guards' = <<>> <=> \A h \in Guard : IsOpen(h) => h = g
      /\ depth' = Len(guards')
  BY RestoreStep DEF close
<1>3. /\ IsOpen(g) /\ died = 0 /\ opened' = opened
      /\ status' = [status EXCEPT ![g] = "closed"] /\ Noted(g, Fresh(g))
      /\ guards' \in Seq(Guard)
  BY LeftGuards DEF close, restore_guard, BetweenSteps, GuardInv, GuardsAgree
<1>4. /\ IF guards' = <<>>
         THEN owed' = 0 /\ died' = IF signal'[g] # 0 THEN signal'[g] ELSE owed % Unit
         ELSE /\ owed' = IF signal'[g] # 0 /\ stamp > owed THEN stamp ELSE owed
              /\ died' = 0
  BY <1>2 DEF close
<1>5. owed' \in Nat /\ died' \in Signals \cup {0} /\ IsStamp(owed') /\ owed' <= stamp
  BY <1>1, <1>2, <1>4 DEF IsStamp
<1>6. Stamps'
  BY <1>1, <1>2, <1>5 DEF Stamps, IsStamp
<1>7. Covered'
  <2>1. SUFFICES ASSUME died' = 0, stamp # 0 PROVE Covered'
    BY <1>2 DEF Covered
  <2>2. CASE Kept
    BY <1>2, <1>3, <2>2 DEF Covered, Kept, IsOpen, Noted, GuardInv, GuardsAgree, GuardTypeOK
  <2>3. CASE ~Kept /\ guards' = <<>>
    <3>1. opened[g] = stamp /\ owed = 0
      BY <1>1, <1>2, <1>4, <2>1, <2>3
    <3>2. owed = stamp \/ \E h \in Guard : IsOpen(h) /\ opened[h] # stamp
      BY <1>3, <2>1, <2>3 DEF GuardInv, Covered
    <3> QED
      BY <1>2, <2>1, <2>3, <3>1, <3>2
  <2>4. CASE ~Kept /\ guards' # <<>>
    <3>1. depth' > 0
      BY <1>2, <1>3, <2>4
    <3>2. owed = stamp \/ \E h \in Guard : IsOpen(h) /\ opened[h] # stamp
      BY <1>3, <2>1, <2>4 DEF GuardInv, Covered
    <3>3. CASE owed = stamp \/ opened[g] # stamp
      BY <1>1, <1>2, <1>4, <2>1, <2>4, <3>1, <3>3 DEF Covered
    <3>4. CASE opened[g] = stamp /\ \E h \in Guard : IsOpen(h) /\ opened[h] # stamp
      BY <1>2, <1>3, <3>1, <3>4 DEF Covered, IsOpen
    <3> QED
      BY <3>2, <3>3, <3>4
  <2> QED
    BY <2>2, <2>3, <2>4
<1> QED
  BY <1>2, <1>5, <1>6, <1>7 DEF GuardInv

(* The owner releases a guard and keeps its signal.                        *)
LEMMA ReleaseStep ==
  ASSUME GuardInv, NEW g \in Guard, release(g)
  PROVE  GuardInv'
<1>1. /\ IsStamp(stamp) /\ IsStamp(owed) /\ owed <= stamp /\ stamp \in Nat /\ owed \in Nat
      /\ stamp % Unit = 0 <=> stamp = 0
      /\ owed % Unit \in Signals \cup {0} /\ owed % Unit = 0 <=> owed = 0
  BY StampNames DEF GuardInv, Stamps, IsStamp
<1>2. /\ owed' \in Nat /\ died' \in Signals \cup {0} => GuardsAgree'
      /\ Asked' /\ \A h \in Guard : IsStamp(read'[h])
      /\ \A h \in Guard : status'[h] = "new" => read'[h] = opened'[h]
      /\ read'[g] = stamp /\ stamp' = stamp
      /\ signal'[g] = IF opened[g] = stamp THEN 0 ELSE stamp % Unit
      /\ guards' = <<>> <=> \A h \in Guard : IsOpen(h) => h = g
      /\ depth' = Len(guards')
  BY RestoreStep DEF release
<1>3. /\ IsOpen(g) /\ died = 0 /\ opened' = opened
      /\ status' = [status EXCEPT ![g] = "released"] /\ Noted(g, Fresh(g))
      /\ guards' \in Seq(Guard)
  BY LeftGuards DEF release, restore_guard, BetweenSteps, GuardInv, GuardsAgree
<1>4. IF guards' = <<>>
      THEN owed' = 0 /\ died' = IF signal'[g] = 0 THEN owed % Unit ELSE 0
      ELSE owed' = owed /\ died' = died
  BY DEF release
<1>5. owed' \in Nat /\ died' \in Signals \cup {0} /\ IsStamp(owed') /\ owed' <= stamp
  BY <1>1, <1>3, <1>4 DEF IsStamp
<1>6. Stamps'
  BY <1>1, <1>2, <1>5 DEF Stamps, IsStamp
<1>7. Covered'
  <2>1. SUFFICES ASSUME died' = 0, stamp # 0 PROVE Covered'
    BY <1>2 DEF Covered
  <2>2. CASE Kept
    BY <1>2, <1>3, <2>2 DEF Covered, Kept, IsOpen, Noted, GuardInv, GuardsAgree, GuardTypeOK
  <2>3. CASE opened[g] # stamp
    BY <1>1, <1>2, <1>3, <2>1, <2>3 DEF Covered, Kept, GuardInv, GuardsAgree, GuardTypeOK
  <2>4. CASE ~Kept /\ opened[g] = stamp
    <3>1. owed = stamp \/ \E h \in Guard : IsOpen(h) /\ opened[h] # stamp
      BY <1>3, <2>1, <2>4 DEF GuardInv, Covered
    <3>2. guards' # <<>>
      BY <1>1, <1>2, <1>4, <2>1, <2>4, <3>1
    <3>3. depth' > 0
      BY <1>2, <1>3, <3>2
    <3> QED
      BY <1>2, <1>3, <1>4, <2>4, <3>1, <3>2, <3>3 DEF Covered, IsOpen
  <2> QED
    BY <2>2, <2>3, <2>4
<1> QED
  BY <1>2, <1>5, <1>6, <1>7 DEF GuardInv

(* Every step keeps the invariant.                                         *)
LEMMA GuardNextInv == GuardInv /\ [GuardNext]_guardVars => GuardInv'
<1> SUFFICES ASSUME GuardInv, [GuardNext]_guardVars PROVE GuardInv'
  OBVIOUS
<1>1. ASSUME NEW s \in Signals, Signal(s) PROVE GuardInv'
  BY <1>1, SignalStep
<1>2. ASSUME NEW g \in Guard, guard(g) PROVE GuardInv'
  BY <1>2, OpenStep
<1>3. ASSUME NEW g \in Guard, guard_cancelled(g) PROVE GuardInv'
  <2>1. ParkedOnOpen' /\ Asked' /\ status[g] # "new"
    BY <1>3 DEF guard_cancelled, GuardInv, GuardsAgree, ParkedOnOpen, Asked, IsOpen
  <2> QED
    BY <1>3, <2>1, ReadStep, FreshIsSignal DEF guard_cancelled, GuardInv, GuardsAgree, GuardTypeOK
<1>4. ASSUME NEW g \in Guard, take(g) PROVE GuardInv'
  <2>1. ParkedOnOpen' /\ Asked'
    BY <1>4 DEF take, GuardInv, GuardsAgree, ParkedOnOpen, Asked, IsOpen
  <2> QED
    BY <1>4, <2>1, ReadStep DEF take, GuardInv, GuardsAgree, GuardTypeOK
<1>5. ASSUME NEW g \in Guard, close(g) PROVE GuardInv'
  BY <1>5, CloseStep
<1>6. ASSUME NEW g \in Guard, release(g) PROVE GuardInv'
  BY <1>6, ReleaseStep
<1>7. ASSUME NEW t \in Waiter, NEW g \in Guard, status[g] # "new", Asks(t, g),
             on' \in [Waiter -> Waited], on'[t] = g, \A u \in Waiter \ {t} : on'[u] = on[u]
      PROVE  GuardInv'
  <2>1. at' \in [Waiter -> {"idle", "parked", "ready", "batch", "drained"}]
    BY <1>7 DEF Asks, GuardInv, GuardsAgree, GuardTypeOK
  <2>2. ParkedOnOpen' /\ Asked'
    BY <1>7 DEF Asks, GuardInv, GuardsAgree, GuardTypeOK, ParkedOnOpen, Asked, IsOpen
  <2> QED
    BY <1>7, <2>1, <2>2, ReadStep DEF Asks, GuardInv, GuardsAgree, GuardTypeOK
<1>8. ASSUME NEW t \in Waiter, NEW g \in Waited, guard_wait(t, g) PROVE GuardInv'
  BY <1>7, <1>8, GuardAssumption DEF guard_wait, GuardInv, GuardsAgree, GuardTypeOK
<1>9. ASSUME NEW t \in Waiter, AsksAgain(t) PROVE GuardInv'
  BY <1>7, <1>9, GuardAssumption DEF AsksAgain, Asked, GuardInv, GuardsAgree, GuardTypeOK
<1>10. ASSUME at' \in [Waiter -> {"idle", "parked", "ready", "batch", "drained"}],
              \A t \in Waiter : at'[t] = "parked" => at[t] = "parked",
              \A t \in Waiter : at[t] = "idle" => at'[t] = "idle", readable' \in BOOLEAN,
              UNCHANGED <<stamp, depth, read_to, died, guards, status, state, owed, on, opened>>
       PROVE  GuardInv'
  BY <1>10 DEF state, GuardInv, GuardsAgree, GuardTypeOK, CoreAgrees, SeesSince, ParkedOnOpen,
               Stamps, IsStamp, Asked, Covered, Kept, IsOpen
<1>11. ASSUME NEW t \in Waiter, Resumes(t) \/ GivesUp(t) PROVE GuardInv'
  BY <1>10, <1>11 DEF Resumes, GivesUp, core, GuardInv, GuardsAgree, GuardTypeOK
<1>12. CASE GuardTurn
  BY <1>10, <1>12 DEF GuardTurn, core, GuardInv, GuardsAgree, GuardTypeOK
<1>13. CASE UNCHANGED guardVars
  BY <1>10, <1>13 DEF guardVars, core, GuardInv, GuardsAgree, GuardTypeOK
<1> QED
  BY <1>1, <1>2, <1>3, <1>4, <1>5, <1>6, <1>8, <1>9, <1>11, <1>12, <1>13 DEF GuardNext, Dead

-----------------------------------------------------------------------------
(* The invariant holds of every run of the guards.                         *)
THEOREM GuardInvariance == GuardSpec => []GuardInv
BY GuardInitInv, GuardNextInv, PTL DEF GuardSpec

(* However guards are opened, read, closed and released, and whenever a    *)
(* signal comes, the core's waits ask for the innermost guard, every guard *)
(* answers the signals since it opened, and no task stays parked on a pipe *)
(* that closed.                                                            *)
THEOREM GuardsAgreeAlways == GuardSpec => []GuardsAgree
<1>1. GuardInv => GuardsAgree
  BY DEF GuardInv
<1> QED
  BY <1>1, GuardInvariance, PTL

(* A process that outlives its guards has had the last signal caught       *)
(* answered by a guard it released.                                        *)
THEOREM SignalsNotLost == GuardSpec => []NoSignalLost
<1>1. GuardInv => NoSignalLost
  BY DEF GuardInv, GuardsAgree, GuardTypeOK, Covered, Kept, NoSignalLost
<1> QED
  BY <1>1, GuardInvariance, PTL
=============================================================================
