----------------------------- MODULE LoopProofs -----------------------------
(***************************************************************************)
(* Proofs about the tables of a run of cosmic.poll, for any number of      *)
(* waits and descriptors: the heap of timers (module PollTimers) and the   *)
(* packed tables of descriptors (module PollWatch).  Both are kept by      *)
(* loops; what a loop has done after n turns is shown by induction on n.   *)
(***************************************************************************)
EXTENDS PollTimers, PollWatch, SequenceLemmas, FiniteSetTheorems

LEMMA HalfOf ==
  /\ \A j \in Nat : j >= 2 => j \div 2 \in Nat /\ j \div 2 >= 1 /\ j \div 2 < j
  /\ \A j \in Nat : j \div 2 \in Nat /\ 2 * (j \div 2) <= j /\ j <= 2 * (j \div 2) + 1
  /\ \A i, j \in Nat : j \div 2 = i => j = 2 * i \/ j = 2 * i + 1
OBVIOUS

LEMMA EarlierOrders ==
  /\ \A a, b, c \in Entry : earlier(a, b) /\ earlier(b, c) => earlier(a, c)
  /\ \A a, b \in Entry : a.seq # b.seq => earlier(a, b) \/ earlier(b, a)
  /\ \A a, b \in Entry : ~(earlier(a, b) /\ earlier(b, a))
  /\ \A a, b \in Entry : earlier(a, b) \in BOOLEAN
BY TimersAssumption DEF Entry, earlier

Distinct(h) == \A i, j \in DOMAIN h : h[i].seq = h[j].seq => i = j
Queue == {h \in Seq(Entry) : Distinct(h)}
Reordered(g, h) == g \in Queue /\ Len(g) = Len(h) /\ ToSet(g) = ToSet(h)

LEMMA QueueIs ==
  ASSUME NEW h \in Queue
  PROVE  /\ h \in Seq(Entry) /\ Len(h) \in Nat /\ DOMAIN h = 1 .. Len(h)
         /\ \A i \in 1 .. Len(h) : h[i] \in Entry
         /\ \A i, j \in 1 .. Len(h) : i # j => h[i].seq # h[j].seq
BY DEF Queue, Distinct

LEMMA Swapped ==
  ASSUME NEW h \in Queue, NEW i \in DOMAIN h, NEW j \in DOMAIN h
  PROVE  /\ Reordered(SwapTimers(h, i, j), h)
         /\ SwapTimers(h, i, j)[i] = h[j] /\ SwapTimers(h, i, j)[j] = h[i]
         /\ \A k \in DOMAIN h : k # i /\ k # j => SwapTimers(h, i, j)[k] = h[k]
<1> DEFINE g == SwapTimers(h, i, j)
<1>1. h \in Seq(Entry) /\ Len(h) \in Nat /\ DOMAIN h = 1 .. Len(h) /\ \A k, l \in 1 .. Len(h) : k # l => h[k].seq # h[l].seq
  BY QueueIs
<1>2. /\ g \in Seq(Entry) /\ Len(g) = Len(h) /\ DOMAIN g = DOMAIN h
      /\ g[i] = h[j] /\ g[j] = h[i] /\ \A k \in DOMAIN h : k # i /\ k # j => g[k] = h[k]
  BY <1>1 DEF SwapTimers
<1> HIDE DEF g
<1>3. Distinct(g)
  BY <1>1, <1>2 DEF Distinct
<1>4. ToSet(g) = ToSet(h)
  BY <1>2 DEF ToSet
<1> QED BY <1>2, <1>3, <1>4 DEF Reordered, Queue, g

(* Every slot but i is later than its parent, and what hangs below i is    *)
(* later than what is above it.                                            *)
Rising(h, i) ==
  \A j \in 2 .. Len(h) :
     /\ j # i => earlier(h[j \div 2], h[j])
     /\ (j \div 2 = i /\ i > 1) => earlier(h[i \div 2], h[j])

Ordered(h) == \A i \in 2 .. Len(h) : earlier(h[i \div 2], h[i])

LEMMA RisesOne ==
  ASSUME NEW h \in Queue, NEW i \in 2 .. Len(h), Rising(h, i), earlier(h[i], h[i \div 2])
  PROVE  Rising(SwapTimers(h, i, i \div 2), i \div 2)
<1> DEFINE p == i \div 2
           g == SwapTimers(h, i, p)
<1>1. /\ Len(h) \in Nat /\ DOMAIN h = 1 .. Len(h)
      /\ \A k \in 1 .. Len(h) : h[k] \in Entry
  BY QueueIs
<1>2. p \in 1 .. Len(h) /\ p < i /\ i \in 1 .. Len(h) /\ i \in Nat
  BY <1>1, HalfOf
<1>3. /\ Len(g) = Len(h) /\ g[i] = h[p] /\ g[p] = h[i]
      /\ \A k \in 1 .. Len(h) : k # i /\ k # p => g[k] = h[k]
  <2>1. i \in DOMAIN h /\ p \in DOMAIN h
    BY <1>1, <1>2
  <2> HIDE DEF p
  <2>2. /\ Reordered(g, h) /\ g[i] = h[p] /\ g[p] = h[i]
        /\ \A k \in DOMAIN h : k # i /\ k # p => g[k] = h[k]
    BY <2>1, Swapped
  <2> QED BY <2>2, <1>1 DEF Reordered
<1> HIDE DEF g
<1> SUFFICES ASSUME NEW j \in 2 .. Len(h)
             PROVE  /\ j # p => earlier(g[j \div 2], g[j])
                    /\ (j \div 2 = p /\ p > 1) => earlier(g[p \div 2], g[j])
  BY <1>3 DEF Rising, g
<1>4. j \div 2 \in 1 .. Len(h) /\ j \div 2 < j /\ j \in 1 .. Len(h)
  BY <1>1, HalfOf
<1>5. ASSUME p > 1 PROVE p \div 2 \in 1 .. Len(h) /\ p \div 2 < p /\ p \in 2 .. Len(h)
  BY <1>1, <1>2, <1>5, HalfOf
<1>6. ASSUME j # p PROVE earlier(g[j \div 2], g[j])
  <2>1. CASE j = i
    BY <2>1, <1>3
  <2>2. CASE j # i /\ j \div 2 = i
    BY <2>2, <1>2, <1>3, <1>4, <1>6 DEF Rising
  <2>3. CASE j # i /\ j \div 2 = p
    <3>1. earlier(h[p], h[j])
      BY <2>3 DEF Rising
    <3>2. earlier(h[i], h[j])
      BY <3>1, <1>1, <1>2, <1>4, EarlierOrders
    <3> QED BY <3>2, <2>3, <1>3, <1>4, <1>6
  <2>4. CASE j # i /\ j \div 2 # i /\ j \div 2 # p
    BY <2>4, <1>3, <1>4, <1>6 DEF Rising
  <2> QED BY <2>1, <2>2, <2>3, <2>4
<1>7. ASSUME j \div 2 = p, p > 1 PROVE earlier(g[p \div 2], g[j])
  <2>1. g[p \div 2] = h[p \div 2] /\ earlier(h[p \div 2], h[p])
    BY <1>2, <1>3, <1>5, <1>7 DEF Rising
  <2>2. CASE j = i
    BY <2>1, <2>2, <1>3
  <2>3. CASE j # i
    <3>1. earlier(h[p], h[j]) /\ j # p
      BY <2>3, <1>4, <1>7 DEF Rising
    <3>2. earlier(h[p \div 2], h[j])
      BY <3>1, <2>1, <1>1, <1>2, <1>4, <1>5, <1>7, EarlierOrders
    <3> QED BY <3>1, <3>2, <2>1, <2>3, <1>3, <1>4
  <2> QED BY <2>2, <2>3
<1> QED BY <1>6, <1>7

LEMMA RisenHeap ==
  ASSUME NEW h \in Queue, NEW i \in 1 .. Len(h), Rising(h, i), i > 1 => ~earlier(h[i], h[i \div 2])
  PROVE  Ordered(h)
<1>1. /\ Len(h) \in Nat /\ \A k \in 1 .. Len(h) : h[k] \in Entry
      /\ \A k, j \in 1 .. Len(h) : k # j => h[k].seq # h[j].seq
  BY QueueIs
<1> SUFFICES ASSUME NEW j \in 2 .. Len(h) PROVE earlier(h[j \div 2], h[j])
  BY DEF Ordered
<1>2. CASE j # i
  BY <1>2 DEF Rising
<1>3. CASE j = i
  <2>1. j \div 2 \in 1 .. Len(h) /\ j \div 2 # j /\ j \in 1 .. Len(h) /\ i > 1
    BY <1>1, <1>3, HalfOf
  <2> QED BY <2>1, <1>1, <1>3, EarlierOrders
<1> QED BY <1>2, <1>3

(* heap_push's turns, one after another.                                   *)
LEMMA RiseTurns ==
  ASSUME NEW h, NEW w, Len(h) \in Nat
  PROVE  \E f : /\ f[0] = [heap |-> Append(h, w), i |-> Len(h) + 1]
                /\ \A n \in 1 .. Len(h) : f[n] = Risen(f[n - 1])
                /\ heap_push(h, w) = f[Len(h)].heap
<1> DEFINE x == [heap |-> Append(h, w), i |-> Len(h) + 1]
           Turns(m, f) == f = [n \in 0 .. m |-> IF n = 0 THEN x ELSE Risen(f[n - 1])]
           S == {m \in Nat : \E f : Turns(m, f)}
<1>1. 0 \in S
  <2> DEFINE f == [n \in 0 .. 0 |-> x]
  <2>1. f = [n \in 0 .. 0 |-> IF n = 0 THEN x ELSE Risen(f[n - 1])]
    OBVIOUS
  <2> QED BY <2>1
<1>2. ASSUME NEW m \in Nat, m \in S PROVE m + 1 \in S
  <2>1. PICK f : Turns(m, f)
    BY <1>2
  <2> DEFINE g == [n \in 0 .. m + 1 |-> IF n = 0 THEN x ELSE Risen(f[n - 1])]
  <2> HIDE DEF x
  <2>2. \A n \in 0 .. m : g[n] = f[n]
    BY <2>1
  <2>3. \A n \in 0 .. m + 1 : n # 0 => n - 1 \in 0 .. m
    OBVIOUS
  <2>4. \A n \in 0 .. m + 1 : (IF n = 0 THEN x ELSE Risen(f[n - 1])) = (IF n = 0 THEN x ELSE Risen(g[n - 1]))
    BY <2>2, <2>3
  <2>5. g = [n \in 0 .. m + 1 |-> IF n = 0 THEN x ELSE Risen(g[n - 1])]
    BY <2>4
  <2> HIDE DEF g
  <2> QED BY <2>5
<1>3. \A m \in Nat : m \in S
  <2> HIDE DEF S
  <2> QED BY <1>1, <1>2, SetInduction
<1> DEFINE ff == CHOOSE f : Turns(Len(h), f)
<1>4. Turns(Len(h), ff)
  <2>1. \E f : Turns(Len(h), f)
    BY <1>3
  <2> QED BY <2>1, Zenon
<1>5. heap_push(h, w) = ff[Len(h)].heap
  BY DEF heap_push
<1> HIDE DEF x, ff
<1>6. ff[0] = x /\ \A n \in 1 .. Len(h) : ff[n] = Risen(ff[n - 1])
  BY <1>4
<1> QED BY <1>5, <1>6 DEF x

(* sift_down's.                                                            *)
LEMMA SinkTurns ==
  ASSUME NEW h, NEW i, Len(h) \in Nat
  PROVE  \E f : /\ f[0] = [heap |-> h, i |-> i]
                /\ \A n \in 1 .. Len(h) : f[n] = Sunk(f[n - 1])
                /\ sift_down(h, i) = f[Len(h)].heap
<1> DEFINE x == [heap |-> h, i |-> i]
           Turns(m, f) == f = [n \in 0 .. m |-> IF n = 0 THEN x ELSE Sunk(f[n - 1])]
           S == {m \in Nat : \E f : Turns(m, f)}
<1>1. 0 \in S
  <2> DEFINE f == [n \in 0 .. 0 |-> x]
  <2>1. f = [n \in 0 .. 0 |-> IF n = 0 THEN x ELSE Sunk(f[n - 1])]
    OBVIOUS
  <2> QED BY <2>1
<1>2. ASSUME NEW m \in Nat, m \in S PROVE m + 1 \in S
  <2>1. PICK f : Turns(m, f)
    BY <1>2
  <2> DEFINE g == [n \in 0 .. m + 1 |-> IF n = 0 THEN x ELSE Sunk(f[n - 1])]
  <2> HIDE DEF x
  <2>2. \A n \in 0 .. m : g[n] = f[n]
    BY <2>1
  <2>3. \A n \in 0 .. m + 1 : n # 0 => n - 1 \in 0 .. m
    OBVIOUS
  <2>4. \A n \in 0 .. m + 1 : (IF n = 0 THEN x ELSE Sunk(f[n - 1])) = (IF n = 0 THEN x ELSE Sunk(g[n - 1]))
    BY <2>2, <2>3
  <2>5. g = [n \in 0 .. m + 1 |-> IF n = 0 THEN x ELSE Sunk(g[n - 1])]
    BY <2>4
  <2> HIDE DEF g
  <2> QED BY <2>5
<1>3. \A m \in Nat : m \in S
  <2> HIDE DEF S
  <2> QED BY <1>1, <1>2, SetInduction
<1> DEFINE ff == CHOOSE f : Turns(Len(h), f)
<1>4. Turns(Len(h), ff)
  <2>1. \E f : Turns(Len(h), f)
    BY <1>3
  <2> QED BY <2>1, Zenon
<1>5. sift_down(h, i) = ff[Len(h)].heap
  BY DEF sift_down
<1> HIDE DEF x, ff
<1>6. ff[0] = x /\ \A n \in 1 .. Len(h) : ff[n] = Sunk(ff[n - 1])
  BY <1>4
<1> QED BY <1>5, <1>6 DEF x

(* compact_timers' first loop.                                             *)
LEMMA KeptTurns ==
  ASSUME NEW h, NEW gone, Len(h) \in Nat
  PROVE  \E f : /\ f[0] = <<>>
                /\ \A n \in 1 .. Len(h) : f[n] = KeepOne(f[n - 1], h[n], gone)
                /\ Kept(h, gone) = f[Len(h)]
<1> DEFINE x == <<>>
           Turns(m, f) == f = [n \in 0 .. m |-> IF n = 0 THEN x ELSE KeepOne(f[n - 1], h[n], gone)]
           S == {m \in Nat : \E f : Turns(m, f)}
<1>1. 0 \in S
  <2> DEFINE f == [n \in 0 .. 0 |-> x]
  <2>1. f = [n \in 0 .. 0 |-> IF n = 0 THEN x ELSE KeepOne(f[n - 1], h[n], gone)]
    OBVIOUS
  <2> QED BY <2>1
<1>2. ASSUME NEW m \in Nat, m \in S PROVE m + 1 \in S
  <2>1. PICK f : Turns(m, f)
    BY <1>2
  <2> DEFINE g == [n \in 0 .. m + 1 |-> IF n = 0 THEN x ELSE KeepOne(f[n - 1], h[n], gone)]
  <2> HIDE DEF x
  <2>2. \A n \in 0 .. m : g[n] = f[n]
    BY <2>1
  <2>3. \A n \in 0 .. m + 1 : n # 0 => n - 1 \in 0 .. m
    OBVIOUS
  <2>4. \A n \in 0 .. m + 1 : (IF n = 0 THEN x ELSE KeepOne(f[n - 1], h[n], gone)) = (IF n = 0 THEN x ELSE KeepOne(g[n - 1], h[n], gone))
    BY <2>2, <2>3
  <2>5. g = [n \in 0 .. m + 1 |-> IF n = 0 THEN x ELSE KeepOne(g[n - 1], h[n], gone)]
    BY <2>4
  <2> HIDE DEF g
  <2> QED BY <2>5
<1>3. \A m \in Nat : m \in S
  <2> HIDE DEF S
  <2> QED BY <1>1, <1>2, SetInduction
<1> DEFINE ff == CHOOSE f : Turns(Len(h), f)
<1>4. Turns(Len(h), ff)
  <2>1. \E f : Turns(Len(h), f)
    BY <1>3
  <2> QED BY <2>1, Zenon
<1>5. Kept(h, gone) = ff[Len(h)]
  BY DEF Kept
<1> HIDE DEF x, ff
<1>6. ff[0] = x /\ \A n \in 1 .. Len(h) : ff[n] = KeepOne(ff[n - 1], h[n], gone)
  BY <1>4
<1> QED BY <1>5, <1>6 DEF x

(* Its last.                                                               *)
LEMMA SiftTurns ==
  ASSUME NEW h, NEW half \in Nat, half = Len(h) \div 2
  PROVE  \E f : /\ f[0] = h
                /\ \A n \in 1 .. half : f[n] = sift_down(f[n - 1], half + 1 - n)
                /\ Rebuilt(h) = f[half]
<1> DEFINE x == h
           Turns(m, f) == f = [n \in 0 .. m |-> IF n = 0 THEN x ELSE sift_down(f[n - 1], half + 1 - n)]
           S == {m \in Nat : \E f : Turns(m, f)}
<1>1. 0 \in S
  <2> DEFINE f == [n \in 0 .. 0 |-> x]
  <2>1. f = [n \in 0 .. 0 |-> IF n = 0 THEN x ELSE sift_down(f[n - 1], half + 1 - n)]
    OBVIOUS
  <2> QED BY <2>1
<1>2. ASSUME NEW m \in Nat, m \in S PROVE m + 1 \in S
  <2>1. PICK f : Turns(m, f)
    BY <1>2
  <2> DEFINE g == [n \in 0 .. m + 1 |-> IF n = 0 THEN x ELSE sift_down(f[n - 1], half + 1 - n)]
  <2> HIDE DEF x
  <2>2. \A n \in 0 .. m : g[n] = f[n]
    BY <2>1
  <2>3. \A n \in 0 .. m + 1 : n # 0 => n - 1 \in 0 .. m
    OBVIOUS
  <2>4. \A n \in 0 .. m + 1 : (IF n = 0 THEN x ELSE sift_down(f[n - 1], half + 1 - n)) = (IF n = 0 THEN x ELSE sift_down(g[n - 1], half + 1 - n))
    BY <2>2, <2>3
  <2>5. g = [n \in 0 .. m + 1 |-> IF n = 0 THEN x ELSE sift_down(g[n - 1], half + 1 - n)]
    BY <2>4
  <2> HIDE DEF g
  <2> QED BY <2>5
<1>3. \A m \in Nat : m \in S
  <2> HIDE DEF S
  <2> QED BY <1>1, <1>2, SetInduction
<1> DEFINE ff == CHOOSE f : Turns(half, f)
<1>4. Turns(half, ff)
  <2>1. \E f : Turns(half, f)
    BY <1>3
  <2> QED BY <2>1, Zenon
<1>5. Rebuilt(h) = ff[half]
  BY DEF Rebuilt
<1> HIDE DEF x, ff
<1>6. ff[0] = x /\ \A n \in 1 .. half : ff[n] = sift_down(ff[n - 1], half + 1 - n)
  BY <1>4
<1> QED BY <1>5, <1>6 DEF x

Stopped(x) == x.i > 1 => ~earlier(x.heap[x.i], x.heap[x.i \div 2])

(* Where a rise is after n turns, of a queue of m entries.                 *)
RiseAt(x, q, m, n) ==
  /\ Reordered(x.heap, q) /\ x.i \in 1 .. m /\ Rising(x.heap, x.i)
  /\ Stopped(x) \/ x.i + n <= m

LEMMA RiseTurn ==
  ASSUME NEW q \in Queue, NEW m \in Nat, Len(q) = m, NEW n \in Nat, NEW x, RiseAt(x, q, m, n)
  PROVE  RiseAt(Risen(x), q, m, n + 1)
<1> DEFINE h == x.heap
           i == x.i
<1>1. h \in Queue /\ Len(h) = m /\ i \in 1 .. m /\ Rising(h, i) /\ ToSet(h) = ToSet(q)
  BY DEF RiseAt, Reordered
<1>2. CASE Stopped(x)
  <2>1. Risen(x) = x
    BY <1>2 DEF Stopped, Risen
  <2> QED BY <1>2, <2>1 DEF RiseAt
<1>3. CASE ~Stopped(x)
  <2> DEFINE p == i \div 2
             g == SwapTimers(h, i, p)
  <2>1. i > 1 /\ earlier(h[i], h[p]) /\ Risen(x) = [heap |-> g, i |-> p] /\ i + n <= m
    BY <1>3 DEF Stopped, Risen, RiseAt
  <2>2. i \in 2 .. m /\ i \in Nat /\ i >= 2
    BY <2>1, <1>1
  <2>3. p \in 1 .. m /\ p < i
    BY <2>2, HalfOf
  <2>4. Rising(g, p)
    BY <1>1, <2>1, <2>2, RisesOne
  <2>5. i \in DOMAIN h /\ p \in DOMAIN h
    BY <1>1, <2>2, <2>3, QueueIs
  <2> DEFINE y == Risen(x)
  <2>6. y.heap = g /\ y.i = p
    BY <2>1
  <2> HIDE DEF p, h, i
  <2>7. Reordered(g, h)
    BY <1>1, <2>5, Swapped
  <2> HIDE DEF y, g
  <2>8. p + (n + 1) <= m
    BY <2>1, <2>2, <2>3
  <2>9. Reordered(g, q)
    BY <2>7, <1>1 DEF Reordered
  <2> QED BY <2>3, <2>4, <2>6, <2>8, <2>9 DEF RiseAt, y
<1> QED BY <1>2, <1>3

(* heap_push makes a heap of a heap and an entry.                          *)
LEMMA PushHeaps ==
  ASSUME NEW h \in Queue, Ordered(h), NEW w \in Entry, \A i \in DOMAIN h : h[i].seq # w.seq
  PROVE  /\ heap_push(h, w) \in Queue /\ Ordered(heap_push(h, w))
         /\ ToSet(heap_push(h, w)) = ToSet(h) \cup {w} /\ Len(heap_push(h, w)) = Len(h) + 1
<1> DEFINE q == Append(h, w)
<1>0. h \in Seq(Entry) /\ Len(h) \in Nat /\ DOMAIN h = 1 .. Len(h) /\ \A i, j \in 1 .. Len(h) : i # j => h[i].seq # h[j].seq
  BY QueueIs
<1> DEFINE m == Len(h) + 1
<1>1. /\ q \in Seq(Entry) /\ Len(q) = m /\ q[m] = w /\ \A i \in 1 .. Len(h) : q[i] = h[i]
      /\ DOMAIN q = 1 .. m
  BY <1>0
<1>2. m \in Nat /\ m \in 1 .. m /\ \A i \in 1 .. m : i = m \/ i \in 1 .. Len(h)
  BY <1>0
<1> HIDE DEF q
<1>3. q \in Queue
  <2>1. \A i, j \in 1 .. m : q[i].seq = q[j].seq => i = j
    BY <1>0, <1>1, <1>2
  <2> QED BY <1>1, <2>1 DEF Queue, Distinct
<1>4. ToSet(q) = ToSet(h) \cup {w}
  BY <1>0, ToSetAppend DEF q
<1>5. Rising(q, m)
  <2> SUFFICES ASSUME NEW j \in 2 .. m
               PROVE  (j # m => earlier(q[j \div 2], q[j])) /\ (j \div 2 = m /\ m > 1 => earlier(q[m \div 2], q[j]))
    BY <1>1 DEF Rising
  <2>1. j \div 2 \in 1 .. Len(h) /\ j \div 2 # m
    BY <1>0, HalfOf
  <2>2. j # m => j \in 2 .. Len(h) /\ j \in 1 .. Len(h)
    BY <1>0
  <2> QED BY <2>1, <2>2, <1>1 DEF Ordered
<1>6. PICK f : /\ f[0] = [heap |-> q, i |-> m]
               /\ \A n \in 1 .. Len(h) : f[n] = Risen(f[n - 1])
               /\ heap_push(h, w) = f[Len(h)].heap
  BY <1>0, RiseTurns DEF q
<1> HIDE DEF m
<1> DEFINE S == {n \in Nat : n <= Len(h) => RiseAt(f[n], q, m, n)}
<1>7. 0 \in S
  <2>1. f[0].heap = q /\ f[0].i = m
    BY <1>6
  <2>2. m + 0 <= m
    BY <1>2
  <2> QED BY <1>1, <1>2, <1>3, <1>5, <2>1, <2>2 DEF RiseAt, Reordered
<1>8. ASSUME NEW n \in Nat, n \in S PROVE n + 1 \in S
  <2> SUFFICES ASSUME n + 1 <= Len(h) PROVE RiseAt(f[n + 1], q, m, n + 1)
    OBVIOUS
  <2>1. n <= Len(h) /\ n + 1 \in 1 .. Len(h) /\ (n + 1) - 1 = n
    BY <1>0
  <2>2. RiseAt(f[n], q, m, n)
    BY <1>8, <2>1
  <2>3. f[n + 1] = Risen(f[n])
    BY <1>6, <2>1
  <2> QED BY <1>1, <1>2, <1>3, <2>2, <2>3, RiseTurn
<1>9. Len(h) \in S
  <2> HIDE DEF S
  <2> QED BY <1>0, <1>7, <1>8, SetInduction
<1> DEFINE x == f[Len(h)]
<1>10. RiseAt(x, q, m, Len(h))
  <2>1. Len(h) <= Len(h)
    BY <1>0
  <2> QED BY <1>9, <2>1
<1> HIDE DEF x
<1>11. Stopped(x)
  <2>1. CASE x.i + Len(h) <= m
    <3>1. x.i \in Nat
      BY <1>10, <1>2 DEF RiseAt
    <3>2. ~(x.i > 1)
      BY <2>1, <3>1, <1>0 DEF m
    <3> QED BY <3>2 DEF Stopped
  <2> QED BY <2>1, <1>10 DEF RiseAt
<1>12. Reordered(x.heap, q) /\ x.i \in 1 .. Len(x.heap) /\ Rising(x.heap, x.i)
  BY <1>10, <1>1 DEF RiseAt, Reordered
<1>13. Ordered(x.heap)
  BY <1>11, <1>12, RisenHeap DEF Reordered, Stopped
<1> QED BY <1>1, <1>4, <1>6, <1>12, <1>13 DEF x, m, Reordered

(* The slots from lo on are heaps, but for the entry at i, which sinks.    *)
OrderedFrom(h, lo) == \A j \in 2 .. Len(h) : j \div 2 >= lo => earlier(h[j \div 2], h[j])

Sinking(h, lo, i) ==
  \A j \in 2 .. Len(h) :
     /\ (j \div 2 >= lo /\ j \div 2 # i) => earlier(h[j \div 2], h[j])
     /\ (j \div 2 = i /\ i \div 2 >= lo) => earlier(h[i \div 2], h[j])

LEMMA LeastIs ==
  ASSUME NEW h \in Queue, NEW i \in 1 .. Len(h)
  PROVE  /\ Least(h, i) \in 1 .. Len(h) /\ Least(h, i) \in {i, 2 * i, 2 * i + 1}
         /\ \A k \in 1 .. Len(h) : k \in {i, 2 * i, 2 * i + 1} => ~earlier(h[k], h[Least(h, i)])
<1>1. Len(h) \in Nat /\ DOMAIN h = 1 .. Len(h) /\ \A k \in 1 .. Len(h) : h[k] \in Entry
  BY QueueIs
<1> DEFINE S == {i, 2 * i, 2 * i + 1} \cap DOMAIN h
           Best(j) == \A k \in S : ~earlier(h[k], h[j])
<1>2. i \in S /\ S \subseteq 1 .. Len(h)
  BY <1>1
<1>3. \A a \in Entry : ~earlier(a, a)
  BY EarlierOrders
<1>4. \A a, b, c \in Entry : ~earlier(a, b) /\ ~earlier(b, c) => ~earlier(a, c)
  BY TimersAssumption DEF earlier, Entry
<1>5. \A a, b \in Entry : ~earlier(a, b) \/ ~earlier(b, a)
  BY EarlierOrders
<1>6. \E j \in S : Best(j)
  <2>1. PICK a \in S : a = i
    BY <1>2
  <2>2. PICK b \in S : /\ 2 * i \in S => ~earlier(h[2 * i], h[b])
                       /\ ~earlier(h[i], h[b])
    <3>1. CASE 2 * i \in S /\ earlier(h[2 * i], h[i])
      BY <3>1, <1>1, <1>2, <1>3, <1>5
    <3>2. CASE ~(2 * i \in S /\ earlier(h[2 * i], h[i]))
      BY <3>2, <1>1, <1>2, <1>3
    <3> QED BY <3>1, <3>2
  <2>3. PICK c \in S : /\ 2 * i + 1 \in S => ~earlier(h[2 * i + 1], h[c])
                       /\ ~earlier(h[b], h[c])
    <3>1. CASE 2 * i + 1 \in S /\ earlier(h[2 * i + 1], h[b])
      BY <3>1, <1>1, <1>2, <1>3, <1>5
    <3>2. CASE ~(2 * i + 1 \in S /\ earlier(h[2 * i + 1], h[b]))
      BY <3>2, <1>1, <1>2, <1>3
    <3> QED BY <3>1, <3>2
  <2>4. h[i] \in Entry /\ h[b] \in Entry /\ h[c] \in Entry /\ (2 * i \in S => h[2 * i] \in Entry)
    BY <1>1, <1>2
  <2>5. ~earlier(h[i], h[c])
    BY <2>2, <2>3, <2>4, <1>4
  <2>6. 2 * i \in S => ~earlier(h[2 * i], h[c])
    BY <2>2, <2>3, <2>4, <1>4
  <2>7. \A k \in S : k = i \/ k = 2 * i \/ k = 2 * i + 1
    OBVIOUS
  <2>8. Best(c)
    BY <2>3, <2>5, <2>6, <2>7
  <2> QED BY <2>8
<1>7. Least(h, i) \in S /\ Best(Least(h, i))
  BY <1>6 DEF Least
<1> QED BY <1>1, <1>2, <1>7

LEMMA SinksOne ==
  ASSUME NEW h \in Queue, NEW lo \in Nat, lo >= 1, NEW i \in 1 .. Len(h), i >= lo, Sinking(h, lo, i),
         NEW l, l = Least(h, i), l # i
  PROVE  /\ Sinking(SwapTimers(h, i, l), lo, l) /\ Reordered(SwapTimers(h, i, l), h)
         /\ l \in 1 .. Len(h) /\ l > i
<1> DEFINE g == SwapTimers(h, i, l)
<1>1. /\ Len(h) \in Nat /\ DOMAIN h = 1 .. Len(h) /\ i \in Nat
      /\ \A k \in 1 .. Len(h) : h[k] \in Entry
      /\ \A k, j \in 1 .. Len(h) : k # j => h[k].seq # h[j].seq
  BY QueueIs
<1>2. /\ l \in 1 .. Len(h) /\ l \in {2 * i, 2 * i + 1}
      /\ \A k \in 1 .. Len(h) : k \in {i, 2 * i, 2 * i + 1} => ~earlier(h[k], h[l])
  BY LeastIs
<1>3. l \in Nat /\ l > i /\ l \div 2 = i /\ l \in 2 .. Len(h) /\ l >= lo
  BY <1>1, <1>2
<1>4. /\ Reordered(g, h) /\ g[i] = h[l] /\ g[l] = h[i]
      /\ \A k \in 1 .. Len(h) : k # i /\ k # l => g[k] = h[k]
  BY <1>1, <1>2, Swapped
<1>5. Len(g) = Len(h)
  BY <1>4 DEF Reordered
<1> HIDE DEF g
<1>6. Sinking(g, lo, l)
  <2> SUFFICES ASSUME NEW j \in 2 .. Len(h)
               PROVE  /\ (j \div 2 >= lo /\ j \div 2 # l) => earlier(g[j \div 2], g[j])
                      /\ (j \div 2 = l /\ l \div 2 >= lo) => earlier(g[l \div 2], g[j])
    BY <1>5 DEF Sinking
  <2>1. j \in Nat /\ j \div 2 \in 1 .. Len(h) /\ j \div 2 < j /\ j \in 1 .. Len(h) /\ j \div 2 \in Nat
    BY <1>1, HalfOf
  <2>2. ASSUME j \div 2 >= lo, j \div 2 # l PROVE earlier(g[j \div 2], g[j])
    <3>1. CASE j \div 2 = i
      <4>1. j \in {i, 2 * i, 2 * i + 1} /\ j # i
        BY <3>1, <2>1, HalfOf
      <4>2. ~earlier(h[j], h[l]) /\ ~earlier(h[i], h[l])
        BY <4>1, <2>1, <1>2
      <4>3. CASE j = l
        <5>1. earlier(h[l], h[i])
          BY <4>2, <1>1, <1>2, <1>3, EarlierOrders
        <5> QED BY <5>1, <4>3, <3>1, <1>4
      <4>4. CASE j # l
        <5>1. earlier(h[l], h[j])
          BY <4>2, <4>4, <1>1, <1>2, <2>1, EarlierOrders
        <5>2. g[j] = h[j]
          BY <4>1, <4>4, <1>4, <2>1
        <5> QED BY <5>1, <5>2, <3>1, <1>4
      <4> QED BY <4>3, <4>4
    <3>2. CASE j = i
      <4>1. earlier(h[i \div 2], h[l])
        BY <3>2, <2>2, <1>3 DEF Sinking
      <4>2. g[j \div 2] = h[i \div 2]
        BY <3>2, <2>1, <1>3, <1>4
      <4> QED BY <4>1, <4>2, <3>2, <1>4
    <3>3. CASE j \div 2 # i /\ j # i
      <4>1. j # l
        BY <3>3, <1>3
      <4>2. earlier(h[j \div 2], h[j])
        BY <3>3, <2>2 DEF Sinking
      <4> QED BY <4>1, <4>2, <3>3, <2>1, <2>2, <1>4
    <3> QED BY <3>1, <3>2, <3>3
  <2>3. ASSUME j \div 2 = l PROVE earlier(g[l \div 2], g[j])
    <3>1. earlier(h[l], h[j])
      BY <2>3, <1>3 DEF Sinking
    <3>2. g[j] = h[j] /\ g[l \div 2] = h[l]
      BY <2>1, <2>3, <1>3, <1>4
    <3> QED BY <3>1, <3>2
  <2> QED BY <2>2, <2>3
<1> QED BY <1>2, <1>3, <1>4, <1>6 DEF g

SinkAt(x, q, m, lo, n) ==
  /\ Reordered(x.heap, q) /\ x.i \in 1 .. m /\ x.i >= lo /\ Sinking(x.heap, lo, x.i)
  /\ Least(x.heap, x.i) = x.i \/ x.i >= lo + n

LEMMA SinkTurn ==
  ASSUME NEW q \in Queue, NEW m \in Nat, Len(q) = m, NEW lo \in Nat, lo >= 1,
         NEW n \in Nat, NEW x, SinkAt(x, q, m, lo, n)
  PROVE  SinkAt(Sunk(x), q, m, lo, n + 1)
<1> DEFINE h == x.heap
           i == x.i
           l == Least(h, i)
           g == SwapTimers(h, i, l)
           y == Sunk(x)
<1>1. h \in Queue /\ Len(h) = m /\ i \in 1 .. m /\ Sinking(h, lo, i) /\ i >= lo /\ Reordered(h, q)
  BY DEF SinkAt, Reordered
<1>2. y.heap = g /\ y.i = l
  BY DEF Sunk
<1>3. CASE l = i
  <2>1. h \in Seq(Entry)
    BY <1>1, QueueIs
  <2>2. g = h
    BY <1>3, <2>1, <1>1 DEF SwapTimers
  <2> HIDE DEF y, g
  <2> QED BY <1>1, <1>2, <1>3, <2>2 DEF SinkAt, y
<1>4. CASE l # i
  <2>1. i >= lo + n
    BY <1>4 DEF SinkAt
  <2> HIDE DEF y, l, h, i
  <2>2. Sinking(g, lo, l) /\ Reordered(g, h) /\ l \in 1 .. m /\ l > i
    <3>1. l = Least(h, i)
      BY DEF l
    <3> QED BY <1>1, <1>4, <3>1, SinksOne
  <2> HIDE DEF g
  <2>3. l >= lo + (n + 1) /\ l >= lo
    BY <2>1, <2>2, <1>1
  <2>4. Reordered(g, q)
    BY <1>1, <2>2 DEF Reordered
  <2> QED BY <1>2, <2>2, <2>3, <2>4 DEF SinkAt, y
<1> QED BY <1>3, <1>4

(* sift_down makes the heaps below a slot one with it.                     *)
LEMMA SiftHeaps ==
  ASSUME NEW h \in Queue, NEW lo \in 1 .. Len(h), OrderedFrom(h, lo + 1)
  PROVE  Reordered(sift_down(h, lo), h) /\ OrderedFrom(sift_down(h, lo), lo)
<1>0. Len(h) \in Nat /\ lo \in Nat /\ lo >= 1
  BY QueueIs
<1>1. PICK m \in Nat : m = Len(h)
  BY <1>0
<1>2. Sinking(h, lo, lo)
  <2>1. ASSUME NEW j \in 2 .. Len(h)
        PROVE  /\ (j \div 2 >= lo /\ j \div 2 # lo) => earlier(h[j \div 2], h[j])
               /\ (j \div 2 = lo /\ lo \div 2 >= lo) => earlier(h[lo \div 2], h[j])
    <3>1. j \div 2 \in Nat /\ lo \div 2 < lo /\ lo \div 2 \in Nat
      BY <1>0, HalfOf
    <3>2. \A a, b \in Nat : a >= b /\ a # b => a >= b + 1
      OBVIOUS
    <3>3. ~(lo \div 2 >= lo)
      BY <3>1, <1>0
    <3> QED BY <3>1, <3>2, <3>3, <1>0 DEF OrderedFrom
  <2> QED BY <2>1 DEF Sinking
<1>3. PICK f : /\ f[0] = [heap |-> h, i |-> lo]
               /\ \A n \in 1 .. Len(h) : f[n] = Sunk(f[n - 1])
               /\ sift_down(h, lo) = f[Len(h)].heap
  BY <1>0, SinkTurns
<1> DEFINE S == {n \in Nat : n <= m => SinkAt(f[n], h, m, lo, n)}
<1>4. 0 \in S
  <2>1. f[0].heap = h /\ f[0].i = lo
    BY <1>3
  <2>2. lo >= lo + 0 /\ lo >= lo
    BY <1>0
  <2>3. Reordered(h, h)
    BY DEF Reordered
  <2> QED BY <1>1, <1>2, <2>1, <2>2, <2>3 DEF SinkAt
<1>5. ASSUME NEW n \in Nat, n \in S PROVE n + 1 \in S
  <2> SUFFICES ASSUME n + 1 <= m PROVE SinkAt(f[n + 1], h, m, lo, n + 1)
    OBVIOUS
  <2>1. n <= m /\ n + 1 \in 1 .. m /\ (n + 1) - 1 = n
    OBVIOUS
  <2>2. SinkAt(f[n], h, m, lo, n)
    BY <1>5, <2>1
  <2>3. f[n + 1] = Sunk(f[n])
    BY <1>1, <1>3, <2>1
  <2> QED BY <1>0, <1>1, <2>2, <2>3, SinkTurn
<1>6. m \in S
  <2> HIDE DEF S
  <2> QED BY <1>4, <1>5, SetInduction
<1> DEFINE x == f[m]
           g == x.heap
           i == x.i
<1>7. SinkAt(x, h, m, lo, m)
  <2>1. m <= m
    OBVIOUS
  <2> QED BY <1>6, <2>1
<1> HIDE DEF x
<1>8. Reordered(g, h) /\ i \in 1 .. m /\ Sinking(g, lo, i) /\ Least(g, i) = i
  <2>1. ~(i >= lo + m)
    BY <1>0, <1>7 DEF SinkAt
  <2> QED BY <2>1, <1>7 DEF SinkAt
<1>9. g \in Queue /\ Len(g) = m
  BY <1>1, <1>8 DEF Reordered
<1> HIDE DEF g, i
<1>10. OrderedFrom(g, lo)
  <2> SUFFICES ASSUME NEW j \in 2 .. Len(g), j \div 2 >= lo PROVE earlier(g[j \div 2], g[j])
    BY DEF OrderedFrom
  <2>1. j \in Nat /\ j \in 1 .. m /\ j \div 2 \in Nat /\ j \div 2 # j
    BY <1>9, HalfOf
  <2>2. CASE j \div 2 # i
    BY <2>2, <1>8 DEF Sinking
  <2>3. CASE j \div 2 = i
    <3>1. j \in {i, 2 * i, 2 * i + 1}
      BY <2>1, <2>3, HalfOf
    <3>2. ~earlier(g[j], g[i])
      BY <3>1, <2>1, <1>8, <1>9, LeastIs
    <3>3. g[i] \in Entry /\ g[j] \in Entry /\ g[i].seq # g[j].seq
      BY <2>1, <2>3, <1>8, <1>9, QueueIs
    <3> QED BY <2>3, <3>2, <3>3, EarlierOrders
  <2> QED BY <2>2, <2>3
<1> QED BY <1>1, <1>3, <1>8, <1>10 DEF g, x

(* compact_timers keeps the waits not done, once each.                     *)
LEMMA KeptIs ==
  ASSUME NEW h \in Queue, NEW gone
  PROVE  Kept(h, gone) \in Queue /\ ToSet(Kept(h, gone)) = {e \in ToSet(h) : e.seq \notin gone}
<1>0. /\ h \in Seq(Entry) /\ Len(h) \in Nat /\ DOMAIN h = 1 .. Len(h)
      /\ \A i \in 1 .. Len(h) : h[i] \in Entry
      /\ \A i, j \in 1 .. Len(h) : i # j => h[i].seq # h[j].seq
  BY QueueIs
<1>1. PICK f : /\ f[0] = <<>>
               /\ \A n \in 1 .. Len(h) : f[n] = KeepOne(f[n - 1], h[n], gone)
               /\ Kept(h, gone) = f[Len(h)]
  BY <1>0, KeptTurns
<1>2. PICK m \in Nat : m = Len(h)
  BY <1>0
<1> DEFINE Upto(n) == {h[i] : i \in {k \in 1 .. n : h[k].seq \notin gone}}
           At(q, n) == q \in Queue /\ ToSet(q) = Upto(n)
           S == {n \in Nat : n <= m => At(f[n], n)}
<1>3. 0 \in S
  <2>1. <<>> \in Queue /\ ToSet(<<>>) = {}
    BY DEF Queue, Distinct, ToSet
  <2>2. Upto(0) = {}
    OBVIOUS
  <2> QED BY <1>1, <2>1, <2>2
<1>4. ASSUME NEW n \in Nat, n \in S PROVE n + 1 \in S
  <2> SUFFICES ASSUME n + 1 <= m PROVE At(f[n + 1], n + 1)
    OBVIOUS
  <2> DEFINE w == h[n + 1]
             q == f[n]
  <2>1. n <= m /\ n + 1 \in 1 .. m /\ (n + 1) - 1 = n
    OBVIOUS
  <2>2. q \in Queue /\ ToSet(q) = Upto(n)
    BY <1>4, <2>1
  <2>3. f[n + 1] = KeepOne(q, w, gone) /\ w \in Entry
    BY <1>0, <1>1, <1>2, <2>1
  <2>4. \A k \in 1 .. n + 1 : k \in 1 .. n \/ k = n + 1
    OBVIOUS
  <2>5. CASE w.seq \in gone
    <3>1. Upto(n + 1) = Upto(n)
      BY <2>4, <2>5
    <3> QED BY <3>1, <2>2, <2>3, <2>5 DEF KeepOne
  <2>6. CASE w.seq \notin gone
    <3>1. Upto(n + 1) = Upto(n) \cup {w}
      BY <2>4, <2>6
    <3>2. f[n + 1] = Append(q, w)
      BY <2>3, <2>6 DEF KeepOne
    <3>3. /\ q \in Seq(Entry) /\ Len(q) \in Nat /\ DOMAIN q = 1 .. Len(q)
          /\ \A i, j \in 1 .. Len(q) : i # j => q[i].seq # q[j].seq
      BY <2>2, QueueIs
    <3>4. ASSUME NEW i \in 1 .. Len(q) PROVE q[i].seq # w.seq
      <4>1. q[i] \in ToSet(q)
        BY <3>3 DEF ToSet
      <4>2. PICK k \in 1 .. n : q[i] = h[k]
        BY <4>1, <2>2
      <4>3. k \in 1 .. m /\ k # n + 1
        BY <2>1
      <4> QED BY <4>2, <4>3, <2>1, <1>0, <1>2
    <3> DEFINE r == Append(q, w)
    <3> HIDE DEF q, w
    <3>5. r \in Seq(Entry) /\ DOMAIN r = 1 .. Len(q) + 1 /\ r[Len(q) + 1] = w /\ \A i \in 1 .. Len(q) : r[i] = q[i]
      BY <3>3, <2>3
    <3>6. ToSet(r) = ToSet(q) \cup {w}
      BY <3>3, <2>3, ToSetAppend
    <3>7. \A i \in 1 .. Len(q) + 1 : i \in 1 .. Len(q) \/ i = Len(q) + 1
      BY <3>3
    <3> HIDE DEF r
    <3>8. Distinct(r)
      BY <3>3, <3>4, <3>5, <3>7 DEF Distinct
    <3> HIDE DEF Upto
    <3> QED BY <3>1, <3>2, <3>5, <3>6, <3>8, <2>2 DEF r, Queue
  <2> QED BY <2>5, <2>6
<1>5. m \in S
  <2> HIDE DEF S
  <2> QED BY <1>3, <1>4, SetInduction
<1>6. At(f[m], m)
  <2>1. m <= m
    OBVIOUS
  <2> QED BY <1>5, <2>1
<1>7. Upto(m) = {e \in ToSet(h) : e.seq \notin gone}
  BY <1>0, <1>2 DEF ToSet
<1> QED BY <1>1, <1>2, <1>6, <1>7

(* And makes them a heap, sifting from the last parent to the root.        *)
LEMMA RebuiltHeaps ==
  ASSUME NEW h \in Queue
  PROVE  Reordered(Rebuilt(h), h) /\ Ordered(Rebuilt(h))
<1>1. PICK m \in Nat : m = Len(h)
  BY QueueIs
<1>2. PICK half \in Nat : half = m \div 2 /\ half <= m
  BY HalfOf
<1>3. PICK f : /\ f[0] = h
               /\ \A n \in 1 .. half : f[n] = sift_down(f[n - 1], half + 1 - n)
               /\ Rebuilt(h) = f[half]
  BY <1>1, <1>2, SiftTurns
<1> DEFINE S == {n \in Nat : n <= half => Reordered(f[n], h) /\ OrderedFrom(f[n], half + 1 - n)}
<1>4. 0 \in S
  <2>1. ASSUME NEW j \in 2 .. Len(h) PROVE ~(j \div 2 >= half + 1 - 0)
    BY <1>1, <1>2
  <2>2. OrderedFrom(h, half + 1 - 0)
    BY <2>1 DEF OrderedFrom
  <2>3. Reordered(h, h)
    BY DEF Reordered
  <2> QED BY <1>3, <2>2, <2>3
<1>5. ASSUME NEW n \in Nat, n \in S PROVE n + 1 \in S
  <2> SUFFICES ASSUME n + 1 <= half
               PROVE  Reordered(f[n + 1], h) /\ OrderedFrom(f[n + 1], half + 1 - (n + 1))
    OBVIOUS
  <2>1. PICK lo \in 1 .. m : lo = half + 1 - (n + 1) /\ lo + 1 = half + 1 - n
    BY <1>2
  <2>2. n <= half /\ n + 1 \in 1 .. half /\ (n + 1) - 1 = n
    OBVIOUS
  <2>3. Reordered(f[n], h) /\ OrderedFrom(f[n], lo + 1)
    BY <1>5, <2>1, <2>2
  <2>4. f[n + 1] = sift_down(f[n], lo)
    BY <1>3, <2>1, <2>2
  <2>5. f[n] \in Queue /\ lo \in 1 .. Len(f[n])
    BY <1>1, <2>3 DEF Reordered
  <2>6. Reordered(f[n + 1], f[n]) /\ OrderedFrom(f[n + 1], lo)
    BY <2>3, <2>4, <2>5, SiftHeaps
  <2> QED BY <2>1, <2>3, <2>6 DEF Reordered
<1>6. half \in S
  <2> HIDE DEF S
  <2> QED BY <1>4, <1>5, SetInduction
<1>7. Reordered(f[half], h) /\ OrderedFrom(f[half], half + 1 - half)
  <2>1. half <= half
    OBVIOUS
  <2> QED BY <1>6, <2>1
<1>8. half + 1 - half = 1
  OBVIOUS
<1>9. Ordered(f[half])
  <2>1. Len(f[half]) \in Nat
    BY <1>1, <1>7 DEF Reordered
  <2>2. \A j \in 2 .. Len(f[half]) : j \div 2 >= 1
    BY <2>1, HalfOf
  <2> QED BY <1>7, <1>8, <2>2 DEF OrderedFrom, Ordered
<1> QED BY <1>3, <1>7, <1>9

(* What pop_timer leaves: the heap without its root.                       *)
Popped(h) == IF Len(h) = 1 THEN <<>> ELSE sift_down([Front(h) EXCEPT ![1] = Last(h)], 1)

LEMMA PopHeaps ==
  ASSUME NEW h \in Queue, Ordered(h), h # <<>>
  PROVE  Popped(h) \in Queue /\ Ordered(Popped(h)) /\ ToSet(Popped(h)) = ToSet(h) \ {h[1]}
<1>0. /\ h \in Seq(Entry) /\ DOMAIN h = 1 .. Len(h)
      /\ \A i \in 1 .. Len(h) : h[i] \in Entry
      /\ \A i, j \in 1 .. Len(h) : i # j => h[i].seq # h[j].seq
  BY QueueIs
<1>a. h \in Seq(Entry)
  BY <1>0
<1>1. PICK m \in Nat : m = Len(h) /\ m >= 1
  BY <1>a
<1>2. CASE m = 1
  <2>1. Popped(h) = <<>>
    BY <1>1, <1>2 DEF Popped
  <2>2. ToSet(h) = {h[1]}
    BY <1>0, <1>1, <1>2 DEF ToSet
  <2>3. <<>> \in Queue /\ ToSet(<<>>) = {} /\ Ordered(<<>>)
    BY DEF Queue, Distinct, ToSet, Ordered
  <2> QED BY <2>1, <2>2, <2>3
<1>3. CASE m # 1
  <2> DEFINE q == [Front(h) EXCEPT ![1] = Last(h)]
  <2>1. m - 1 \in Nat /\ m - 1 >= 1 /\ m \in 1 .. m /\ 1 \in 1 .. m - 1
    BY <1>1, <1>3
  <2>2. Front(h) \in Seq(Entry) /\ Len(Front(h)) = m - 1 /\ \A i \in 1 .. m - 1 : Front(h)[i] = h[i]
    BY <1>0, <1>1, <2>1 DEF Front
  <2>3. Last(h) = h[m]
    BY <1>1 DEF Last
  <2>4. /\ q \in Seq(Entry) /\ Len(q) = m - 1 /\ q[1] = h[m]
        /\ \A i \in 2 .. m - 1 : q[i] = h[i]
    BY <2>1, <2>2, <2>3, <1>0, <1>1
  <2> HIDE DEF q
  <2>5. DOMAIN q = 1 .. m - 1 /\ \A i \in 1 .. m - 1 : i = 1 \/ i \in 2 .. m - 1
    BY <2>4, <2>1
  <2>6. Distinct(q)
    <3> SUFFICES ASSUME NEW i \in 1 .. m - 1, NEW j \in 1 .. m - 1, q[i].seq = q[j].seq PROVE i = j
      BY <2>5 DEF Distinct
    <3>1. i \in 1 .. m /\ j \in 1 .. m /\ i # m /\ j # m
      BY <2>1
    <3> QED BY <3>1, <2>1, <2>4, <2>5, <1>0, <1>1
  <2>7. q \in Queue
    BY <2>4, <2>6 DEF Queue
  <2>8. OrderedFrom(q, 1 + 1)
    <3> SUFFICES ASSUME NEW j \in 2 .. m - 1, j \div 2 >= 2 PROVE earlier(q[j \div 2], q[j])
      BY <2>4 DEF OrderedFrom
    <3>1. j \div 2 \in 2 .. m - 1 /\ j \in 2 .. m
      BY <2>1, HalfOf
    <3> QED BY <3>1, <2>4, <1>1 DEF Ordered
  <2>9. Reordered(sift_down(q, 1), q) /\ OrderedFrom(sift_down(q, 1), 1)
    BY <2>1, <2>4, <2>7, <2>8, SiftHeaps
  <2>10. Popped(h) = sift_down(q, 1)
    BY <1>1, <1>3 DEF Popped, q
  <2> DEFINE g == Popped(h)
  <2>11. g \in Queue /\ Len(g) = m - 1 /\ ToSet(g) = ToSet(q) /\ OrderedFrom(g, 1)
    BY <2>4, <2>9, <2>10 DEF Reordered
  <2> HIDE DEF g
  <2>12. Ordered(g)
    <3>1. \A j \in 2 .. Len(g) : j \div 2 >= 1
      BY <2>1, <2>11, HalfOf
    <3> QED BY <2>11, <3>1 DEF OrderedFrom, Ordered
  <2>13. ToSet(q) = ToSet(h) \ {h[1]}
    <3>1. ToSet(q) = {q[i] : i \in 1 .. m - 1} /\ ToSet(h) = {h[i] : i \in 1 .. m}
      BY <2>5, <1>0, <1>1 DEF ToSet
    <3>2. \A i \in 1 .. m : i # 1 => h[i] # h[1]
      BY <1>0, <1>1, <2>1
    <3>3. \A i \in 1 .. m : i = 1 \/ i = m \/ i \in 2 .. m - 1
      BY <2>1
    <3>4. m # 1 /\ \A i \in 2 .. m - 1 : i \in 1 .. m /\ i # 1 /\ i \in 1 .. m - 1
      BY <1>3, <2>1
    <3>5. ASSUME NEW x \in ToSet(q) PROVE x \in ToSet(h) \ {h[1]}
      BY <3>1, <3>2, <3>4, <2>1, <2>4, <2>5
    <3>6. ASSUME NEW x \in ToSet(h) \ {h[1]} PROVE x \in ToSet(q)
      BY <3>1, <3>3, <3>4, <2>1, <2>4
    <3> QED BY <3>5, <3>6
  <2> QED BY <2>11, <2>12, <2>13 DEF g
<1> QED BY <1>2, <1>3

(* The root of a heap is earlier than everything else in it.               *)
LEMMA RootEarliest ==
  ASSUME NEW h \in Queue, Ordered(h), h # <<>>
  PROVE  \A i \in 1 .. Len(h) : i = 1 \/ earlier(h[1], h[i])
<1>0. /\ \A i \in 1 .. Len(h) : h[i] \in Entry
      /\ h \in Seq(Entry)
  BY QueueIs
<1>1. PICK m \in Nat : m = Len(h) /\ m >= 1
  BY <1>0
<1> DEFINE B == {i \in 2 .. m : ~earlier(h[1], h[i])}
<1>2. SUFFICES ASSUME B # {} PROVE FALSE
  BY <1>1
<1>3. PICK k \in B : \A j \in B : k <= j
  <2>1. B \subseteq Nat
    OBVIOUS
  <2> HIDE DEF B
  <2> QED BY <1>2, <2>1, LeastOf
<1>4. k \in Nat /\ k \in 2 .. m /\ k \div 2 \in 1 .. m /\ k \div 2 < k /\ k \div 2 \in Nat
  BY <1>3, HalfOf
<1>5. earlier(h[k \div 2], h[k])
  BY <1>1, <1>4 DEF Ordered
<1>6. CASE k \div 2 = 1
  BY <1>3, <1>5, <1>6
<1>7. CASE k \div 2 # 1
  <2>1. k \div 2 \notin B /\ k \div 2 \in 2 .. m
    BY <1>3, <1>4, <1>7
  <2>2. earlier(h[1], h[k \div 2])
    BY <2>1
  <2>3. earlier(h[1], h[k])
    BY <2>2, <1>5, <1>0, <1>1, <1>4, EarlierOrders
  <2> QED BY <2>3, <1>3
<1> QED BY <1>6, <1>7

(* HeapExact, said of the set of entries.                                  *)
Marks(h) == {e.seq : e \in ToSet(h)}

LEMMA HeapIs ==
  TimersHeap <=>
     /\ timers \in Queue /\ Ordered(timers) /\ in_heap = Marks(timers)
     /\ seq \in 0 .. MaxSeq /\ stale \in Nat /\ done \subseteq 1 .. seq /\ in_heap \subseteq 1 .. seq
     /\ fired \in 0 .. seq /\ now \in 0 .. MaxTime
     /\ (1 .. seq) \ done \subseteq in_heap /\ stale = Cardinality(in_heap \cap done)
<1>1. {timers[i].seq : i \in DOMAIN timers} = Marks(timers)
  BY DEF Marks, ToSet
<1> QED BY <1>1 DEF TimersHeap, TimersTypeOK, HeapExact, HeapOrdered, Queue, Distinct, Ordered

LEMMA HeapIsNext ==
  TimersHeap' <=>
     /\ timers' \in Queue /\ Ordered(timers') /\ in_heap' = Marks(timers')
     /\ seq' \in 0 .. MaxSeq /\ stale' \in Nat /\ done' \subseteq 1 .. seq' /\ in_heap' \subseteq 1 .. seq'
     /\ fired' \in 0 .. seq' /\ now' \in 0 .. MaxTime
     /\ (1 .. seq') \ done' \subseteq in_heap' /\ stale' = Cardinality(in_heap' \cap done')
<1>1. {timers'[i].seq : i \in DOMAIN timers'} = Marks(timers')
  BY DEF Marks, ToSet
<1> QED BY <1>1 DEF TimersHeap, TimersTypeOK, HeapExact, HeapOrdered, Queue, Distinct, Ordered

LEMMA MarksFinite ==
  ASSUME TimersHeap
  PROVE  IsFiniteSet(in_heap) /\ IsFiniteSet(done) /\ seq \in Nat
<1>1. seq \in Nat /\ in_heap \subseteq 1 .. seq /\ done \subseteq 1 .. seq
  BY TimersAssumption DEF TimersHeap, TimersTypeOK
<1>2. IsFiniteSet(1 .. seq)
  BY <1>1, FS_Interval
<1> QED BY <1>1, <1>2, FS_Subset

LEMMA BeginKeeps ==
  ASSUME TimersHeap, NEW at \in now .. MaxTime, Begin(at)
  PROVE  TimersHeap'
<1> DEFINE w == [at |-> at, seq |-> seq + 1]
<1>1. /\ timers \in Queue /\ Ordered(timers) /\ in_heap = Marks(timers)
      /\ seq \in 0 .. MaxSeq /\ stale \in Nat /\ done \subseteq 1 .. seq /\ in_heap \subseteq 1 .. seq
      /\ fired \in 0 .. seq /\ now \in 0 .. MaxTime
      /\ (1 .. seq) \ done \subseteq in_heap /\ stale = Cardinality(in_heap \cap done)
  BY HeapIs
<1>2. /\ seq < MaxSeq /\ seq' = seq + 1 /\ timers' = heap_push(timers, w) /\ in_heap' = in_heap \cup {seq + 1}
      /\ stale' = stale /\ done' = done /\ fired' = fired /\ now' = now
  BY DEF Begin
<1>3. seq \in Nat /\ seq + 1 \in 1 .. MaxSeq /\ seq + 1 \notin 1 .. seq
  BY <1>1, <1>2, TimersAssumption
<1>4. w \in Entry /\ w.seq = seq + 1
  BY <1>1, <1>3, TimersAssumption DEF Entry
<1>5. \A i \in DOMAIN timers : timers[i].seq # w.seq
  BY <1>1, <1>3, <1>4 DEF Marks, ToSet
<1> HIDE DEF w
<1>6. timers' \in Queue /\ Ordered(timers') /\ ToSet(timers') = ToSet(timers) \cup {w}
  BY <1>1, <1>2, <1>4, <1>5, PushHeaps
<1>7. in_heap' = Marks(timers')
  BY <1>1, <1>2, <1>4, <1>6 DEF Marks
<1>8. in_heap' \cap done' = in_heap \cap done
  BY <1>1, <1>2, <1>3
<1>9. \A x : x \in 1 .. seq + 1 <=> x \in 1 .. seq \/ x = seq + 1
  BY <1>3
<1>10. /\ done' \subseteq 1 .. seq' /\ in_heap' \subseteq 1 .. seq'
       /\ (1 .. seq') \ done' \subseteq in_heap'
  BY <1>1, <1>2, <1>9
<1>11. fired' \in 0 .. seq' /\ seq' \in 0 .. MaxSeq
  BY <1>1, <1>2, <1>3, TimersAssumption
<1> QED BY <1>1, <1>2, <1>6, <1>7, <1>8, <1>10, <1>11, HeapIsNext

LEMMA FinishKeeps ==
  ASSUME TimersHeap, NEW w \in 1 .. MaxSeq, finish(w)
  PROVE  TimersHeap'
<1>1. /\ timers \in Queue /\ Ordered(timers) /\ in_heap = Marks(timers)
      /\ seq \in 0 .. MaxSeq /\ stale \in Nat /\ done \subseteq 1 .. seq /\ in_heap \subseteq 1 .. seq
      /\ fired \in 0 .. seq /\ now \in 0 .. MaxTime
      /\ (1 .. seq) \ done \subseteq in_heap /\ stale = Cardinality(in_heap \cap done)
  BY HeapIs
<1>2. /\ w \in 1 .. seq /\ w \notin done /\ done' = done \cup {w}
      /\ seq' = seq /\ fired' = fired /\ now' = now
  BY DEF finish
<1>3. done' \subseteq 1 .. seq' /\ w \in in_heap
  BY <1>1, <1>2
<1>4. CASE stale + 1 > StaleFloor /\ 2 * (stale + 1) > Len(timers)
  <2> DEFINE k == Kept(timers, done')
  <2>1. timers' = Rebuilt(k) /\ in_heap' = in_heap \ done' /\ stale' = 0
    BY <1>4 DEF finish
  <2>2. k \in Queue /\ ToSet(k) = {e \in ToSet(timers) : e.seq \notin done'}
    BY <1>1, KeptIs
  <2> HIDE DEF k
  <2>3. timers' \in Queue /\ Ordered(timers') /\ ToSet(timers') = ToSet(k)
    BY <2>1, <2>2, RebuiltHeaps DEF Reordered
  <2>4. in_heap' = Marks(timers')
    BY <1>1, <2>1, <2>2, <2>3 DEF Marks
  <2>5. in_heap' \cap done' = {} /\ (1 .. seq') \ done' \subseteq in_heap' /\ in_heap' \subseteq 1 .. seq'
    BY <1>1, <1>2, <2>1
  <2>6. stale' = Cardinality(in_heap' \cap done') /\ stale' \in Nat
    BY <2>1, <2>5, FS_EmptySet
  <2> QED BY <1>1, <1>2, <1>3, <2>3, <2>4, <2>5, <2>6, HeapIsNext
<1>5. CASE ~(stale + 1 > StaleFloor /\ 2 * (stale + 1) > Len(timers))
  <2>1. stale' = stale + 1 /\ timers' = timers /\ in_heap' = in_heap
    BY <1>5 DEF finish
  <2>2. in_heap' \cap done' = (in_heap \cap done) \cup {w} /\ w \notin in_heap \cap done
    BY <1>2, <1>3, <2>1
  <2>3. IsFiniteSet(in_heap \cap done)
    BY MarksFinite, FS_Intersection
  <2>4. stale' = Cardinality(in_heap' \cap done')
    BY <1>1, <2>1, <2>2, <2>3, FS_AddElement
  <2>5. (1 .. seq') \ done' \subseteq in_heap' /\ stale' \in Nat
    BY <1>1, <1>2, <2>1
  <2> QED BY <1>1, <1>2, <1>3, <2>1, <2>4, <2>5, HeapIsNext
<1> QED BY <1>4, <1>5

(* What the two actions that pop have in common.                           *)
LEMMA PopKeeps ==
  ASSUME TimersHeap, timers # <<>>, pop_timer
  PROVE  /\ timers' \in Queue /\ Ordered(timers') /\ in_heap' = Marks(timers')
         /\ timers[1].seq \in in_heap /\ in_heap' = in_heap \ {timers[1].seq}
         /\ timers[1].seq \in done => stale' = Cardinality(in_heap' \cap done) /\ stale' \in Nat
         /\ timers[1].seq \notin done => stale' = stale
<1>1. /\ timers \in Queue /\ Ordered(timers) /\ in_heap = Marks(timers)
      /\ stale = Cardinality(in_heap \cap done)
  BY HeapIs
<1>2. /\ timers' = Popped(timers) /\ in_heap' = in_heap \ {timers[1].seq}
      /\ stale' = IF timers[1].seq \in done THEN stale - 1 ELSE stale
  BY DEF pop_timer, Popped
<1>3. timers' \in Queue /\ Ordered(timers') /\ ToSet(timers') = ToSet(timers) \ {timers[1]}
  BY <1>1, <1>2, PopHeaps
<1>4. /\ timers \in Seq(Entry) /\ DOMAIN timers = 1 .. Len(timers)
      /\ \A i, j \in 1 .. Len(timers) : i # j => timers[i].seq # timers[j].seq
  BY <1>1, QueueIs
<1>5. 1 \in 1 .. Len(timers)
  <2>1. timers \in Seq(Entry)
    BY <1>4
  <2> QED BY <2>1
<1>6. timers[1] \in ToSet(timers) /\ \A e \in ToSet(timers) : e # timers[1] => e.seq # timers[1].seq
  BY <1>4, <1>5 DEF ToSet
<1>7. timers[1].seq \in in_heap /\ in_heap' = Marks(timers')
  BY <1>1, <1>2, <1>3, <1>6 DEF Marks
<1>8. ASSUME timers[1].seq \in done PROVE stale' = Cardinality(in_heap' \cap done) /\ stale' \in Nat
  <2> DEFINE r == timers[1].seq
             B == in_heap \cap done
  <2>1. r \in B /\ in_heap' \cap done = B \ {r}
    BY <1>2, <1>7, <1>8
  <2>2. IsFiniteSet(B)
    BY MarksFinite, FS_Intersection
  <2>3. Cardinality(B \ {r}) = Cardinality(B) - 1 /\ IsFiniteSet(B \ {r})
    BY <2>1, <2>2, FS_RemoveElement
  <2>4. Cardinality(B \ {r}) \in Nat
    BY <2>3, FS_CardinalityType
  <2> QED BY <1>1, <1>2, <1>8, <2>1, <2>3, <2>4
<1> QED BY <1>2, <1>3, <1>7, <1>8

LEMMA DropDoneKeeps ==
  ASSUME TimersHeap, DropDone
  PROVE  TimersHeap'
<1>1. /\ timers \in Queue /\ seq \in 0 .. MaxSeq /\ done \subseteq 1 .. seq /\ in_heap \subseteq 1 .. seq
      /\ fired \in 0 .. seq /\ now \in 0 .. MaxTime
      /\ (1 .. seq) \ done \subseteq in_heap
  BY HeapIs
<1>2. /\ timers # <<>> /\ timers[1].seq \in done /\ pop_timer
      /\ seq' = seq /\ done' = done /\ fired' = fired /\ now' = now
  BY DEF DropDone
<1>3. /\ timers' \in Queue /\ Ordered(timers') /\ in_heap' = Marks(timers')
      /\ in_heap' = in_heap \ {timers[1].seq}
      /\ stale' = Cardinality(in_heap' \cap done) /\ stale' \in Nat
  BY <1>2, PopKeeps
<1>4. in_heap' \subseteq 1 .. seq' /\ (1 .. seq') \ done' \subseteq in_heap'
  BY <1>1, <1>2, <1>3
<1> QED BY <1>1, <1>2, <1>3, <1>4, HeapIsNext

LEMMA ExpireOneKeeps ==
  ASSUME TimersHeap, ExpireOne
  PROVE  TimersHeap'
<1>1. /\ timers \in Queue /\ seq \in 0 .. MaxSeq /\ done \subseteq 1 .. seq /\ in_heap \subseteq 1 .. seq
      /\ fired \in 0 .. seq /\ now \in 0 .. MaxTime
      /\ (1 .. seq) \ done \subseteq in_heap /\ stale \in Nat /\ stale = Cardinality(in_heap \cap done)
  BY HeapIs
<1> DEFINE r == timers[1].seq
<1>2. /\ timers # <<>> /\ r \notin done /\ pop_timer
      /\ seq' = seq /\ fired' = r /\ done' = done \cup {r} /\ now' = now
  BY DEF ExpireOne
<1>3. /\ timers' \in Queue /\ Ordered(timers') /\ in_heap' = Marks(timers')
      /\ r \in in_heap /\ in_heap' = in_heap \ {r} /\ stale' = stale
  BY <1>2, PopKeeps
<1> HIDE DEF r
<1>4. in_heap' \cap done' = in_heap \cap done
  BY <1>2, <1>3
<1>5. in_heap' \subseteq 1 .. seq' /\ (1 .. seq') \ done' \subseteq in_heap' /\ done' \subseteq 1 .. seq'
  BY <1>1, <1>2, <1>3
<1>6. seq \in Nat /\ \A x \in 1 .. seq : x \in 0 .. seq
  BY <1>1, TimersAssumption
<1>7. fired' \in 0 .. seq'
  BY <1>1, <1>2, <1>3, <1>6
<1> QED BY <1>1, <1>2, <1>3, <1>4, <1>5, <1>7, HeapIsNext

LEMMA TimersKept ==
  ASSUME TimersHeap, [TimersNext]_timerVars
  PROVE  TimersHeap'
<1>1. CASE \E at \in now .. MaxTime : Begin(at)
  BY <1>1, BeginKeeps
<1>2. CASE \E w \in 1 .. MaxSeq : finish(w)
  BY <1>2, FinishKeeps
<1>3. CASE DropDone
  BY <1>3, DropDoneKeeps
<1>4. CASE ExpireOne
  BY <1>4, ExpireOneKeeps
<1>5. CASE Tick
  <2>1. now' \in 0 .. MaxTime
    BY <1>5, TimersAssumption DEF TimersHeap, TimersTypeOK, Tick
  <2> QED BY <1>5, <2>1 DEF TimersHeap, TimersTypeOK, HeapExact, HeapOrdered, Tick
<1>6. CASE UNCHANGED timerVars
  BY <1>6 DEF timerVars, TimersHeap, TimersTypeOK, HeapExact, HeapOrdered
<1> QED BY <1>1, <1>2, <1>3, <1>4, <1>5, <1>6 DEF TimersNext

(* A step that answers a wait answers the root, which is the earliest.     *)
LEMMA FiresTheRoot ==
  ASSUME TimersHeap, [TimersNext]_timerVars
  PROVE  FiresEarliest
<1> SUFFICES ASSUME fired' # fired
             PROVE  \E e \in EntriesOf(fired') :
                       /\ e.at <= now
                       /\ \A f \in ToSet(timers) : f.seq \in done \cup {e.seq} \/ earlier(e, f)
  BY DEF FiresEarliest
<1>1. ExpireOne
  BY DEF TimersNext, Begin, finish, DropDone, Tick, timerVars
<1>2. timers # <<>> /\ timers[1].at <= now /\ fired' = timers[1].seq
  BY <1>1 DEF ExpireOne
<1>3. timers \in Queue /\ Ordered(timers)
  BY HeapIs
<1>4. timers \in Seq(Entry) /\ DOMAIN timers = 1 .. Len(timers)
  BY <1>3, QueueIs
<1>5. 1 \in 1 .. Len(timers)
  <2>1. timers \in Seq(Entry)
    BY <1>4
  <2> QED BY <1>2, <2>1
<1>6. \A i \in 1 .. Len(timers) : i = 1 \/ earlier(timers[1], timers[i])
  BY <1>2, <1>3, RootEarliest
<1>7. timers[1] \in EntriesOf(fired')
  BY <1>2, <1>4, <1>5 DEF EntriesOf, ToSet
<1>8. \A f \in ToSet(timers) : f = timers[1] \/ earlier(timers[1], f)
  BY <1>4, <1>6 DEF ToSet
<1> QED BY <1>2, <1>7, <1>8

LEMMA TimersStart ==
  ASSUME TimersInit
  PROVE  TimersHeap
<1>1. 0 \in 0 .. MaxSeq /\ 0 \in 0 .. 0 /\ 0 \in 0 .. MaxTime /\ 0 \in Nat /\ 1 .. 0 = {}
  BY TimersAssumption
<1>2. <<>> \in Queue /\ Ordered(<<>>) /\ Marks(<<>>) = {}
  BY DEF Queue, Distinct, ToSet, Ordered, Marks
<1>3. Cardinality({}) = 0
  BY FS_EmptySet
<1> QED BY <1>1, <1>2, <1>3, HeapIs DEF TimersInit

(* The heap of the waits with a time limit is a heap, holds each of them   *)
(* once until it is popped, and its count of answered ones is exact, after *)
(* every push, pop and rebuild (poll.tl heap_push, sift_down, pop_timer,   *)
(* finish, compact_timers).                                                *)
THEOREM TimersInvariance == TimersSpec => []TimersHeap
BY TimersStart, TimersKept, PTL DEF TimersSpec

(* The waits with a time limit are answered in the order of their times,   *)
(* and none is lost from the heap or counted twice, whatever is begun,     *)
(* answered otherwise, popped or thrown out by a rebuild (poll.tl          *)
(* heap_push, sift_down, pop_timer, compact_timers, expire).               *)
THEOREM TimersFireInOrder == TimersSpec => TimersFire
<1>1. TimersHeap /\ [TimersNext]_timerVars => [TimersHeap' /\ FiresEarliest]_timerVars
  BY TimersKept, FiresTheRoot
<1> QED BY TimersInvariance, <1>1, PTL DEF TimersSpec, TimersFire
-----------------------------------------------------------------------------
(* park's loop over the places of a wait.                                  *)
LEMMA EnterTurns ==
  ASSUME NEW T, NEW w, NEW ask, Len(ask) \in Nat
  PROVE  \E f : /\ f[0] = T
                /\ \A n \in 1 .. Len(ask) : f[n] = enter(f[n - 1], [wait |-> w, place |-> n], ask[n])
                /\ Entered(T, w, ask) = f[Len(ask)]
<1> DEFINE x == T
           Turns(m, f) == f = [n \in 0 .. m |-> IF n = 0 THEN x ELSE enter(f[n - 1], [wait |-> w, place |-> n], ask[n])]
           S == {m \in Nat : \E f : Turns(m, f)}
<1>1. 0 \in S
  <2> DEFINE f == [n \in 0 .. 0 |-> x]
  <2>1. f = [n \in 0 .. 0 |-> IF n = 0 THEN x ELSE enter(f[n - 1], [wait |-> w, place |-> n], ask[n])]
    OBVIOUS
  <2> QED BY <2>1
<1>2. ASSUME NEW m \in Nat, m \in S PROVE m + 1 \in S
  <2>1. PICK f : Turns(m, f)
    BY <1>2
  <2> DEFINE g == [n \in 0 .. m + 1 |-> IF n = 0 THEN x ELSE enter(f[n - 1], [wait |-> w, place |-> n], ask[n])]
  <2> HIDE DEF x
  <2>2. \A n \in 0 .. m : g[n] = f[n]
    BY <2>1
  <2>3. \A n \in 0 .. m + 1 : n # 0 => n - 1 \in 0 .. m
    OBVIOUS
  <2>4. \A n \in 0 .. m + 1 : (IF n = 0 THEN x ELSE enter(f[n - 1], [wait |-> w, place |-> n], ask[n])) = (IF n = 0 THEN x ELSE enter(g[n - 1], [wait |-> w, place |-> n], ask[n]))
    BY <2>2, <2>3
  <2>5. g = [n \in 0 .. m + 1 |-> IF n = 0 THEN x ELSE enter(g[n - 1], [wait |-> w, place |-> n], ask[n])]
    BY <2>4
  <2> HIDE DEF g
  <2> QED BY <2>5
<1>3. \A m \in Nat : m \in S
  <2> HIDE DEF S
  <2> QED BY <1>1, <1>2, SetInduction
<1> DEFINE ff == CHOOSE f : Turns(Len(ask), f)
<1>4. Turns(Len(ask), ff)
  <2>1. \E f : Turns(Len(ask), f)
    BY <1>3
  <2> QED BY <2>1, Zenon
<1>5. Entered(T, w, ask) = ff[Len(ask)]
  BY DEF Entered
<1> HIDE DEF x, ff
<1>6. ff[0] = x /\ \A n \in 1 .. Len(ask) : ff[n] = enter(ff[n - 1], [wait |-> w, place |-> n], ask[n])
  BY <1>4
<1> QED BY <1>5, <1>6 DEF x

(* finish's.                                                               *)
LEMMA LeaveTurns ==
  ASSUME NEW T, NEW w, NEW ask, Len(ask) \in Nat
  PROVE  \E f : /\ f[0] = T
                /\ \A n \in 1 .. Len(ask) : f[n] = leave(f[n - 1], [wait |-> w, place |-> n], ask[n])
                /\ Left(T, w, ask) = f[Len(ask)]
<1> DEFINE x == T
           Turns(m, f) == f = [n \in 0 .. m |-> IF n = 0 THEN x ELSE leave(f[n - 1], [wait |-> w, place |-> n], ask[n])]
           S == {m \in Nat : \E f : Turns(m, f)}
<1>1. 0 \in S
  <2> DEFINE f == [n \in 0 .. 0 |-> x]
  <2>1. f = [n \in 0 .. 0 |-> IF n = 0 THEN x ELSE leave(f[n - 1], [wait |-> w, place |-> n], ask[n])]
    OBVIOUS
  <2> QED BY <2>1
<1>2. ASSUME NEW m \in Nat, m \in S PROVE m + 1 \in S
  <2>1. PICK f : Turns(m, f)
    BY <1>2
  <2> DEFINE g == [n \in 0 .. m + 1 |-> IF n = 0 THEN x ELSE leave(f[n - 1], [wait |-> w, place |-> n], ask[n])]
  <2> HIDE DEF x
  <2>2. \A n \in 0 .. m : g[n] = f[n]
    BY <2>1
  <2>3. \A n \in 0 .. m + 1 : n # 0 => n - 1 \in 0 .. m
    OBVIOUS
  <2>4. \A n \in 0 .. m + 1 : (IF n = 0 THEN x ELSE leave(f[n - 1], [wait |-> w, place |-> n], ask[n])) = (IF n = 0 THEN x ELSE leave(g[n - 1], [wait |-> w, place |-> n], ask[n]))
    BY <2>2, <2>3
  <2>5. g = [n \in 0 .. m + 1 |-> IF n = 0 THEN x ELSE leave(g[n - 1], [wait |-> w, place |-> n], ask[n])]
    BY <2>4
  <2> HIDE DEF g
  <2> QED BY <2>5
<1>3. \A m \in Nat : m \in S
  <2> HIDE DEF S
  <2> QED BY <1>1, <1>2, SetInduction
<1> DEFINE ff == CHOOSE f : Turns(Len(ask), f)
<1>4. Turns(Len(ask), ff)
  <2>1. \E f : Turns(Len(ask), f)
    BY <1>3
  <2> QED BY <2>1, Zenon
<1>5. Left(T, w, ask) = ff[Len(ask)]
  BY DEF Left
<1> HIDE DEF x, ff
<1>6. ff[0] = x /\ \A n \in 1 .. Len(ask) : ff[n] = leave(ff[n - 1], [wait |-> w, place |-> n], ask[n])
  BY <1>4
<1> QED BY <1>5, <1>6 DEF x

(* wake_hits' loop over the waits hit.                                     *)
LEMMA FinishTurns ==
  ASSUME NEW T, NEW q, NEW asked, Len(q) \in Nat
  PROVE  \E f : /\ f[0] = T
                /\ \A n \in 1 .. Len(q) : f[n] = Left(f[n - 1], q[n], asked[q[n]])
                /\ AllLeft(T, q, asked) = f[Len(q)]
<1> DEFINE x == T
           Turns(m, f) == f = [n \in 0 .. m |-> IF n = 0 THEN x ELSE Left(f[n - 1], q[n], asked[q[n]])]
           S == {m \in Nat : \E f : Turns(m, f)}
<1>1. 0 \in S
  <2> DEFINE f == [n \in 0 .. 0 |-> x]
  <2>1. f = [n \in 0 .. 0 |-> IF n = 0 THEN x ELSE Left(f[n - 1], q[n], asked[q[n]])]
    OBVIOUS
  <2> QED BY <2>1
<1>2. ASSUME NEW m \in Nat, m \in S PROVE m + 1 \in S
  <2>1. PICK f : Turns(m, f)
    BY <1>2
  <2> DEFINE g == [n \in 0 .. m + 1 |-> IF n = 0 THEN x ELSE Left(f[n - 1], q[n], asked[q[n]])]
  <2> HIDE DEF x
  <2>2. \A n \in 0 .. m : g[n] = f[n]
    BY <2>1
  <2>3. \A n \in 0 .. m + 1 : n # 0 => n - 1 \in 0 .. m
    OBVIOUS
  <2>4. \A n \in 0 .. m + 1 : (IF n = 0 THEN x ELSE Left(f[n - 1], q[n], asked[q[n]])) = (IF n = 0 THEN x ELSE Left(g[n - 1], q[n], asked[q[n]]))
    BY <2>2, <2>3
  <2>5. g = [n \in 0 .. m + 1 |-> IF n = 0 THEN x ELSE Left(g[n - 1], q[n], asked[q[n]])]
    BY <2>4
  <2> HIDE DEF g
  <2> QED BY <2>5
<1>3. \A m \in Nat : m \in S
  <2> HIDE DEF S
  <2> QED BY <1>1, <1>2, SetInduction
<1> DEFINE ff == CHOOSE f : Turns(Len(q), f)
<1>4. Turns(Len(q), ff)
  <2>1. \E f : Turns(Len(q), f)
    BY <1>3
  <2> QED BY <2>1, Zenon
<1>5. AllLeft(T, q, asked) = ff[Len(q)]
  BY DEF AllLeft
<1> HIDE DEF x, ff
<1>6. ff[0] = x /\ \A n \in 1 .. Len(q) : ff[n] = Left(ff[n - 1], q[n], asked[q[n]])
  BY <1>4
<1> QED BY <1>5, <1>6 DEF x

(* The tables say of the watches of X, each for its ask of A, what they    *)
(* should, slot by slot and watch by watch.                                *)
TableSet == [fds : Seq(Fd), events : Seq(SUBSET Event), slot : [Fd -> Nat],
             watches : [Fd -> Seq(Watch)], masks : [Fd -> [Mask -> Nat]], index : [Watch -> Nat]]

Ons(X, A, fd) == {x \in X : A[x].fd = fd}
Asking(X, A, fd, mask) == {x \in X : A[x].fd = fd /\ A[x].mask = mask}
EventsOf(X, A, fd) == UNION {A[x].mask : x \in Ons(X, A, fd)}

Shaped(T, X, A) == /\ T \in TableSet /\ X \subseteq Watch /\ IsFiniteSet(X)
                   /\ \A x \in X : A[x] \in Ask

SlotsOK(T, X, A) ==
  /\ Len(T.events) = Len(T.fds)
  /\ \A s \in 1 .. Len(T.fds) : T.slot[T.fds[s]] = s
  /\ \A fd \in Fd : IF Ons(X, A, fd) # {}
                    THEN T.slot[fd] \in 1 .. Len(T.fds) /\ T.fds[T.slot[fd]] = fd
                    ELSE T.slot[fd] = 0

WatchesOK(T, X, A) ==
  /\ \A x \in X : /\ T.index[x] \in 1 .. Len(T.watches[A[x].fd])
                  /\ T.watches[A[x].fd][T.index[x]] = x
  /\ \A fd \in Fd : \A i \in 1 .. Len(T.watches[fd]) :
        /\ T.watches[fd][i] \in Ons(X, A, fd)
        /\ T.index[T.watches[fd][i]] = i

MasksOK(T, X, A) ==
  \A fd \in Fd, mask \in Mask : T.masks[fd][mask] = Cardinality(Asking(X, A, fd, mask))

EventsOK(T, X, A) ==
  \A fd \in Fd : Ons(X, A, fd) # {} => T.events[T.slot[fd]] = EventsOf(X, A, fd)

TablesOK(T, X, A) == /\ Shaped(T, X, A) /\ SlotsOK(T, X, A) /\ WatchesOK(T, X, A)
                     /\ MasksOK(T, X, A) /\ EventsOK(T, X, A)

LEMMA TableIs ==
  ASSUME NEW T \in TableSet
  PROVE  /\ T.fds \in Seq(Fd) /\ T.events \in Seq(SUBSET Event) /\ T.slot \in [Fd -> Nat]
         /\ T.watches \in [Fd -> Seq(Watch)] /\ T.masks \in [Fd -> [Mask -> Nat]]
         /\ T.index \in [Watch -> Nat]
BY DEF TableSet

LEMMA AskIs ==
  ASSUME NEW a \in Ask
  PROVE  a.fd \in Fd /\ a.mask \in Mask /\ a.mask \in SUBSET Event
BY DEF Ask, Mask

(* enter's tables, field by field.                                         *)
EntersIn(T, U, x, fd, m, n) ==
  /\ U \in TableSet
  /\ U.slot = [T.slot EXCEPT ![fd] = IF T.slot[fd] = 0 THEN n + 1 ELSE T.slot[fd]]
  /\ U.watches = [T.watches EXCEPT ![fd] = Append(T.watches[fd], x)]
  /\ U.index = [T.index EXCEPT ![x] = Len(T.watches[fd]) + 1]
  /\ U.masks = [T.masks EXCEPT ![fd] = [T.masks[fd] EXCEPT ![m] = T.masks[fd][m] + 1]]
  /\ T.slot[fd] # 0 => /\ U.fds = T.fds /\ Len(U.events) = n
                       /\ U.events = [T.events EXCEPT ![T.slot[fd]] = T.events[T.slot[fd]] \cup m]
  /\ T.slot[fd] = 0 => /\ U.fds = Append(T.fds, fd) /\ Len(U.events) = n + 1
                       /\ U.events[n + 1] = m
                       /\ \A s \in 1 .. n : U.events[s] = T.events[s]

LEMMA EnterFields ==
  ASSUME NEW T \in TableSet, NEW x \in Watch, NEW ask \in Ask, NEW n \in Nat, n = Len(T.fds), Len(T.events) = n,
         T.slot[ask.fd] = 0 \/ T.slot[ask.fd] \in 1 .. n
  PROVE  EntersIn(T, enter(T, x, ask), x, ask.fd, ask.mask, n)
<1> DEFINE U == enter(T, x, ask)
           fd == ask.fd
<1>1. /\ T.fds \in Seq(Fd) /\ T.events \in Seq(SUBSET Event) /\ T.slot \in [Fd -> Nat]
      /\ T.watches \in [Fd -> Seq(Watch)] /\ T.masks \in [Fd -> [Mask -> Nat]]
      /\ T.index \in [Watch -> Nat]
  BY TableIs
<1>2. fd \in Fd /\ ask.mask \in Mask /\ ask.mask \in SUBSET Event
  BY AskIs
<1> DEFINE new == T.slot[fd] = 0
           s == IF new THEN n + 1 ELSE T.slot[fd]
           asked == IF new THEN Append(T.events, {}) ELSE T.events
<1>3. /\ U.fds = IF new THEN Append(T.fds, fd) ELSE T.fds
      /\ U.events = [asked EXCEPT ![s] = asked[s] \cup ask.mask]
      /\ U.slot = [T.slot EXCEPT ![fd] = s]
      /\ U.watches = [T.watches EXCEPT ![fd] = Append(T.watches[fd], x)]
      /\ U.masks = [T.masks EXCEPT ![fd] = [T.masks[fd] EXCEPT ![ask.mask] = T.masks[fd][ask.mask] + 1]]
      /\ U.index = [T.index EXCEPT ![x] = Len(T.watches[fd]) + 1]
      /\ U = [fds |-> U.fds, events |-> U.events, slot |-> U.slot, watches |-> U.watches,
              masks |-> U.masks, index |-> U.index]
  BY ZenonT(30) DEF enter
<1> HIDE DEF U
<1>4. U.slot \in [Fd -> Nat] /\ U.index \in [Watch -> Nat] /\ U.fds \in Seq(Fd)
  <2>1. U.slot \in [Fd -> Nat]
    BY <1>1, <1>2, <1>3, SMTT(30)
  <2>2. Len(T.watches[fd]) + 1 \in Nat
    BY <1>1, <1>2
  <2>3. U.index \in [Watch -> Nat]
    BY <1>1, <1>3, <2>2, SMTT(30)
  <2>4. U.fds \in Seq(Fd)
    BY <1>1, <1>2, <1>3, SMTT(30)
  <2> QED BY ONLY <2>1, <2>3, <2>4
<1>5. U.watches \in [Fd -> Seq(Watch)]
  <2>1. Append(T.watches[fd], x) \in Seq(Watch)
    BY <1>1, <1>2
  <2> QED BY <1>1, <1>3, <2>1, ZenonT(30)
<1>6. U.masks \in [Fd -> [Mask -> Nat]]
  <2>1. T.masks[fd] \in [Mask -> Nat]
    BY <1>1, <1>2
  <2>2. [T.masks[fd] EXCEPT ![ask.mask] = T.masks[fd][ask.mask] + 1] \in [Mask -> Nat]
    BY <2>1, <1>2
  <2> QED BY ONLY <1>1, <1>2, <1>3, <2>2
<1>7. CASE new
  <2>1. asked \in Seq(SUBSET Event) /\ Len(asked) = n + 1 /\ asked[n + 1] = {} /\ \A i \in 1 .. n : asked[i] = T.events[i]
    <3>1. asked = Append(T.events, {}) /\ T.events \in Seq(SUBSET Event) /\ {} \in SUBSET Event
      BY <1>1, <1>7
    <3> HIDE DEF asked
    <3> QED BY <3>1
  <2>2. U.events = [asked EXCEPT ![n + 1] = asked[n + 1] \cup ask.mask]
    BY <1>3, <1>7
  <2> HIDE DEF asked
  <2>3. /\ U.events \in Seq(SUBSET Event) /\ Len(U.events) = n + 1
        /\ U.events[n + 1] = ask.mask
        /\ \A i \in 1 .. n : U.events[i] = T.events[i]
    BY <2>1, <2>2, <1>2
  <2>4. U \in TableSet
    BY <1>3, <1>4, <1>5, <1>6, <2>3 DEF TableSet
  <2> QED BY <1>3, <1>7, <2>3, <2>4 DEF EntersIn, U
<1>8. CASE ~new
  <2>1. U.events = [T.events EXCEPT ![T.slot[fd]] = T.events[T.slot[fd]] \cup ask.mask] /\ T.slot[fd] \in 1 .. n
    BY <1>3, <1>8
  <2>2. U.events \in Seq(SUBSET Event) /\ Len(U.events) = n
    BY <2>1, <1>1, <1>2, SMTT(30)
  <2>3. U \in TableSet
    BY <1>3, <1>4, <1>5, <1>6, <2>2 DEF TableSet
  <2> QED BY <1>3, <1>8, <2>1, <2>2, <2>3 DEF EntersIn, U
<1> QED BY <1>7, <1>8

(* How the watches on a descriptor change when one more is entered.        *)
Grown(X, Y, A, x, fd, m) ==
  /\ \A f \in Fd : f # fd => Ons(Y, A, f) = Ons(X, A, f) /\ EventsOf(Y, A, f) = EventsOf(X, A, f)
  /\ Ons(Y, A, fd) = Ons(X, A, fd) \cup {x} /\ EventsOf(Y, A, fd) = EventsOf(X, A, fd) \cup m
  /\ \A f \in Fd, k \in Mask : ~(f = fd /\ k = m) => Asking(Y, A, f, k) = Asking(X, A, f, k)
  /\ Asking(Y, A, fd, m) = Asking(X, A, fd, m) \cup {x} /\ x \notin Asking(X, A, fd, m)
  /\ x \notin Ons(X, A, fd)

LEMMA OnsGrow ==
  ASSUME NEW X, NEW A, NEW x, x \notin X
  PROVE  Grown(X, X \cup {x}, A, x, A[x].fd, A[x].mask)
BY DEF Ons, EventsOf, Asking, Grown

LEMMA EnterKeeps ==
  ASSUME NEW T, NEW X, NEW A, TablesOK(T, X, A), NEW x \in Watch, x \notin X, A[x] \in Ask
  PROVE  TablesOK(enter(T, x, A[x]), X \cup {x}, A)
<1> DEFINE U == enter(T, x, A[x])
           Y == X \cup {x}
<1>0. PICK fd, m : fd = A[x].fd /\ m = A[x].mask
  OBVIOUS
<1>1. /\ T \in TableSet /\ X \subseteq Watch /\ IsFiniteSet(X) /\ \A y \in X : A[y] \in Ask
      /\ fd \in Fd /\ m \in Mask
  BY <1>0, AskIs DEF TablesOK, Shaped
<1>2. /\ T.fds \in Seq(Fd) /\ T.events \in Seq(SUBSET Event) /\ T.slot \in [Fd -> Nat]
      /\ T.watches \in [Fd -> Seq(Watch)] /\ T.masks \in [Fd -> [Mask -> Nat]]
      /\ T.index \in [Watch -> Nat]
  BY <1>1, TableIs
<1>3. PICK n \in Nat : n = Len(T.fds)
  BY <1>2
<1>4. /\ Len(T.events) = n
      /\ \A s \in 1 .. n : T.slot[T.fds[s]] = s
      /\ \A f \in Fd : IF Ons(X, A, f) # {} THEN T.slot[f] \in 1 .. n /\ T.fds[T.slot[f]] = f ELSE T.slot[f] = 0
  BY <1>3 DEF TablesOK, SlotsOK
<1>5. /\ U \in TableSet
      /\ U.slot = [T.slot EXCEPT ![fd] = IF T.slot[fd] = 0 THEN n + 1 ELSE T.slot[fd]]
      /\ U.watches = [T.watches EXCEPT ![fd] = Append(T.watches[fd], x)]
      /\ U.index = [T.index EXCEPT ![x] = Len(T.watches[fd]) + 1]
      /\ U.masks = [T.masks EXCEPT ![fd] = [T.masks[fd] EXCEPT ![m] = T.masks[fd][m] + 1]]
      /\ T.slot[fd] # 0 => /\ U.fds = T.fds /\ Len(U.events) = n
                           /\ U.events = [T.events EXCEPT ![T.slot[fd]] = T.events[T.slot[fd]] \cup m]
      /\ T.slot[fd] = 0 => /\ U.fds = Append(T.fds, fd) /\ Len(U.events) = n + 1
                           /\ U.events[n + 1] = m
                           /\ \A s \in 1 .. n : U.events[s] = T.events[s]
  <2>1. T.slot[fd] = 0 \/ T.slot[fd] \in 1 .. n
    BY <1>1, <1>4
  <2>2. EntersIn(T, U, x, fd, m, n)
    BY <1>0, <1>1, <1>3, <1>4, <2>1, EnterFields
  <2> HIDE DEF U
  <2> QED BY <2>2 DEF EntersIn
<1> HIDE DEF U
<1>a. Grown(X, Y, A, x, fd, m)
  BY <1>0, OnsGrow
<1>b. Y = X \cup {x}
  OBVIOUS
<1> HIDE DEF Y
<1>6. /\ \A f \in Fd : f # fd => Ons(Y, A, f) = Ons(X, A, f) /\ EventsOf(Y, A, f) = EventsOf(X, A, f)
      /\ Ons(Y, A, fd) = Ons(X, A, fd) \cup {x} /\ EventsOf(Y, A, fd) = EventsOf(X, A, fd) \cup m
  BY <1>a DEF Grown
<1>7. /\ \A f \in Fd, k \in Mask : ~(f = fd /\ k = m) => Asking(Y, A, f, k) = Asking(X, A, f, k)
      /\ Asking(Y, A, fd, m) = Asking(X, A, fd, m) \cup {x} /\ x \notin Asking(X, A, fd, m)
  BY <1>a DEF Grown
<1>8. Shaped(U, Y, A)
  <2>1. IsFiniteSet(Y)
    BY <1>1, <1>b, FS_AddElement
  <2> QED BY <1>1, <1>5, <1>b, <2>1 DEF Shaped
<1>9. MasksOK(U, Y, A)
  <2> SUFFICES ASSUME NEW f \in Fd, NEW k \in Mask
               PROVE  U.masks[f][k] = Cardinality(Asking(Y, A, f, k))
    BY DEF MasksOK
  <2>1. T.masks[f][k] = Cardinality(Asking(X, A, f, k))
    BY DEF TablesOK, MasksOK
  <2>2. CASE f = fd /\ k = m
    <3>1. Asking(X, A, fd, m) \subseteq X
      BY DEF Asking
    <3>2. IsFiniteSet(Asking(X, A, fd, m))
      BY <1>1, <3>1, FS_Subset
    <3>3. Cardinality(Asking(Y, A, fd, m)) = Cardinality(Asking(X, A, fd, m)) + 1
      BY <1>7, <3>2, FS_AddElement, ZenonT(30)
    <3> QED BY <1>1, <1>2, <1>5, <2>1, <2>2, <3>3
  <2>3. CASE ~(f = fd /\ k = m)
    <3>1. U.masks[f][k] = T.masks[f][k]
      BY <1>1, <1>2, <1>5, <2>3, SMTT(30)
    <3>2. Asking(Y, A, f, k) = Asking(X, A, f, k)
      BY <1>7, <2>3
    <3> QED BY <2>1, <3>1, <3>2
  <2> QED BY <2>2, <2>3
<1>10. WatchesOK(U, Y, A)
  <2> DEFINE q == T.watches[fd]
             c == Len(q)
  <2>1. q \in Seq(Watch) /\ c \in Nat
    BY <1>1, <1>2
  <2>2. U.watches[fd] = Append(q, x) /\ \A f \in Fd : f # fd => U.watches[f] = T.watches[f]
    BY <1>1, <1>2, <1>5
  <2>3. U.index[x] = c + 1 /\ \A y \in X : U.index[y] = T.index[y] /\ y # x
    BY <1>1, <1>2, <1>5
  <2> HIDE DEF q
  <2>4. Len(Append(q, x)) = c + 1 /\ Append(q, x)[c + 1] = x /\ \A i \in 1 .. c : Append(q, x)[i] = q[i]
    BY <2>1
  <2>5. \A y \in X : /\ T.index[y] \in 1 .. Len(T.watches[A[y].fd]) /\ A[y].fd \in Fd
                     /\ T.watches[A[y].fd][T.index[y]] = y
    BY <1>1, AskIs DEF TablesOK, WatchesOK
  <2>6. \A f \in Fd : \A i \in 1 .. Len(T.watches[f]) :
          T.watches[f][i] \in Ons(X, A, f) /\ T.index[T.watches[f][i]] = i
    BY DEF TablesOK, WatchesOK
  <2>7. ASSUME NEW y \in Y
        PROVE  U.index[y] \in 1 .. Len(U.watches[A[y].fd]) /\ U.watches[A[y].fd][U.index[y]] = y
    <3>1. CASE y = x
      BY <3>1, <1>0, <2>1, <2>2, <2>3, <2>4
    <3>2. CASE y # x
      <4>1. y \in X
        BY <3>2, <1>b
      <4>2. CASE A[y].fd = fd
        <5>1. T.index[y] \in 1 .. c /\ q[T.index[y]] = y
          BY <4>1, <4>2, <2>5 DEF q
        <5>2. T.index[y] \in 1 .. c + 1
          BY <5>1, <2>1
        <5> QED BY <4>1, <4>2, <5>1, <5>2, <2>2, <2>3, <2>4
      <4>3. CASE A[y].fd # fd
        BY <4>1, <4>3, <2>2, <2>3, <2>5
      <4> QED BY <4>2, <4>3
    <3> QED BY <3>1, <3>2
  <2>8. ASSUME NEW f \in Fd, NEW i \in 1 .. Len(U.watches[f])
        PROVE  U.watches[f][i] \in Ons(Y, A, f) /\ U.index[U.watches[f][i]] = i
    <3>0. \A y \in Ons(X, A, f) : y \in X
      BY DEF Ons
    <3>1. CASE f # fd
      <4>1. U.watches[f] = T.watches[f] /\ Ons(Y, A, f) = Ons(X, A, f)
        BY <3>1, <2>2, <1>6
      <4>2. T.watches[f][i] \in Ons(X, A, f) /\ T.index[T.watches[f][i]] = i
        BY <4>1, <2>6
      <4> QED BY <4>1, <4>2, <3>0, <2>3
    <3>2. CASE f = fd
      <4>1. i \in 1 .. c \/ i = c + 1
        BY <3>2, <2>1, <2>2, <2>4
      <4>2. CASE i = c + 1
        BY <3>2, <4>2, <2>2, <2>3, <2>4, <1>6
      <4>3. CASE i \in 1 .. c
        <5>1. U.watches[f][i] = q[i] /\ q[i] \in Ons(X, A, f) /\ T.index[q[i]] = i
          BY <3>2, <4>3, <2>2, <2>4, <2>6 DEF q
        <5> QED BY <3>0, <3>2, <5>1, <2>3, <1>6
      <4> QED BY <4>1, <4>2, <4>3
    <3> QED BY <3>1, <3>2
  <2> QED BY <2>7, <2>8 DEF WatchesOK
<1>11. SlotsOK(U, Y, A) /\ EventsOK(U, Y, A)
  <2>0. ASSUME NEW f \in Fd, Ons(X, A, f) # {} PROVE T.events[T.slot[f]] = EventsOf(X, A, f)
    BY <2>0 DEF TablesOK, EventsOK
  <2>1. CASE T.slot[fd] = 0
    <3>1. /\ U.fds = Append(T.fds, fd) /\ Len(U.events) = n + 1 /\ U.events[n + 1] = m
          /\ \A s \in 1 .. n : U.events[s] = T.events[s]
      BY <1>5, <2>1
    <3>2. Len(U.fds) = n + 1 /\ U.fds[n + 1] = fd /\ \A s \in 1 .. n : U.fds[s] = T.fds[s] /\ T.fds[s] \in Fd
      <4>1. T.fds \in Seq(Fd) /\ n = Len(T.fds)
        BY <1>1, <1>2, <1>3
      <4>2. Len(U.fds) = n + 1 /\ U.fds[n + 1] = fd
        BY ONLY <4>1, <3>1
      <4>3. \A s \in 1 .. n : U.fds[s] = T.fds[s] /\ T.fds[s] \in Fd
        BY ONLY <4>1, <3>1
      <4> QED BY ONLY <4>2, <4>3
    <3>3. U.slot[fd] = n + 1 /\ \A f \in Fd : f # fd => U.slot[f] = T.slot[f]
      BY <2>1, <1>1, <1>2, <1>5
    <3>4. \A s \in 1 .. n + 1 : s \in 1 .. n \/ s = n + 1
      OBVIOUS
    <3>5. \A s \in 1 .. n : s \in 1 .. n + 1 /\ s # 0
      OBVIOUS
    <3>6. Ons(X, A, fd) = {} /\ n + 1 \in 1 .. n + 1
      BY <2>1, <1>1, <1>4
    <3>7. SlotsOK(U, Y, A)
      <4>1. ASSUME NEW s \in 1 .. n + 1 PROVE U.slot[U.fds[s]] = s
        <5>1. CASE s = n + 1
          BY <5>1, <3>2, <3>3
        <5>2. CASE s \in 1 .. n
          BY <5>2, <3>2, <3>3, <3>5, <2>1, <1>4
        <5> QED BY <5>1, <5>2, <3>4
      <4>2. ASSUME NEW f \in Fd
            PROVE  IF Ons(Y, A, f) # {} THEN U.slot[f] \in 1 .. n + 1 /\ U.fds[U.slot[f]] = f ELSE U.slot[f] = 0
        <5>1. CASE f = fd
          BY <5>1, <1>6, <3>2, <3>3, <3>6
        <5>2. CASE f # fd
          <6>1. Ons(Y, A, f) = Ons(X, A, f) /\ U.slot[f] = T.slot[f]
            BY <5>2, <1>6, <3>3
          <6>2. CASE Ons(X, A, f) # {}
            <7>1. T.slot[f] \in 1 .. n /\ T.fds[T.slot[f]] = f
              BY <6>2, <1>4
            <7> QED BY <6>1, <6>2, <7>1, <3>2, <3>5
          <6>3. CASE Ons(X, A, f) = {}
            BY <6>1, <6>3, <1>4
          <6> QED BY <6>2, <6>3
        <5> QED BY <5>1, <5>2
      <4> QED BY <3>1, <3>2, <4>1, <4>2 DEF SlotsOK
    <3>8. EventsOK(U, Y, A)
      <4>1. EventsOf(X, A, fd) = {}
        BY <3>6 DEF EventsOf
      <4>2. ASSUME NEW f \in Fd, Ons(Y, A, f) # {} PROVE U.events[U.slot[f]] = EventsOf(Y, A, f)
        <5>1. CASE f = fd
          BY <5>1, <4>1, <3>1, <3>3, <1>6
        <5>2. CASE f # fd
          <6>1. Ons(X, A, f) # {} /\ EventsOf(Y, A, f) = EventsOf(X, A, f)
            BY <4>2, <5>2, <1>6
          <6>2. T.slot[f] \in 1 .. n /\ U.slot[f] = T.slot[f]
            BY <5>2, <6>1, <1>4, <3>3
          <6> QED BY <6>1, <6>2, <2>0, <3>1
        <5> QED BY <5>1, <5>2
      <4> QED BY <4>2 DEF EventsOK
    <3> QED BY <3>7, <3>8
  <2>2. CASE T.slot[fd] # 0
    <3>1. /\ U.fds = T.fds /\ Len(U.events) = n
          /\ U.events = [T.events EXCEPT ![T.slot[fd]] = T.events[T.slot[fd]] \cup m]
      BY <1>5, <2>2
    <3>2. U.slot = T.slot
      BY <2>2, <1>1, <1>2, <1>5
    <3>3. Ons(X, A, fd) # {} /\ T.slot[fd] \in 1 .. n
      BY <2>2, <1>1, <1>4
    <3>4. SlotsOK(U, Y, A)
      <4>1. ASSUME NEW f \in Fd
            PROVE  IF Ons(Y, A, f) # {} THEN T.slot[f] \in 1 .. n /\ T.fds[T.slot[f]] = f ELSE T.slot[f] = 0
        BY <1>4, <1>6, <3>3
      <4> QED BY <1>3, <1>4, <3>1, <3>2, <4>1 DEF SlotsOK
    <3>5. EventsOK(U, Y, A)
      <4>1. ASSUME NEW f \in Fd, Ons(Y, A, f) # {} PROVE U.events[U.slot[f]] = EventsOf(Y, A, f)
        <5>0. DOMAIN T.events = 1 .. n
          BY <1>2, <1>4
        <5>1. CASE f = fd
          <6>1. U.events[T.slot[fd]] = T.events[T.slot[fd]] \cup m
            BY <3>1, <3>3, <5>0
          <6> QED BY <5>1, <6>1, <3>2, <3>3, <2>0, <1>6
        <5>2. CASE f # fd
          <6>1. Ons(X, A, f) # {} /\ EventsOf(Y, A, f) = EventsOf(X, A, f)
            BY <4>1, <5>2, <1>6
          <6>2. T.slot[f] \in 1 .. n /\ T.slot[f] # T.slot[fd]
            BY <5>2, <6>1, <3>3, <1>4, <1>1
          <6>3. U.events[T.slot[f]] = T.events[T.slot[f]]
            BY <6>2, <3>1, <3>3, <5>0
          <6> QED BY <6>1, <6>3, <3>2, <2>0
        <5> QED BY <5>1, <5>2
      <4> QED BY <4>1 DEF EventsOK
    <3> QED BY <3>4, <3>5
  <2> QED BY <2>1, <2>2
<1> QED BY <1>8, <1>9, <1>10, <1>11 DEF TablesOK, U, Y

(* What leaves a packed list is replaced by the last.                      *)
LEMMA PackedIs ==
  ASSUME NEW S, NEW s \in Seq(S), NEW i \in 1 .. Len(s), NEW n \in Nat, n = Len(s)
  PROVE  /\ Packed(s, i) \in Seq(S) /\ Len(Packed(s, i)) = n - 1 /\ n >= 1 /\ n \in 1 .. n /\ n - 1 \in Nat
         /\ \A j \in 1 .. n - 1 : Packed(s, i)[j] = IF j = i THEN s[n] ELSE s[j]
<1>1. n >= 1 /\ n \in 1 .. n /\ n - 1 \in Nat /\ i \in 1 .. n /\ \A j \in 1 .. n - 1 : j \in 1 .. n
  OBVIOUS
<1>2. Front(s) \in Seq(S) /\ Len(Front(s)) = n - 1 /\ \A j \in 1 .. n - 1 : Front(s)[j] = s[j]
  BY <1>1 DEF Front
<1>3. Last(s) = s[n] /\ s[n] \in S
  BY <1>1 DEF Last
<1>4. CASE i = n
  <2>1. Packed(s, i) = Front(s)
    BY <1>4 DEF Packed
  <2>2. \A j \in 1 .. n - 1 : j # i
    BY <1>4
  <2> QED BY <1>1, <1>2, <2>1, <2>2
<1>5. CASE i # n
  <2> DEFINE f == Front(s)
             g == [f EXCEPT ![i] = s[n]]
  <2>1. Packed(s, i) = g
    BY <1>3, <1>5 DEF Packed
  <2>2. i \in 1 .. n - 1
    BY <1>1, <1>5
  <2> HIDE DEF f
  <2>3. f \in Seq(S) /\ Len(f) = n - 1 /\ \A j \in 1 .. n - 1 : f[j] = s[j]
    BY <1>2 DEF f
  <2>4. g \in Seq(S) /\ Len(g) = n - 1 /\ \A j \in 1 .. n - 1 : g[j] = IF j = i THEN s[n] ELSE s[j]
    BY <2>2, <2>3, <1>1, <1>3
  <2> QED BY <1>1, <2>1, <2>4
<1> QED BY <1>4, <1>5

(* leave's tables, field by field: of a descriptor's last watch, and of    *)
(* any other.                                                              *)
LeavesOne(T, U, x, fd) ==
  /\ U \in TableSet
  /\ U.watches = [T.watches EXCEPT ![fd] = Packed(T.watches[fd], T.index[x])]
  /\ U.index = [[T.index EXCEPT ![Last(T.watches[fd])] = T.index[x]] EXCEPT ![x] = 0]

LeavesLast(T, U, fd) ==
  /\ U.fds = Packed(T.fds, T.slot[fd]) /\ U.events = Packed(T.events, T.slot[fd])
  /\ U.slot = [[T.slot EXCEPT ![Last(T.fds)] = T.slot[fd]] EXCEPT ![fd] = 0]
  /\ U.masks = [T.masks EXCEPT ![fd] = [mask \in Mask |-> 0]]

LeavesOthers(T, U, fd, m) ==
  /\ U.fds = T.fds /\ U.slot = T.slot
  /\ U.masks = [T.masks EXCEPT ![fd] = [T.masks[fd] EXCEPT ![m] = T.masks[fd][m] - 1]]
  /\ U.events = IF U.masks[fd][m] > 0 THEN T.events
                ELSE [T.events EXCEPT ![T.slot[fd]] = UNION {k \in Mask : U.masks[fd][k] > 0}]

LEMMA LeaveFields ==
  ASSUME NEW T \in TableSet, NEW x \in Watch, NEW ask \in Ask, Len(T.events) = Len(T.fds),
         T.slot[ask.fd] \in 1 .. Len(T.fds), T.index[x] \in 1 .. Len(T.watches[ask.fd]), T.masks[ask.fd][ask.mask] >= 1
  PROVE  /\ LeavesOne(T, leave(T, x, ask), x, ask.fd)
         /\ IF Len(T.watches[ask.fd]) = 1 THEN LeavesLast(T, leave(T, x, ask), ask.fd)
            ELSE LeavesOthers(T, leave(T, x, ask), ask.fd, ask.mask)
<1> DEFINE U == leave(T, x, ask)
           fd == ask.fd
           q == T.watches[fd]
           k == T.index[x]
           V == [T EXCEPT !.watches[fd] = Packed(@, k),
                          !.index = [[@ EXCEPT ![Last(q)] = k] EXCEPT ![x] = 0]]
<1>1. /\ T.fds \in Seq(Fd) /\ T.events \in Seq(SUBSET Event) /\ T.slot \in [Fd -> Nat]
      /\ T.watches \in [Fd -> Seq(Watch)] /\ T.masks \in [Fd -> [Mask -> Nat]]
      /\ T.index \in [Watch -> Nat]
  BY TableIs
<1>2. fd \in Fd /\ ask.mask \in Mask /\ q \in Seq(Watch)
  BY <1>1, AskIs
<1>3. U = IF Len(q) = 1 THEN Unwatched(V, fd) ELSE Unasks(V, ask)
  BY DEF leave
<1>4. /\ V.watches = [T.watches EXCEPT ![fd] = Packed(q, k)]
      /\ V.index = [[T.index EXCEPT ![Last(q)] = k] EXCEPT ![x] = 0]
      /\ V.fds = T.fds /\ V.events = T.events /\ V.slot = T.slot /\ V.masks = T.masks
  BY DEF TableSet
<1>5. V.watches \in [Fd -> Seq(Watch)] /\ V.index \in [Watch -> Nat]
  <2>0. PICK c \in Nat : c = Len(q)
    BY <1>2
  <2>1. Packed(q, k) \in Seq(Watch)
    BY <1>2, <2>0, PackedIs
  <2>2. Last(q) \in Watch
    <3>1. c \in 1 .. c
      BY <2>0
    <3> QED BY <3>1, <2>0, <1>2 DEF Last
  <2> HIDE DEF V, q, k, fd
  <2>3. V.watches \in [Fd -> Seq(Watch)]
    BY <1>1, <1>4, <2>1
  <2>4. k \in Nat
    BY <1>1 DEF k
  <2>5. V.index \in [Watch -> Nat]
    <3> DEFINE I == [T.index EXCEPT ![Last(q)] = k]
    <3>1. I \in [Watch -> Nat]
      BY <1>1, <2>4
    <3>2. V.index = [I EXCEPT ![x] = 0]
      BY <1>4
    <3> HIDE DEF I
    <3> QED BY <3>1, <3>2
  <2> QED BY <2>3, <2>5
<1>6. V \in TableSet
  <2> DEFINE W == [T.watches EXCEPT ![fd] = Packed(q, k)]
             I == [[T.index EXCEPT ![Last(q)] = k] EXCEPT ![x] = 0]
  <2>1. V = [T EXCEPT !.watches = W, !.index = I]
    OBVIOUS
  <2>2. W \in [Fd -> Seq(Watch)] /\ I \in [Watch -> Nat]
    BY <1>4, <1>5
  <2> HIDE DEF V, W, I
  <2> QED BY <2>1, <2>2 DEF TableSet
<1> HIDE DEF V
<1>7. CASE Len(q) = 1
  <2>1. U = Unwatched(V, fd)
    BY <1>3, <1>7
  <2>2. /\ U.fds = Packed(T.fds, T.slot[fd]) /\ U.events = Packed(T.events, T.slot[fd])
        /\ U.slot = [[T.slot EXCEPT ![Last(T.fds)] = T.slot[fd]] EXCEPT ![fd] = 0]
        /\ U.masks = [T.masks EXCEPT ![fd] = [mask \in Mask |-> 0]]
        /\ U.watches = V.watches /\ U.index = V.index
        /\ U = [fds |-> U.fds, events |-> U.events, slot |-> U.slot, watches |-> U.watches,
                masks |-> U.masks, index |-> U.index]
    BY <2>1, <1>4, <1>6, ZenonT(30) DEF Unwatched, TableSet
  <2> HIDE DEF U
  <2>3. U.fds \in Seq(Fd) /\ U.events \in Seq(SUBSET Event)
    <3>1. PICK n \in Nat : n = Len(T.fds)
      BY <1>1
    <3>2. Packed(T.fds, T.slot[fd]) \in Seq(Fd)
      BY <1>1, <3>1, PackedIs
    <3>3. Packed(T.events, T.slot[fd]) \in Seq(SUBSET Event)
      BY <1>1, <3>1, PackedIs
    <3> QED BY <2>2, <3>2, <3>3
  <2>4. U.slot \in [Fd -> Nat] /\ U.masks \in [Fd -> [Mask -> Nat]]
    <3> DEFINE L == [T.slot EXCEPT ![Last(T.fds)] = T.slot[fd]]
    <3>0. L \in [Fd -> Nat] /\ U.slot = [L EXCEPT ![fd] = 0]
      BY <1>1, <1>2, <2>2
    <3> HIDE DEF L
    <3>a. [L EXCEPT ![fd] = 0] \in [Fd -> Nat]
      BY <3>0, <1>2
    <3>1. U.slot \in [Fd -> Nat]
      BY <3>0, <3>a
    <3>2. [mask \in Mask |-> 0] \in [Mask -> Nat]
      OBVIOUS
    <3>3. U.masks \in [Fd -> [Mask -> Nat]]
      BY <1>1, <1>2, <2>2, <3>2
    <3> QED BY <3>1, <3>3
  <2>5. U \in TableSet
    BY <1>5, <2>2, <2>3, <2>4 DEF TableSet
  <2>6. LeavesOne(T, U, x, fd)
    BY <1>4, <2>2, <2>5 DEF LeavesOne
  <2>7. LeavesLast(T, U, fd)
    BY <2>2 DEF LeavesLast
  <2> QED BY <1>7, <2>6, <2>7 DEF U
<1>8. CASE Len(q) # 1
  <2>1. U = Unasks(V, ask)
    BY <1>3, <1>8
  <2> DEFINE m == ask.mask
             left == [T.masks EXCEPT ![fd] = [T.masks[fd] EXCEPT ![m] = T.masks[fd][m] - 1]]
  <2>2. /\ U.fds = T.fds /\ U.slot = T.slot /\ U.masks = left
        /\ U.events = IF left[fd][m] > 0 THEN T.events
                      ELSE [T.events EXCEPT ![T.slot[fd]] = UNION {j \in Mask : left[fd][j] > 0}]
        /\ U.watches = V.watches /\ U.index = V.index
        /\ U = [fds |-> U.fds, events |-> U.events, slot |-> U.slot, watches |-> U.watches,
                masks |-> U.masks, index |-> U.index]
    <3>1. left = [V.masks EXCEPT ![ask.fd][ask.mask] = @ - 1]
      BY <1>4
    <3> DEFINE e == IF left[fd][m] > 0 THEN T.events
                    ELSE [T.events EXCEPT ![T.slot[fd]] = UNION {j \in Mask : left[fd][j] > 0}]
    <3>2. U = [V EXCEPT !.masks = left, !.events = e]
      BY <2>1, <3>1, <1>4 DEF Unasks
    <3> HIDE DEF U, left, e
    <3>3. U.masks = left /\ U.events = e /\ U.fds = V.fds /\ U.slot = V.slot /\ U.watches = V.watches /\ U.index = V.index
      BY <3>2, <1>6 DEF TableSet
    <3>4. U = [fds |-> U.fds, events |-> U.events, slot |-> U.slot, watches |-> U.watches,
               masks |-> U.masks, index |-> U.index]
      BY <3>2, <1>6 DEF TableSet
    <3> QED BY <3>3, <3>4, <1>4 DEF e
  <2>3. left \in [Fd -> [Mask -> Nat]]
    <3>0. T.masks[fd] \in [Mask -> Nat]
      BY <1>1, <1>2
    <3>1. T.masks[fd][m] - 1 \in Nat
      BY <3>0, <1>2
    <3>2. [T.masks[fd] EXCEPT ![m] = T.masks[fd][m] - 1] \in [Mask -> Nat]
      BY <3>0, <3>1, <1>2
    <3> QED BY <1>1, <3>2
  <2> HIDE DEF U, left
  <2>4. U.events \in Seq(SUBSET Event)
    <3>1. UNION {j \in Mask : left[fd][j] > 0} \in SUBSET Event
      BY DEF Mask
    <3> DEFINE e == UNION {j \in Mask : left[fd][j] > 0}
    <3>2. e \in SUBSET Event /\ U.events = IF left[fd][m] > 0 THEN T.events ELSE [T.events EXCEPT ![T.slot[fd]] = e]
      BY <3>1, <2>2
    <3> HIDE DEF e
    <3>3. [T.events EXCEPT ![T.slot[fd]] = e] \in Seq(SUBSET Event)
      BY <3>2, <1>1
    <3> QED BY <3>2, <3>3, <1>1
  <2>5. U \in TableSet
    BY <1>1, <1>5, <2>2, <2>3, <2>4 DEF TableSet
  <2>6. LeavesOne(T, U, x, fd)
    BY <1>4, <2>2, <2>5 DEF LeavesOne
  <2>7. LeavesOthers(T, U, fd, m)
    BY <2>2 DEF LeavesOthers, left
  <2> QED BY <1>8, <2>6, <2>7 DEF U
<1> QED BY <1>7, <1>8

LEMMA LeaveKeeps ==
  ASSUME NEW T, NEW X, NEW A, TablesOK(T, X, A), NEW x \in X
  PROVE  TablesOK(leave(T, x, A[x]), X \ {x}, A)
<1> DEFINE U == leave(T, x, A[x])
           Y == X \ {x}
<1>0. PICK fd, m : fd = A[x].fd /\ m = A[x].mask
  OBVIOUS
<1>1. /\ T \in TableSet /\ X \subseteq Watch /\ IsFiniteSet(X) /\ \A y \in X : A[y] \in Ask
      /\ fd \in Fd /\ m \in Mask /\ x \in Watch
  BY <1>0, AskIs DEF TablesOK, Shaped
<1>2. /\ T.fds \in Seq(Fd) /\ T.events \in Seq(SUBSET Event) /\ T.slot \in [Fd -> Nat]
      /\ T.watches \in [Fd -> Seq(Watch)] /\ T.masks \in [Fd -> [Mask -> Nat]]
      /\ T.index \in [Watch -> Nat]
  BY <1>1, TableIs
<1>a. T.fds \in Seq(Fd)
  BY <1>2
<1>3. PICK n \in Nat : n = Len(T.fds)
  BY <1>a
<1>b. \A i \in 1 .. n : T.fds[i] \in Fd
  BY <1>a, <1>3
<1>4. /\ Len(T.events) = n
      /\ \A s \in 1 .. n : T.slot[T.fds[s]] = s
      /\ \A f \in Fd : IF Ons(X, A, f) # {} THEN T.slot[f] \in 1 .. n /\ T.fds[T.slot[f]] = f ELSE T.slot[f] = 0
  BY <1>3 DEF TablesOK, SlotsOK
<1>5. /\ \A y \in X : /\ T.index[y] \in 1 .. Len(T.watches[A[y].fd]) /\ A[y].fd \in Fd
                      /\ T.watches[A[y].fd][T.index[y]] = y
      /\ \A f \in Fd : \A i \in 1 .. Len(T.watches[f]) :
           T.watches[f][i] \in Ons(X, A, f) /\ T.index[T.watches[f][i]] = i
  BY <1>1, AskIs DEF TablesOK, WatchesOK
<1>6. \A f \in Fd, j \in Mask : T.masks[f][j] = Cardinality(Asking(X, A, f, j))
  BY DEF TablesOK, MasksOK
<1>7. \A f \in Fd : Ons(X, A, f) # {} => T.events[T.slot[f]] = EventsOf(X, A, f)
  BY DEF TablesOK, EventsOK
<1>8. Grown(Y, X, A, x, fd, m)
  <2>1. X = Y \cup {x} /\ x \notin Y
    OBVIOUS
  <2> HIDE DEF Y
  <2> QED BY <1>0, <2>1, OnsGrow
<1>9. /\ \A f \in Fd : f # fd => Ons(X, A, f) = Ons(Y, A, f) /\ EventsOf(X, A, f) = EventsOf(Y, A, f)
      /\ Ons(X, A, fd) = Ons(Y, A, fd) \cup {x} /\ EventsOf(X, A, fd) = EventsOf(Y, A, fd) \cup m
      /\ x \notin Ons(Y, A, fd)
  <2> HIDE DEF Y
  <2> QED BY <1>8 DEF Grown
<1>10. /\ \A f \in Fd, j \in Mask : ~(f = fd /\ j = m) => Asking(X, A, f, j) = Asking(Y, A, f, j)
       /\ Asking(X, A, fd, m) = Asking(Y, A, fd, m) \cup {x} /\ x \notin Asking(Y, A, fd, m)
  <2> HIDE DEF Y
  <2> QED BY <1>8 DEF Grown
<1>11. \A f, j : IsFiniteSet(Asking(Y, A, f, j))
  <2>1. \A f, j : Asking(Y, A, f, j) \subseteq X
    BY DEF Asking
  <2> HIDE DEF Y
  <2> QED BY <1>1, <2>1, FS_Subset
<1>12. T.masks[fd][m] = Cardinality(Asking(Y, A, fd, m)) + 1 /\ Cardinality(Asking(Y, A, fd, m)) \in Nat
  <2> HIDE DEF Y
  <2>1. IsFiniteSet(Asking(Y, A, fd, m))
    BY <1>11
  <2> QED BY <2>1, <1>1, <1>6, <1>10, FS_AddElement, FS_CardinalityType
<1>13. IsFiniteSet(Y) /\ Y \subseteq X /\ x \notin Y /\ \A y \in X : y = x \/ y \in Y
  BY <1>1, FS_RemoveElement
<1> HIDE DEF Y
<1>14. PICK s \in 1 .. n : s = T.slot[fd] /\ T.fds[s] = fd /\ Ons(X, A, fd) # {}
  BY <1>1, <1>4, <1>9
<1>15. PICK q \in Seq(Watch) : q = T.watches[fd]
  BY <1>1, <1>2
<1>16. PICK c \in Nat : c = Len(q)
  BY <1>15
<1>17. PICK k \in 1 .. c : k = T.index[x] /\ q[k] = x
  BY <1>0, <1>5, <1>15, <1>16
<1>18. LeavesOne(T, U, x, fd) /\ IF c = 1 THEN LeavesLast(T, U, fd) ELSE LeavesOthers(T, U, fd, m)
  <2>1. A[x] \in Ask
    BY <1>1
  <2>2. T.masks[fd][m] >= 1
    BY <1>12
  <2> QED BY <1>0, <1>1, <1>3, <1>4, <1>14, <1>15, <1>16, <1>17, <2>1, <2>2, LeaveFields
<1> HIDE DEF U
<1>19. Shaped(U, Y, A)
  BY <1>1, <1>13, <1>18 DEF LeavesOne, Shaped
<1>20. WatchesOK(U, Y, A)
  <2> DEFINE l == q[c]
             p == U.watches[fd]
  <2>1. c \in 1 .. c /\ c - 1 \in Nat /\ \A i \in 1 .. c - 1 : i \in 1 .. c /\ i # c
    BY <1>17
  <2>2. Last(q) = l
    BY <1>16 DEF Last
  <2>3. \A i \in 1 .. c : q[i] \in Ons(X, A, fd) /\ T.index[q[i]] = i
    BY <1>1, <1>5, <1>15, <1>16
  <2>4. l \in Ons(X, A, fd) /\ T.index[l] = c
    BY <2>1, <2>3
  <2>5. Len(p) = c - 1 /\ \A j \in 1 .. c - 1 : p[j] = IF j = k THEN l ELSE q[j]
    <3>1. p = Packed(q, k)
      BY <1>1, <1>2, <1>15, <1>17, <1>18 DEF LeavesOne
    <3>2. k \in 1 .. Len(q) /\ q \in Seq(Watch)
      BY <1>15, <1>16, <1>17
    <3>3. Len(Packed(q, k)) = c - 1
      BY <3>2, <1>16, PackedIs
    <3>4. ASSUME NEW j \in 1 .. c - 1 PROVE Packed(q, k)[j] = IF j = k THEN q[c] ELSE q[j]
      BY <3>2, <1>16, PackedIs
    <3> HIDE DEF p
    <3> QED BY <3>1, <3>3, <3>4
  <2>6. \A f \in Fd : f # fd => U.watches[f] = T.watches[f]
    BY <1>1, <1>2, <1>18 DEF LeavesOne
  <2>7. \A y \in Y : U.index[y] = IF y = l THEN k ELSE T.index[y]
    <3>1. U.index = [[T.index EXCEPT ![l] = k] EXCEPT ![x] = 0]
      BY <1>15, <1>17, <1>18, <2>2 DEF LeavesOne
    <3>2. \A y \in Y : y # x /\ y \in Watch
      BY <1>1, <1>13
    <3> HIDE DEF l
    <3> QED BY <3>1, <3>2, <1>2
  <2>8. \A f \in Fd : \A y \in Ons(X, A, f) : y \in X /\ A[y].fd = f
    BY DEF Ons
  <2>a. \A f \in Fd : \A y \in Y : A[y].fd = f => y \in Ons(Y, A, f)
    BY DEF Ons
  <2> HIDE DEF l, p
  <2>9. ASSUME NEW y \in Y
        PROVE  U.index[y] \in 1 .. Len(U.watches[A[y].fd]) /\ U.watches[A[y].fd][U.index[y]] = y
    <3>0. y \in X /\ y # x
      BY <1>13
    <3>1. CASE A[y].fd = fd
      <4>1. T.index[y] \in 1 .. c /\ q[T.index[y]] = y /\ T.index[y] # k
        BY <3>0, <3>1, <1>5, <1>15, <1>16, <1>17
      <4>2. CASE y = l
        <5>1. k \in 1 .. c - 1
          BY <4>1, <4>2, <2>4, <1>17
        <5> QED BY <3>1, <4>2, <5>1, <2>5, <2>7 DEF p
      <4>3. CASE y # l
        <5>1. T.index[y] \in 1 .. c - 1
          BY <4>1, <4>3, <2>1 DEF l
        <5> QED BY <3>1, <4>1, <4>3, <5>1, <2>5, <2>7 DEF p
      <4> QED BY <4>2, <4>3
    <3>2. CASE A[y].fd # fd
      <4>1. y # l
        BY <3>2, <2>4, <2>8, <1>1
      <4> QED BY <3>0, <3>2, <4>1, <1>5, <2>6, <2>7
    <3> QED BY <3>1, <3>2
  <2>10. ASSUME NEW f \in Fd, NEW i \in 1 .. Len(U.watches[f])
         PROVE  U.watches[f][i] \in Ons(Y, A, f) /\ U.index[U.watches[f][i]] = i
    <3>1. CASE f # fd
      <4> DEFINE y == T.watches[f][i]
      <4>1. U.watches[f] = T.watches[f] /\ y \in Ons(X, A, f) /\ T.index[y] = i /\ Ons(Y, A, f) = Ons(X, A, f)
        BY <3>1, <2>6, <1>5, <1>9
      <4>2. A[y].fd = f /\ y # l /\ y \in Y
        <5>1. y \in X /\ A[y].fd = f
          BY <4>1, <2>8
        <5>2. y # l /\ y # x
          BY <5>1, <3>1, <2>4, <2>8, <1>0, <1>1
        <5> QED BY <5>1, <5>2, <1>13
      <4> QED BY <4>1, <4>2, <2>7
    <3>2. CASE f = fd
      <4>1. i \in 1 .. c - 1 /\ p[i] = IF i = k THEN l ELSE q[i]
        BY <3>2, <2>5 DEF p
      <4>2. CASE i = k
        <5>1. l # x
          BY <4>1, <4>2, <2>1, <2>4, <1>17
        <5>2. l \in Y /\ A[l].fd = fd
          BY <5>1, <2>4, <2>8, <1>1, <1>13
        <5> QED BY <3>2, <4>1, <4>2, <5>2, <2>7, <2>a DEF p
      <4>3. CASE i # k
        <5>1. i \in 1 .. c /\ i # c
          BY <4>1, <2>1
        <5>2. q[i] \in Ons(X, A, fd) /\ T.index[q[i]] = i
          BY <5>1, <2>3
        <5>3. q[i] # x /\ q[i] # l
          BY <5>1, <5>2, <4>3, <2>4, <1>17
        <5>4. q[i] \in Y /\ A[q[i]].fd = fd
          BY <5>2, <5>3, <2>8, <1>1, <1>13
        <5> QED BY <3>2, <4>1, <4>3, <5>2, <5>3, <5>4, <2>7, <2>a DEF p
      <4> QED BY <4>2, <4>3
    <3> QED BY <3>1, <3>2
  <2> QED BY <2>9, <2>10 DEF WatchesOK
<1>21. CASE c = 1
  <2>1. Ons(Y, A, fd) = {}
    <3> SUFFICES ASSUME NEW y \in Ons(Y, A, fd) PROVE FALSE
      OBVIOUS
    <3>1. y \in Y /\ A[y].fd = fd /\ y \in X
      BY <1>13 DEF Ons
    <3>2. T.index[y] \in 1 .. c /\ q[T.index[y]] = y
      BY <3>1, <1>5, <1>15, <1>16
    <3>3. T.index[y] = k
      BY <3>2, <1>17, <1>21
    <3> QED BY <3>1, <3>2, <3>3, <1>13, <1>17
  <2>2. LeavesLast(T, U, fd)
    BY <1>18, <1>21
  <2>3. MasksOK(U, Y, A)
    <3> SUFFICES ASSUME NEW f \in Fd, NEW j \in Mask
                 PROVE  U.masks[f][j] = Cardinality(Asking(Y, A, f, j))
      BY DEF MasksOK
    <3>1. CASE f = fd
      <4>1. Asking(Y, A, fd, j) = {}
        BY <2>1 DEF Asking, Ons
      <4>2. U.masks[fd][j] = 0
        BY <2>2, <1>1, <1>2 DEF LeavesLast
      <4> QED BY <3>1, <4>1, <4>2, FS_EmptySet
    <3>2. CASE f # fd
      <4>1. U.masks[f][j] = T.masks[f][j]
        BY <3>2, <2>2, <1>1, <1>2 DEF LeavesLast
      <4> QED BY <3>2, <4>1, <1>6, <1>10
    <3> QED BY <3>1, <3>2
  <2> DEFINE z == T.fds[n]
  <2>4. n \in 1 .. n /\ n - 1 \in Nat /\ \A i \in 1 .. n - 1 : i \in 1 .. n /\ i # n /\ i # 0
    BY <1>14
  <2>5. z \in Fd /\ T.slot[z] = n /\ Last(T.fds) = z
    BY <2>4, <1>b, <1>3, <1>4 DEF Last
  <2>6. Len(U.fds) = n - 1 /\ \A j \in 1 .. n - 1 : U.fds[j] = IF j = s THEN z ELSE T.fds[j]
    <3>1. U.fds = Packed(T.fds, s)
      BY <2>2, <1>14 DEF LeavesLast
    <3>2. s \in 1 .. Len(T.fds)
      BY <1>3, <1>14
    <3> QED BY <3>1, <3>2, <1>a, <1>3, PackedIs DEF z
  <2>7. Len(U.events) = n - 1 /\ \A j \in 1 .. n - 1 : U.events[j] = IF j = s THEN T.events[n] ELSE T.events[j]
    <3>1. U.events = Packed(T.events, s)
      BY <2>2, <1>14 DEF LeavesLast
    <3>2. s \in 1 .. Len(T.events) /\ T.events \in Seq(SUBSET Event) /\ n = Len(T.events)
      BY <1>2, <1>4, <1>14
    <3> QED BY <3>1, <3>2, PackedIs
  <2> HIDE DEF z
  <2>8. \A f \in Fd : U.slot[f] = IF f = fd THEN 0 ELSE IF f = z THEN s ELSE T.slot[f]
    <3>1. U.slot = [[T.slot EXCEPT ![z] = s] EXCEPT ![fd] = 0]
      BY <2>2, <2>5, <1>14 DEF LeavesLast
    <3> QED BY <3>1, <1>1, <1>2
  <2>9. ASSUME NEW f \in Fd, f # fd, Ons(X, A, f) # {}
        PROVE  /\ U.slot[f] \in 1 .. n - 1 /\ U.fds[U.slot[f]] = f
               /\ U.events[U.slot[f]] = T.events[T.slot[f]]
    <3>1. T.slot[f] \in 1 .. n /\ T.fds[T.slot[f]] = f /\ T.slot[f] # s
      BY <2>9, <1>4, <1>14
    <3>2. CASE f = z
      <4>1. s \in 1 .. n - 1 /\ T.slot[f] = n
        BY <3>1, <3>2, <2>5, <1>14
      <4> QED BY <2>9, <3>2, <4>1, <2>6, <2>7, <2>8
    <3>3. CASE f # z
      <4>1. T.slot[f] \in 1 .. n - 1
        BY <3>1, <3>3 DEF z
      <4> QED BY <2>9, <3>1, <3>3, <4>1, <2>6, <2>7, <2>8
    <3> QED BY <3>2, <3>3
  <2>10. SlotsOK(U, Y, A)
    <3>1. ASSUME NEW j \in 1 .. n - 1 PROVE U.slot[U.fds[j]] = j
      <4>1. CASE j = s
        <5>1. z # fd
          BY <4>1, <2>4, <2>5, <1>14
        <5> QED BY <4>1, <5>1, <2>5, <2>6, <2>8
      <4>2. CASE j # s
        <5>1. T.fds[j] \in Fd /\ T.slot[T.fds[j]] = j
          BY <2>4, <1>b, <1>4
        <5>2. T.fds[j] # z /\ T.fds[j] # fd
          BY <4>2, <5>1, <2>4, <2>5, <1>14
        <5> QED BY <4>2, <5>1, <5>2, <2>6, <2>8
      <4> QED BY <4>1, <4>2
    <3>2. ASSUME NEW f \in Fd
          PROVE  IF Ons(Y, A, f) # {} THEN U.slot[f] \in 1 .. n - 1 /\ U.fds[U.slot[f]] = f ELSE U.slot[f] = 0
      <4>1. CASE f = fd
        BY <4>1, <2>1, <2>8
      <4>2. CASE f # fd /\ Ons(Y, A, f) # {}
        BY <4>2, <2>9, <1>9
      <4>3. CASE f # fd /\ Ons(Y, A, f) = {}
        <5>1. Ons(X, A, f) = {} /\ T.slot[f] = 0
          BY <4>3, <1>4, <1>9
        <5>2. f # z
          BY <5>1, <2>4, <2>5
        <5> QED BY <4>3, <5>1, <5>2, <2>8
      <4> QED BY <4>1, <4>2, <4>3
    <3> QED BY <2>6, <2>7, <3>1, <3>2 DEF SlotsOK
  <2>11. EventsOK(U, Y, A)
    <3> SUFFICES ASSUME NEW f \in Fd, Ons(Y, A, f) # {} PROVE U.events[U.slot[f]] = EventsOf(Y, A, f)
      BY DEF EventsOK
    <3>1. f # fd
      BY <2>1
    <3>2. Ons(X, A, f) # {} /\ EventsOf(X, A, f) = EventsOf(Y, A, f)
      BY <3>1, <1>9
    <3> QED BY <3>1, <3>2, <2>9, <1>7
  <2> QED BY <1>19, <1>20, <2>3, <2>10, <2>11 DEF TablesOK, U, Y
<1>22. CASE c # 1
  <2>1. Ons(Y, A, fd) # {}
    <3>1. 1 \in 1 .. c /\ 2 \in 1 .. c
      BY <1>17, <1>22
    <3>2. /\ q[1] \in Ons(X, A, fd) /\ T.index[q[1]] = 1
          /\ q[2] \in Ons(X, A, fd) /\ T.index[q[2]] = 2
      BY <3>1, <1>1, <1>5, <1>15, <1>16
    <3>3. q[1] # q[2]
      BY <3>2
    <3> QED BY <3>2, <3>3, <1>9
  <2>2. LeavesOthers(T, U, fd, m)
    BY <1>18, <1>22
  <2>3. /\ U.fds = T.fds /\ U.slot = T.slot
        /\ \A f \in Fd, j \in Mask : U.masks[f][j] = IF f = fd /\ j = m THEN T.masks[f][j] - 1 ELSE T.masks[f][j]
        /\ U.events = IF U.masks[fd][m] > 0 THEN T.events
                      ELSE [T.events EXCEPT ![s] = UNION {j \in Mask : U.masks[fd][j] > 0}]
    <3> DEFINE r == [T.masks[fd] EXCEPT ![m] = T.masks[fd][m] - 1]
    <3>1. /\ U.fds = T.fds /\ U.slot = T.slot /\ U.masks = [T.masks EXCEPT ![fd] = r]
          /\ U.events = IF U.masks[fd][m] > 0 THEN T.events
                        ELSE [T.events EXCEPT ![s] = UNION {j \in Mask : U.masks[fd][j] > 0}]
      BY <2>2, <1>14 DEF LeavesOthers
    <3>2. \A j \in Mask : r[j] = IF j = m THEN T.masks[fd][j] - 1 ELSE T.masks[fd][j]
      BY <1>1, <1>2
    <3> HIDE DEF r
    <3>3. U.masks[fd] = r /\ \A f \in Fd : f # fd => U.masks[f] = T.masks[f]
      BY <3>1, <1>1, <1>2
    <3> QED BY <3>1, <3>2, <3>3
  <2>4. \A f \in Fd, j \in Mask : U.masks[f][j] = Cardinality(Asking(Y, A, f, j))
    <3> SUFFICES ASSUME NEW f \in Fd, NEW j \in Mask
                 PROVE  U.masks[f][j] = Cardinality(Asking(Y, A, f, j))
      OBVIOUS
    <3>1. CASE f = fd /\ j = m
      BY <3>1, <2>3, <1>12
    <3>2. CASE ~(f = fd /\ j = m)
      BY <3>2, <2>3, <1>6, <1>10
    <3> QED BY <3>1, <3>2
  <2>5. SlotsOK(U, Y, A)
    <3>1. \A f \in Fd : Ons(Y, A, f) # {} <=> Ons(X, A, f) # {}
      BY <2>1, <1>9
    <3>2. Len(U.events) = n
      BY <2>3, <1>2, <1>4
    <3> QED BY <3>1, <3>2, <2>3, <1>3, <1>4 DEF SlotsOK
  <2>6. U.events[s] = EventsOf(Y, A, fd)
    <3>1. \A j \in Mask : U.masks[fd][j] > 0 <=> Asking(Y, A, fd, j) # {}
      <4> SUFFICES ASSUME NEW j \in Mask PROVE U.masks[fd][j] > 0 <=> Asking(Y, A, fd, j) # {}
        OBVIOUS
      <4>1. U.masks[fd][j] = Cardinality(Asking(Y, A, fd, j)) /\ IsFiniteSet(Asking(Y, A, fd, j))
        BY <2>4, <1>1, <1>11
      <4>2. Cardinality(Asking(Y, A, fd, j)) \in Nat /\ (Cardinality(Asking(Y, A, fd, j)) = 0 <=> Asking(Y, A, fd, j) = {})
        BY <4>1, FS_CardinalityType, FS_EmptySet
      <4> QED BY <4>1, <4>2
    <3>2. CASE U.masks[fd][m] > 0
      <4>1. PICK y \in Y : A[y].fd = fd /\ A[y].mask = m
        BY <3>1, <3>2, <1>1 DEF Asking
      <4>2. m \subseteq EventsOf(Y, A, fd)
        BY <4>1 DEF EventsOf, Ons
      <4>3. EventsOf(X, A, fd) = EventsOf(Y, A, fd)
        BY <4>2, <1>9
      <4> QED BY <3>2, <4>3, <2>3, <1>1, <1>7, <1>14
    <3>3. CASE ~(U.masks[fd][m] > 0)
      <4>1. U.events[s] = UNION {j \in Mask : U.masks[fd][j] > 0}
        <5> DEFINE e == UNION {j \in Mask : U.masks[fd][j] > 0}
        <5>1. U.events = [T.events EXCEPT ![s] = e]
          BY <3>3, <2>3
        <5>2. s \in DOMAIN T.events
          BY <1>2, <1>4, <1>14
        <5> HIDE DEF e
        <5>3. U.events[s] = e
          BY <5>1, <5>2
        <5> QED BY <5>3 DEF e
      <4>2. \A y \in Ons(Y, A, fd) : A[y].mask \in Mask /\ y \in Asking(Y, A, fd, A[y].mask)
        BY <1>1, <1>13, AskIs DEF Ons, Asking
      <4>3. \A j \in Mask : \A y \in Asking(Y, A, fd, j) : y \in Ons(Y, A, fd) /\ A[y].mask = j
        BY DEF Ons, Asking
      <4>4. {j \in Mask : U.masks[fd][j] > 0} = {A[y].mask : y \in Ons(Y, A, fd)}
        <5>1. ASSUME NEW j \in Mask, U.masks[fd][j] > 0 PROVE j \in {A[y].mask : y \in Ons(Y, A, fd)}
          BY <5>1, <3>1, <4>3
        <5>2. ASSUME NEW y \in Ons(Y, A, fd) PROVE A[y].mask \in Mask /\ U.masks[fd][A[y].mask] > 0
          BY <3>1, <4>2
        <5> QED BY <5>1, <5>2
      <4> QED BY <4>1, <4>4 DEF EventsOf
    <3> QED BY <3>2, <3>3
  <2>7. EventsOK(U, Y, A)
    <3> SUFFICES ASSUME NEW f \in Fd, Ons(Y, A, f) # {} PROVE U.events[U.slot[f]] = EventsOf(Y, A, f)
      BY DEF EventsOK
    <3>1. CASE f = fd
      BY <3>1, <2>3, <2>6, <1>14
    <3>2. CASE f # fd
      <4>1. Ons(X, A, f) # {} /\ EventsOf(X, A, f) = EventsOf(Y, A, f)
        BY <3>2, <1>9
      <4>2. T.slot[f] \in 1 .. n /\ T.slot[f] # s
        BY <3>2, <4>1, <1>4, <1>14
      <4>3. U.events[T.slot[f]] = T.events[T.slot[f]]
        BY <4>2, <2>3, <1>2, <1>4
      <4> QED BY <4>1, <4>3, <2>3, <1>7
    <3> QED BY <3>1, <3>2
  <2>8. MasksOK(U, Y, A)
    BY <2>4 DEF MasksOK
  <2> QED BY <1>19, <1>20, <2>5, <2>7, <2>8 DEF TablesOK, U, Y
<1> QED BY <1>21, <1>22

(* Only the asks of the watches entered matter.                            *)
LEMMA Agree ==
  ASSUME NEW T, NEW X, NEW A, NEW B, TablesOK(T, X, A), \A x \in X : A[x] = B[x]
  PROVE  TablesOK(T, X, B)
<1>1. Shaped(T, X, B)
  BY DEF TablesOK, Shaped
<1>2. \A fd : Ons(X, A, fd) = Ons(X, B, fd)
  BY DEF Ons
<1>3. \A fd, mask : Asking(X, A, fd, mask) = Asking(X, B, fd, mask)
  BY DEF Asking
<1>4. \A fd : EventsOf(X, A, fd) = EventsOf(X, B, fd)
  <2> SUFFICES ASSUME NEW fd PROVE EventsOf(X, A, fd) = EventsOf(X, B, fd)
    OBVIOUS
  <2>1. {A[x].mask : x \in Ons(X, A, fd)} = {B[x].mask : x \in Ons(X, B, fd)}
    BY DEF Ons
  <2> QED BY <2>1 DEF EventsOf
<1>5. SlotsOK(T, X, B) /\ MasksOK(T, X, B) /\ EventsOK(T, X, B)
  BY <1>2, <1>3, <1>4 DEF TablesOK, SlotsOK, MasksOK, EventsOK
<1>6. WatchesOK(T, X, B)
  BY <1>2 DEF TablesOK, WatchesOK
<1> QED BY <1>1, <1>5, <1>6 DEF TablesOK

(* The watches of the first n places of a wait.                            *)
At(w, i) == [wait |-> w, place |-> i]
PlacesOf(w, n) == {At(w, i) : i \in 1 .. n}

LEMMA OnePlaceMore ==
  ASSUME NEW w, NEW n \in Nat
  PROVE  PlacesOf(w, n + 1) = PlacesOf(w, n) \cup {At(w, n + 1)} /\ At(w, n + 1) \notin PlacesOf(w, n)
<1>1. \A i \in 1 .. n + 1 : i \in 1 .. n \/ i = n + 1
  OBVIOUS
<1>2. \A i \in 1 .. n : i \in 1 .. n + 1 /\ i # n + 1
  OBVIOUS
<1>3. n + 1 \in 1 .. n + 1
  OBVIOUS
<1>4. \A i, j \in 1 .. n + 1 : At(w, i) = At(w, j) => i = j
  BY DEF At
<1> QED BY <1>1, <1>2, <1>3, <1>4 DEF PlacesOf

LEMMA EnteredKeeps ==
  ASSUME NEW T, NEW X, NEW A, TablesOK(T, X, A), NEW w \in Wait, NEW ask, NEW h \in 0 .. MaxFds, h = Len(ask),
         \A i \in 1 .. h : At(w, i) \notin X /\ A[At(w, i)] = ask[i] /\ ask[i] \in Ask
  PROVE  TablesOK(Entered(T, w, ask), X \cup PlacesOf(w, h), A)
<1>0. h \in Nat /\ \A i \in 1 .. h : At(w, i) \in Watch
  BY WatchAssumption DEF At, Watch
<1>1. PICK f : /\ f[0] = T
               /\ \A n \in 1 .. h : f[n] = enter(f[n - 1], At(w, n), ask[n])
               /\ Entered(T, w, ask) = f[h]
  BY <1>0, EnterTurns DEF At
<1> DEFINE S == {n \in Nat : n <= h => TablesOK(f[n], X \cup PlacesOf(w, n), A)}
<1>2. 0 \in S
  <2>1. X \cup PlacesOf(w, 0) = X
    BY DEF PlacesOf
  <2> QED BY <1>1, <2>1
<1>3. ASSUME NEW n \in Nat, n \in S PROVE n + 1 \in S
  <2> SUFFICES ASSUME n + 1 <= h PROVE TablesOK(f[n + 1], X \cup PlacesOf(w, n + 1), A)
    OBVIOUS
  <2>1. n <= h /\ n + 1 \in 1 .. h /\ (n + 1) - 1 = n
    BY <1>0
  <2>2. PICK x : x = At(w, n + 1)
    OBVIOUS
  <2>3. f[n + 1] = enter(f[n], x, A[x]) /\ A[x] \in Ask /\ x \in Watch
    BY <1>0, <1>1, <2>1, <2>2
  <2>4. PICK Y : Y = X \cup PlacesOf(w, n)
    OBVIOUS
  <2>5. x \notin Y /\ X \cup PlacesOf(w, n + 1) = Y \cup {x}
    BY <2>1, <2>2, <2>4, OnePlaceMore
  <2>6. TablesOK(f[n], Y, A)
    BY <1>3, <2>1, <2>4
  <2>7. TablesOK(f[n + 1], Y \cup {x}, A)
    <3>1. PICK g : g = f[n]
      OBVIOUS
    <3>2. TablesOK(enter(g, x, A[x]), Y \cup {x}, A)
      BY <2>3, <2>5, <2>6, <3>1, EnterKeeps
    <3> QED BY <2>3, <3>1, <3>2
  <2> QED BY <2>5, <2>7
<1>4. h \in S
  <2> HIDE DEF S
  <2> QED BY <1>0, <1>2, <1>3, SetInduction
<1>5. h <= h
  BY <1>0
<1> QED BY <1>1, <1>4, <1>5

LEMMA LeftKeeps ==
  ASSUME NEW T, NEW X, NEW A, TablesOK(T, X, A), NEW w, NEW ask, NEW h \in Nat, h = Len(ask),
         \A i \in 1 .. h : At(w, i) \in X /\ A[At(w, i)] = ask[i]
  PROVE  TablesOK(Left(T, w, ask), X \ PlacesOf(w, h), A)
<1>1. PICK f : /\ f[0] = T
               /\ \A n \in 1 .. h : f[n] = leave(f[n - 1], At(w, n), ask[n])
               /\ Left(T, w, ask) = f[h]
  BY LeaveTurns DEF At
<1> DEFINE S == {n \in Nat : n <= h => TablesOK(f[n], X \ PlacesOf(w, n), A)}
<1>2. 0 \in S
  <2>1. X \ PlacesOf(w, 0) = X
    BY DEF PlacesOf
  <2> QED BY <1>1, <2>1
<1>3. ASSUME NEW n \in Nat, n \in S PROVE n + 1 \in S
  <2> SUFFICES ASSUME n + 1 <= h PROVE TablesOK(f[n + 1], X \ PlacesOf(w, n + 1), A)
    OBVIOUS
  <2>1. n <= h /\ n + 1 \in 1 .. h /\ (n + 1) - 1 = n
    OBVIOUS
  <2>2. PICK x : x = At(w, n + 1)
    OBVIOUS
  <2>3. f[n + 1] = leave(f[n], x, A[x])
    BY <1>1, <2>1, <2>2
  <2>4. PICK Y : Y = X \ PlacesOf(w, n)
    OBVIOUS
  <2>5. x \in Y /\ X \ PlacesOf(w, n + 1) = Y \ {x}
    BY <2>1, <2>2, <2>4, OnePlaceMore
  <2>6. TablesOK(f[n], Y, A)
    BY <1>3, <2>1, <2>4
  <2>7. TablesOK(f[n + 1], Y \ {x}, A)
    <3>1. PICK g : g = f[n]
      OBVIOUS
    <3>2. TablesOK(leave(g, x, A[x]), Y \ {x}, A)
      BY <2>3, <2>5, <2>6, <3>1, LeaveKeeps
    <3> QED BY <2>3, <3>1, <3>2
  <2> QED BY <2>5, <2>7
<1>4. h \in S
  <2> HIDE DEF S
  <2> QED BY <1>2, <1>3, SetInduction
<1>5. h <= h
  OBVIOUS
<1> QED BY <1>1, <1>4, <1>5

(* The watches there should be when the waits ask a, and their asks.       *)
Parked(a) == a \in [Wait -> {<<>>} \cup Parks]
AllOf(a)  == {x \in Watch : x.place \in DOMAIN a[x.wait]}
AsksOf(a) == [x \in Watch |-> a[x.wait][x.place]]
Without(X, ws) == {x \in X : x.wait \notin ws}

LEMMA ParkIs ==
  ASSUME NEW ask \in {<<>>} \cup Parks
  PROVE  Len(ask) \in 0 .. MaxFds /\ DOMAIN ask = 1 .. Len(ask) /\ \A i \in 1 .. Len(ask) : ask[i] \in Ask
<1>1. CASE ask = <<>>
  BY <1>1, WatchAssumption
<1>2. CASE ask \in Parks
  <2>1. PICK n \in 1 .. MaxFds : ask \in [1 .. n -> Ask]
    BY <1>2 DEF Parks
  <2>2. n \in Nat /\ n \in 0 .. MaxFds
    BY WatchAssumption
  <2>3. ask \in Seq(Ask) /\ Len(ask) = n
    BY <2>1, <2>2
  <2> QED BY <2>1, <2>2, <2>3
<1> QED BY <1>1, <1>2

LEMMA WatchesOf ==
  ASSUME NEW a, Parked(a), NEW w \in Wait
  PROVE  /\ Len(a[w]) \in Nat
         /\ \A i \in 1 .. Len(a[w]) : At(w, i) \in AllOf(a) /\ AsksOf(a)[At(w, i)] = a[w][i]
         /\ \A x \in AllOf(a) : x.wait = w => x \in PlacesOf(w, Len(a[w]))
<1>1. a[w] \in {<<>>} \cup Parks
  BY DEF Parked
<1>2. Len(a[w]) \in 0 .. MaxFds /\ DOMAIN a[w] = 1 .. Len(a[w])
  BY <1>1, ParkIs
<1>3. Len(a[w]) \in Nat /\ \A i \in 1 .. Len(a[w]) : i \in 1 .. MaxFds
  BY <1>2, WatchAssumption
<1>4. \A i \in 1 .. MaxFds : At(w, i) \in Watch /\ At(w, i).wait = w /\ At(w, i).place = i
  BY DEF At, Watch
<1>5. \A x \in Watch : x = At(x.wait, x.place)
  BY DEF At, Watch
<1>6. ASSUME NEW i \in 1 .. Len(a[w]) PROVE At(w, i) \in AllOf(a) /\ AsksOf(a)[At(w, i)] = a[w][i]
  BY <1>2, <1>3, <1>4 DEF AllOf, AsksOf
<1>7. ASSUME NEW x \in AllOf(a), x.wait = w PROVE x \in PlacesOf(w, Len(a[w]))
  BY <1>2, <1>5, <1>7 DEF AllOf, PlacesOf
<1> QED BY <1>3, <1>6, <1>7

LEMMA AllLeftKeeps ==
  ASSUME NEW T, Parked(asks), TablesOK(T, AllOf(asks), AsksOf(asks)),
         NEW q, NEW h \in Nat, h = Len(q), \A i \in 1 .. h : q[i] \in Wait, \A i, j \in 1 .. h : q[i] = q[j] => i = j
  PROVE  TablesOK(AllLeft(T, q, asks), Without(AllOf(asks), {q[i] : i \in 1 .. h}), AsksOf(asks))
<1>1. PICK a : a = asks
  OBVIOUS
<1>2. PICK X, A : X = AllOf(a) /\ A = AsksOf(a)
  OBVIOUS
<1>3. PICK f : /\ f[0] = T
               /\ \A n \in 1 .. h : f[n] = Left(f[n - 1], q[n], a[q[n]])
               /\ AllLeft(T, q, a) = f[h]
  BY FinishTurns
<1>4. Parked(a) /\ TablesOK(T, X, A)
  BY <1>1, <1>2
<1> DEFINE Gone(n) == Without(X, {q[i] : i \in 1 .. n})
           S == {n \in Nat : n <= h => TablesOK(f[n], Gone(n), A)}
<1>5. 0 \in S
  <2>1. Gone(0) = X
    BY DEF Without
  <2> QED BY <1>3, <1>4, <2>1
<1>6. ASSUME NEW n \in Nat, n \in S PROVE n + 1 \in S
  <2> SUFFICES ASSUME n + 1 <= h PROVE TablesOK(f[n + 1], Gone(n + 1), A)
    OBVIOUS
  <2>1. n <= h /\ n + 1 \in 1 .. h /\ (n + 1) - 1 = n /\ \A i \in 1 .. n : i \in 1 .. h /\ i # n + 1
    OBVIOUS
  <2>2. PICK w \in Wait : w = q[n + 1]
    BY <2>1
  <2>3. f[n + 1] = Left(f[n], w, a[w])
    BY <1>3, <2>1, <2>2
  <2>4. PICK Y : Y = Gone(n)
    OBVIOUS
  <2>5. TablesOK(f[n], Y, A)
    BY <1>6, <2>1, <2>4
  <2>6. \A i \in 1 .. n : q[i] # w
    BY <2>1, <2>2
  <2>7. /\ Len(a[w]) \in Nat
        /\ \A i \in 1 .. Len(a[w]) : At(w, i) \in X /\ A[At(w, i)] = a[w][i]
        /\ \A x \in X : x.wait = w => x \in PlacesOf(w, Len(a[w]))
    BY <1>2, <1>4, WatchesOf
  <2>8. \A i \in 1 .. Len(a[w]) : At(w, i).wait = w
    BY DEF At
  <2>9. \A i \in 1 .. Len(a[w]) : At(w, i) \in Y
    BY <2>4, <2>6, <2>7, <2>8 DEF Without
  <2>10. TablesOK(f[n + 1], Y \ PlacesOf(w, Len(a[w])), A)
    <3>1. PICK g, ask : g = f[n] /\ ask = a[w]
      OBVIOUS
    <3>2. TablesOK(Left(g, w, ask), Y \ PlacesOf(w, Len(ask)), A)
      BY <2>5, <2>7, <2>9, <3>1, LeftKeeps
    <3> QED BY <2>3, <3>1, <3>2
  <2>11. \A i \in 1 .. n + 1 : i \in 1 .. n \/ i = n + 1
    OBVIOUS
  <2>12. {q[i] : i \in 1 .. n + 1} = {q[i] : i \in 1 .. n} \cup {w}
    BY <2>1, <2>2, <2>11
  <2>13. Gone(n + 1) = {x \in Y : x.wait # w}
    BY <2>4, <2>12 DEF Without
  <2>14. \A x \in PlacesOf(w, Len(a[w])) : x.wait = w
    BY <2>8 DEF PlacesOf
  <2>15. \A x \in Y : x \in X
    BY <2>4 DEF Without
  <2>16. Gone(n + 1) = Y \ PlacesOf(w, Len(a[w]))
    BY <2>7, <2>13, <2>14, <2>15
  <2> QED BY <2>10, <2>16
<1>7. h \in S
  <2> HIDE DEF S
  <2> QED BY <1>5, <1>6, SetInduction
<1>8. h <= h
  OBVIOUS
<1> QED BY <1>1, <1>2, <1>3, <1>7, <1>8

(* The inductive invariant: the tables hold the watches of the parked      *)
(* waits and no other.                                                     *)
WatchInv == Parked(asks) /\ TablesOK(Tables, AllOf(asks), AsksOf(asks))

LEMMA WatchStarts ==
  ASSUME WatchInit
  PROVE  WatchInv
<1>1. asks = [w \in Wait |-> <<>>] /\ Parked(asks)
  BY DEF WatchInit, Parked
<1>2. AllOf(asks) = {}
  BY <1>1 DEF AllOf, Watch
<1>3. Tables \in TableSet
  <2>1. fds \in Seq(Fd) /\ events \in Seq(SUBSET Event) /\ slot \in [Fd -> Nat] /\ index \in [Watch -> Nat]
    BY DEF WatchInit
  <2>2. watches \in [Fd -> Seq(Watch)]
    BY DEF WatchInit
  <2>3. masks \in [Fd -> [Mask -> Nat]]
    BY DEF WatchInit
  <2> QED BY <2>1, <2>2, <2>3 DEF Tables, TableSet
<1>4. /\ Tables.fds = <<>> /\ Tables.events = <<>> /\ Tables.slot = [fd \in Fd |-> 0]
      /\ Tables.watches = [fd \in Fd |-> <<>>] /\ Tables.masks = [fd \in Fd |-> [mask \in Mask |-> 0]]
  BY DEF Tables, WatchInit
<1>5. PICK T : T = Tables
  OBVIOUS
<1>6. \A A, fd : Ons({}, A, fd) = {}
  BY DEF Ons
<1>7. \A A, fd, mask : Asking({}, A, fd, mask) = {}
  BY DEF Asking
<1>8. ASSUME NEW A PROVE TablesOK(T, {}, A)
  <2>1. Shaped(T, {}, A)
    BY <1>3, <1>5, FS_EmptySet DEF Shaped
  <2>2. SlotsOK(T, {}, A) /\ EventsOK(T, {}, A) /\ WatchesOK(T, {}, A)
    BY <1>4, <1>5, <1>6 DEF SlotsOK, EventsOK, WatchesOK
  <2>3. MasksOK(T, {}, A)
    BY <1>4, <1>5, <1>7, FS_EmptySet DEF MasksOK
  <2> QED BY <2>1, <2>2, <2>3 DEF TablesOK
<1> QED BY <1>1, <1>2, <1>5, <1>8 DEF WatchInv

LEMMA TablesAre ==
  ASSUME NEW R \in TableSet, TablesBecome(R)
  PROVE  Tables' = R
<1>1. R = [fds |-> R.fds, events |-> R.events, slot |-> R.slot,
           watches |-> R.watches, masks |-> R.masks, index |-> R.index]
  BY DEF TableSet
<1> QED BY <1>1 DEF TablesBecome, Tables

LEMMA ParkKeeps ==
  ASSUME WatchInv, NEW w \in Wait, NEW ask \in Parks, Park(w, ask)
  PROVE  WatchInv'
<1>1. PICK a, b, T, R : a = asks /\ b = asks' /\ T = Tables /\ R = Entered(T, w, ask)
  OBVIOUS
<1>2. a[w] = <<>> /\ b = [a EXCEPT ![w] = ask] /\ TablesBecome(R)
  BY <1>1 DEF Park
<1>3. a \in [Wait -> {<<>>} \cup Parks] /\ TablesOK(T, AllOf(a), AsksOf(a))
  BY <1>1 DEF WatchInv, Parked
<1>4. b \in [Wait -> {<<>>} \cup Parks] /\ b[w] = ask /\ \A v \in Wait : v # w => b[v] = a[v]
  BY <1>2, <1>3
<1>5. PICK h \in 0 .. MaxFds : h = Len(ask) /\ DOMAIN ask = 1 .. h /\ \A i \in 1 .. h : ask[i] \in Ask
  BY ParkIs
<1>6. \A x \in Watch : x.wait \in Wait
  BY DEF Watch
<1>7. DOMAIN a[w] = {}
  BY <1>2
<1>8. \A x \in AllOf(a) : x \in Watch /\ x.wait # w
  BY <1>7 DEF AllOf
<1>9. \A x \in AllOf(a) : x \in AllOf(b) /\ AsksOf(a)[x] = AsksOf(b)[x]
  BY <1>4, <1>6, <1>8 DEF AllOf, AsksOf
<1>10. TablesOK(T, AllOf(a), AsksOf(b))
  BY <1>3, <1>9, Agree
<1>11. /\ \A i \in 1 .. h : At(w, i) \in AllOf(b) /\ AsksOf(b)[At(w, i)] = ask[i]
       /\ \A x \in AllOf(b) : x.wait = w => x \in PlacesOf(w, h)
  BY <1>4, <1>5, WatchesOf DEF Parked
<1>12. \A i \in 1 .. h : At(w, i).wait = w
  BY DEF At
<1>13. \A i \in 1 .. h : At(w, i) \notin AllOf(a) /\ AsksOf(b)[At(w, i)] = ask[i] /\ ask[i] \in Ask
  BY <1>5, <1>8, <1>11, <1>12
<1>14. TablesOK(Entered(T, w, ask), AllOf(a) \cup PlacesOf(w, h), AsksOf(b))
  <2>1. PICK X, A : X = AllOf(a) /\ A = AsksOf(b)
    OBVIOUS
  <2>2. TablesOK(Entered(T, w, ask), X \cup PlacesOf(w, h), A)
    BY <1>5, <1>10, <1>13, <2>1, EnteredKeeps
  <2> QED BY <2>1, <2>2
<1>15. AllOf(b) = AllOf(a) \cup PlacesOf(w, h)
  <2>1. \A x \in AllOf(b) : x.wait # w => x \in AllOf(a)
    BY <1>4, <1>6 DEF AllOf
  <2>2. \A x \in PlacesOf(w, h) : x \in AllOf(b)
    BY <1>11 DEF PlacesOf
  <2> QED BY <1>9, <1>11, <2>1, <2>2
<1>16. TablesOK(R, AllOf(b), AsksOf(b))
  BY <1>1, <1>14, <1>15
<1>17. Tables' = R
  BY <1>2, <1>16, TablesAre DEF TablesOK, Shaped
<1> QED BY <1>1, <1>4, <1>16, <1>17 DEF WatchInv, Parked

LEMMA FinishAllKeeps ==
  ASSUME WatchInv, NEW ws \in SUBSET Wait, FinishAll(ws)
  PROVE  WatchInv'
<1>1. PICK a, b, T : a = asks /\ b = asks' /\ T = Tables
  OBVIOUS
<1>2. b = [w \in Wait |-> IF w \in ws THEN <<>> ELSE a[w]]
  BY <1>1 DEF FinishAll
<1>3. IsFiniteSet(ws)
  BY WatchAssumption, FS_Subset
<1>4. PICK h \in Nat : h = Cardinality(ws)
  BY <1>3, FS_CardinalityType
<1>5. PICK q \in [1 .. h -> ws] : IsInjective(q) /\ ws \subseteq ToSet(q) /\ TablesBecome(AllLeft(T, q, a))
  BY <1>1, <1>4 DEF FinishAll
<1>6. /\ h = Len(q) /\ \A i \in 1 .. h : q[i] \in Wait
      /\ \A i, j \in 1 .. h : q[i] = q[j] => i = j
      /\ {q[i] : i \in 1 .. h} = ws
  <2>1. q \in Seq(ws) /\ h = Len(q) /\ DOMAIN q = 1 .. h
    BY <1>5
  <2>2. \A i, j \in 1 .. h : q[i] = q[j] => i = j
    BY <1>5, <2>1 DEF IsInjective
  <2>3. {q[i] : i \in 1 .. h} = ws
    BY <1>5, <2>1 DEF ToSet
  <2> QED BY <1>5, <2>1, <2>2, <2>3
<1>7. Parked(a) /\ TablesOK(T, AllOf(a), AsksOf(a))
  BY <1>1 DEF WatchInv
<1>8. PICK R : R = AllLeft(T, q, a)
  OBVIOUS
<1>9. TablesOK(R, Without(AllOf(a), ws), AsksOf(a))
  BY <1>1, <1>6, <1>7, <1>8, AllLeftKeeps
<1>10. \A x \in Watch : x.wait \in Wait
  BY DEF Watch
<1>11. AllOf(b) = Without(AllOf(a), ws)
  BY <1>2, <1>10 DEF AllOf, Without
<1>12. \A x \in AllOf(b) : AsksOf(a)[x] = AsksOf(b)[x]
  <2> SUFFICES ASSUME NEW x \in AllOf(b) PROVE AsksOf(a)[x] = AsksOf(b)[x]
    OBVIOUS
  <2>1. x \in Watch /\ x.wait \in Wait /\ x.wait \notin ws
    BY <1>10, <1>11 DEF AllOf, Without
  <2>2. b[x.wait] = a[x.wait]
    BY <1>2, <2>1
  <2> QED BY <2>1, <2>2 DEF AsksOf
<1>13. TablesOK(R, AllOf(b), AsksOf(b))
  BY <1>9, <1>11, <1>12, Agree
<1>14. Parked(b)
  BY <1>2, <1>7 DEF Parked
<1>15. Tables' = R
  BY <1>5, <1>8, <1>13, TablesAre DEF TablesOK, Shaped
<1> QED BY <1>1, <1>13, <1>14, <1>15 DEF WatchInv

LEMMA WatchKept ==
  ASSUME WatchInv, [WatchNext]_watchVars
  PROVE  WatchInv'
<1>1. CASE \E w \in Wait : End(w)
  <2>1. PICK w \in Wait : End(w)
    BY <1>1
  <2>2. {w} \in SUBSET Wait /\ FinishAll({w})
    BY <2>1 DEF End
  <2> QED BY <2>2, FinishAllKeeps
<1>2. CASE \E w \in Wait : \E ask \in Parks : Park(w, ask)
  BY <1>2, ParkKeeps
<1>3. CASE PollOnce
  <2>1. PICK has \in Happening : FinishAll(Hits(has))
    BY <1>3 DEF PollOnce
  <2>2. Hits(has) \in SUBSET Wait
    BY DEF Hits
  <2> QED BY <2>1, <2>2, FinishAllKeeps
<1>4. CASE \E fd \in Fd : AnswerWaits(fd)
  <2>1. PICK fd \in Fd : AnswerWaits(fd)
    BY <1>4
  <2> DEFINE hits == {x.wait : x \in ToSet(watches[fd])}
  <2>2. FinishAll(hits)
    BY <2>1 DEF AnswerWaits
  <2>3. hits \in SUBSET Wait
    <3>1. Tables \in TableSet
      BY DEF WatchInv, TablesOK, Shaped
    <3>2. Tables.watches \in [Fd -> Seq(Watch)] /\ Tables.watches = watches
      BY <3>1, TableIs DEF Tables
    <3>3. watches[fd] \in Seq(Watch)
      BY <3>2
    <3>4. \A x \in ToSet(watches[fd]) : x \in Watch
      BY <3>3 DEF ToSet
    <3> QED BY <3>4 DEF Watch
  <2> HIDE DEF hits
  <2> QED BY <2>2, <2>3, FinishAllKeeps
<1>5. CASE UNCHANGED watchVars
  BY <1>5 DEF watchVars, WatchInv, Tables
<1> QED BY <1>1, <1>2, <1>3, <1>4, <1>5 DEF WatchNext

(* The tables' slots and lists, read off WatchInv.                         *)
LEMMA WatchInvIs ==
  ASSUME WatchInv
  PROVE  /\ fds \in Seq(Fd) /\ events \in Seq(SUBSET Event) /\ slot \in [Fd -> Nat]
         /\ watches \in [Fd -> Seq(Watch)] /\ masks \in [Fd -> [Mask -> Nat]] /\ index \in [Watch -> Nat]
         /\ asks \in [Wait -> {<<>>} \cup Parks]
         /\ \A fd \in Fd : Ons(AllOf(asks), AsksOf(asks), fd) = On(fd)
         /\ \A fd \in Fd : EventsOf(AllOf(asks), AsksOf(asks), fd) = UNION {AskOf(x).mask : x \in On(fd)}
<1>1. Tables \in TableSet
  BY DEF WatchInv, TablesOK, Shaped
<1>2. /\ Tables.fds = fds /\ Tables.events = events /\ Tables.slot = slot
      /\ Tables.watches = watches /\ Tables.masks = masks /\ Tables.index = index
  BY DEF Tables
<1>3. /\ fds \in Seq(Fd) /\ events \in Seq(SUBSET Event) /\ slot \in [Fd -> Nat]
      /\ watches \in [Fd -> Seq(Watch)] /\ masks \in [Fd -> [Mask -> Nat]] /\ index \in [Watch -> Nat]
  BY <1>1, <1>2, TableIs
<1>4. ASSUME NEW fd \in Fd PROVE Ons(AllOf(asks), AsksOf(asks), fd) = On(fd)
  BY DEF Ons, AllOf, AsksOf, On
<1>5. ASSUME NEW fd \in Fd
      PROVE  EventsOf(AllOf(asks), AsksOf(asks), fd) = UNION {AskOf(x).mask : x \in On(fd)}
  <2>1. \A x \in On(fd) : AsksOf(asks)[x] = AskOf(x)
    BY DEF On, AsksOf, AskOf
  <2>2. {AsksOf(asks)[x].mask : x \in On(fd)} = {AskOf(x).mask : x \in On(fd)}
    BY <2>1
  <2> QED BY <1>4, <2>2 DEF EventsOf
<1> QED BY <1>3, <1>4, <1>5 DEF WatchInv, Parked

LEMMA TablesSay ==
  ASSUME WatchInv
  PROVE  WatchTypeOK /\ SlotsExact /\ WatchesExact /\ EventsExact
<1>1. /\ fds \in Seq(Fd) /\ events \in Seq(SUBSET Event) /\ slot \in [Fd -> Nat]
      /\ watches \in [Fd -> Seq(Watch)] /\ masks \in [Fd -> [Mask -> Nat]] /\ index \in [Watch -> Nat]
      /\ asks \in [Wait -> {<<>>} \cup Parks]
  BY WatchInvIs
<1>2. \A fd \in Fd : Ons(AllOf(asks), AsksOf(asks), fd) = On(fd)
  BY WatchInvIs
<1>3. \A fd \in Fd : EventsOf(AllOf(asks), AsksOf(asks), fd) = UNION {AskOf(x).mask : x \in On(fd)}
  BY WatchInvIs
<1>4. /\ Tables.fds = fds /\ Tables.events = events /\ Tables.slot = slot
      /\ Tables.watches = watches /\ Tables.index = index
  BY DEF Tables
<1>5. PICK n \in Nat : n = Len(fds) /\ DOMAIN fds = 1 .. n /\ \A s \in 1 .. n : fds[s] \in Fd
  BY <1>1
<1>6. /\ Len(events) = n /\ \A s \in 1 .. n : slot[fds[s]] = s
      /\ \A fd \in Fd : IF On(fd) # {} THEN slot[fd] \in 1 .. n /\ fds[slot[fd]] = fd ELSE slot[fd] = 0
  BY <1>2, <1>4, <1>5 DEF WatchInv, TablesOK, SlotsOK
<1>7. WatchTypeOK
  BY <1>1 DEF WatchTypeOK
<1>8. \A s \in 1 .. n : On(fds[s]) # {}
  <2>1. \A s \in 1 .. n : s # 0
    OBVIOUS
  <2> QED BY <2>1, <1>5, <1>6
<1>9. SlotsExact
  <2>1. IsInjective(fds)
    BY <1>5, <1>6 DEF IsInjective
  <2>2. ToSet(fds) = {fd \in Fd : On(fd) # {}}
    BY <1>5, <1>6, <1>8 DEF ToSet
  <2> QED BY <1>5, <1>6, <2>1, <2>2 DEF SlotsExact
<1>10. EventsExact
  <2>1. \A fd \in Fd : On(fd) # {} => events[slot[fd]] = UNION {AskOf(x).mask : x \in On(fd)}
    BY <1>2, <1>3, <1>4 DEF WatchInv, TablesOK, EventsOK
  <2> SUFFICES ASSUME NEW s \in 1 .. n PROVE events[s] = UNION {AskOf(x).mask : x \in On(fds[s])}
    BY <1>5 DEF EventsExact
  <2>2. PICK fd \in Fd : fd = fds[s] /\ On(fd) # {} /\ slot[fd] = s
    BY <1>5, <1>6, <1>8
  <2> QED BY <2>1, <2>2
<1>11. WatchesExact
  <2> SUFFICES ASSUME NEW fd \in Fd
               PROVE  /\ IsInjective(watches[fd]) /\ ToSet(watches[fd]) = On(fd)
                      /\ \A i \in DOMAIN watches[fd] : index[watches[fd][i]] = i
    BY DEF WatchesExact
  <2>1. PICK q \in Seq(Watch) : q = watches[fd]
    BY <1>1
  <2>2. DOMAIN q = 1 .. Len(q)
    BY <2>1
  <2>3. \A i \in 1 .. Len(q) : q[i] \in On(fd) /\ index[q[i]] = i
    BY <1>2, <1>4, <2>1 DEF WatchInv, TablesOK, WatchesOK
  <2>4. ASSUME NEW x \in On(fd) PROVE \E i \in 1 .. Len(q) : q[i] = x
    <3>1. x \in AllOf(asks) /\ AsksOf(asks)[x].fd = fd
      BY <1>2 DEF Ons
    <3> QED BY <1>4, <2>1, <3>1 DEF WatchInv, TablesOK, WatchesOK
  <2>5. IsInjective(q)
    BY <2>2, <2>3 DEF IsInjective
  <2>6. ToSet(q) = On(fd)
    BY <2>2, <2>3, <2>4 DEF ToSet
  <2> QED BY <2>1, <2>2, <2>3, <2>5, <2>6
<1> QED BY <1>7, <1>9, <1>10, <1>11

(* A poll of exact tables answers whom it should.                          *)
LEMMA PollsAnswer ==
  ASSUME WatchInv, NEW has \in Happening
  PROVE  Hits(has) = {w \in Wait : \E i \in DOMAIN asks[w] :
                        has[asks[w][i].fd] \cap (asks[w][i].mask \cup Unasked) # {}}
<1>1. WatchTypeOK /\ SlotsExact /\ WatchesExact /\ EventsExact
  BY TablesSay
<1>2. asks \in [Wait -> {<<>>} \cup Parks]
  BY WatchInvIs
<1>3. \A x \in Watch : x.wait \in Wait
  BY DEF Watch
<1>4. fds \in Seq(Fd) /\ watches \in [Fd -> Seq(Watch)]
  BY WatchInvIs
<1>5. \A s \in DOMAIN fds : fds[s] \in Fd
  BY <1>4
<1>a. \A fd \in Fd : \A x \in On(fd) : x \in Watch /\ x.place \in DOMAIN asks[x.wait] /\ AskOf(x).fd = fd /\ AskOf(x) = asks[x.wait][x.place]
  BY DEF On, AskOf
<1>6. ASSUME NEW w \in Hits(has)
      PROVE  w \in Wait /\ \E i \in DOMAIN asks[w] : has[asks[w][i].fd] \cap (asks[w][i].mask \cup Unasked) # {}
  <2>1. PICK s \in DOMAIN fds : \E i \in DOMAIN watches[fds[s]] :
          /\ watches[fds[s]][i].wait = w
          /\ Polled(has, s) \cap (asks[w][watches[fds[s]][i].place].mask \cup Unasked) # {}
    BY DEF Hits
  <2>2. PICK fd \in Fd : fd = fds[s]
    BY <1>5
  <2>3. PICK x \in ToSet(watches[fd]) : x.wait = w /\ Polled(has, s) \cap (asks[w][x.place].mask \cup Unasked) # {}
    BY <2>1, <2>2 DEF ToSet
  <2>4. x \in On(fd)
    BY <1>1, <2>3 DEF WatchesExact
  <2>5. x.place \in DOMAIN asks[w] /\ asks[w][x.place].fd = fd
    BY <1>a, <2>3, <2>4
  <2>6. Polled(has, s) \subseteq has[fd]
    BY <2>2 DEF Polled
  <2> QED BY <2>3, <2>5, <2>6 DEF Hits
<1>7. ASSUME NEW w \in Wait, NEW i \in DOMAIN asks[w],
             has[asks[w][i].fd] \cap (asks[w][i].mask \cup Unasked) # {}
      PROVE  w \in Hits(has)
  <2>1. asks[w] \in {<<>>} \cup Parks
    BY <1>2
  <2>2. Len(asks[w]) \in 0 .. MaxFds /\ DOMAIN asks[w] = 1 .. Len(asks[w]) /\ asks[w][i] \in Ask
    BY <2>1, ParkIs
  <2>3. i \in 1 .. MaxFds
    BY <2>2, WatchAssumption
  <2>4. PICK x \in Watch : x.wait = w /\ x.place = i
    <3>1. At(w, i) \in Watch /\ At(w, i).wait = w /\ At(w, i).place = i
      BY <2>3 DEF At, Watch
    <3> QED BY <3>1
  <2>5. PICK fd \in Fd : fd = asks[w][i].fd
    BY <2>2, AskIs
  <2>6. x \in On(fd)
    BY <2>4, <2>5 DEF On
  <2>7. PICK j \in DOMAIN watches[fd] : watches[fd][j] = x
    BY <1>1, <2>6 DEF WatchesExact, ToSet
  <2>8. PICK s \in DOMAIN fds : fds[s] = fd
    BY <1>1, <2>6 DEF SlotsExact, ToSet
  <2>9. asks[w][i].mask \subseteq events[s]
    <3>1. events[s] = UNION {AskOf(y).mask : y \in On(fd)}
      BY <1>1, <2>8 DEF EventsExact
    <3>2. AskOf(x).mask = asks[w][i].mask
      BY <2>4 DEF AskOf
    <3> QED BY <2>6, <3>1, <3>2
  <2>10. Polled(has, s) \cap (asks[w][x.place].mask \cup Unasked) # {}
    BY <1>7, <2>4, <2>5, <2>8, <2>9 DEF Polled
  <2> QED BY <2>4, <2>7, <2>8, <2>10 DEF Hits
<1> QED BY <1>6, <1>7

(* The packed tables of the loop hold, through every park, poll and        *)
(* finish, exactly the waits there are, each descriptor in one slot with   *)
(* the events its waits ask, and a poll of them answers exactly the waits  *)
(* that something happened to (poll.tl enter, leave, park, finish,         *)
(* wake_hits, poll_once).                                                  *)
THEOREM TablesAreExact == WatchSpec => []WatchTables
<1>1. WatchInv => WatchTables
  BY TablesSay, PollsAnswer DEF WatchTables, PollAnswersAll
<1> QED BY <1>1, WatchStarts, WatchKept, PTL DEF WatchSpec
=============================================================================
