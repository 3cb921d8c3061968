----------------------------- MODULE PollTimers -----------------------------
(***************************************************************************)
(* The timers of a run of cosmic.poll: a binary heap of waits on their     *)
(* time, then the order they began in.  A wait answered otherwise stays in *)
(* the heap, done, until it reaches the top or too many have gathered and  *)
(* the heap is rebuilt.  What Poll.tla takes as the set of parked waits    *)
(* with a time limit, nearest first, is kept this way.                     *)
(***************************************************************************)
EXTENDS Integers, FiniteSets, SequencesExt

CONSTANTS MaxSeq,     \* bound: how many waits begin
          MaxTime,    \* bound: the last time
          MaxMixed,   \* bound: the last to begin once one is done
          StaleFloor  \* STALE_FLOOR

ASSUME TimersAssumption == {MaxSeq, MaxTime, MaxMixed, StaleFloor} \subseteq Nat

VARIABLES timers,   \* loop.timers, its slots 1 to timer_count
          stale,    \* loop.stale
          seq,      \* loop.seq
          done,     \* the waits (their seq) with `done` set
          in_heap,  \* the waits with `in_heap` set
          fired,    \* the wait expire() answered last, or 0
          now       \* Clock.monotonic_ns

timerVars == <<timers, stale, seq, done, in_heap, fired, now>>

Entry == [at : 0 .. MaxTime, seq : 1 .. MaxSeq]

TimersInit == /\ timers = <<>> /\ stale = 0 /\ seq = 0
              /\ done = {} /\ in_heap = {} /\ fired = 0 /\ now = 0

earlier(a, b) == a.at < b.at \/ (a.at = b.at /\ a.seq < b.seq)

SwapTimers(h, i, j) == [h EXCEPT ![i] = h[j], ![j] = h[i]]

(* A turn of heap_push's loop: an entry earlier than its parent takes its  *)
(* place.                                                                  *)
Risen(x) ==
  LET parent == x.i \div 2
  IN IF x.i > 1 /\ earlier(x.heap[x.i], x.heap[parent])
     THEN [heap |-> SwapTimers(x.heap, x.i, parent), i |-> parent] ELSE x

(* heap_push: the new last entry rises; it has no more turns than slots.   *)
heap_push(h, w) ==
  LET rise[n \in 0 .. Len(h)] ==
        IF n = 0 THEN [heap |-> Append(h, w), i |-> Len(h) + 1] ELSE Risen(rise[n - 1])
  IN rise[Len(h)].heap

(* Mutant: the right child is compared with the parent only.               *)
Least_RightWins(h, i) ==
  LET l == 2 * i
      r == 2 * i + 1
  IN IF r <= Len(h) /\ earlier(h[r], h[i]) THEN r
     ELSE IF l <= Len(h) /\ earlier(h[l], h[i]) THEN l ELSE i

(* The earliest of slot i and its children.                                *)
Least(h, i) ==
  CHOOSE j \in {i, 2 * i, 2 * i + 1} \cap DOMAIN h :
     \A k \in {i, 2 * i, 2 * i + 1} \cap DOMAIN h : ~earlier(h[k], h[j])

(* A turn of sift_down's loop, one that ends it changing nothing.          *)
Sunk(x) ==
  LET least == Least(x.heap, x.i)
  IN [heap |-> SwapTimers(x.heap, x.i, least), i |-> least]

(* sift_down: the entry at i sinks past every child earlier than it.       *)
sift_down(h, i) ==
  LET sink[n \in 0 .. Len(h)] == IF n = 0 THEN [heap |-> h, i |-> i] ELSE Sunk(sink[n - 1])
  IN sink[Len(h)].heap

(* compact_timers: the waits not done, made a heap again.                  *)
KeepOne(kept, w, gone) == IF w.seq \in gone THEN kept ELSE Append(kept, w)

Kept(h, gone) ==
  LET kept[n \in 0 .. Len(h)] == IF n = 0 THEN <<>> ELSE KeepOne(kept[n - 1], h[n], gone)
  IN kept[Len(h)]

Rebuilt(h) ==
  LET half == Len(h) \div 2
      sifted[n \in 0 .. half] == IF n = 0 THEN h ELSE sift_down(sifted[n - 1], half + 1 - n)
  IN sifted[half]

(* park with a time limit.                                                 *)
Begin(at) ==
  /\ seq < MaxSeq /\ (done = {} \/ seq < MaxMixed)
  /\ seq' = seq + 1
  /\ timers' = heap_push(timers, [at |-> at, seq |-> seq'])
  /\ in_heap' = in_heap \cup {seq'}
  /\ UNCHANGED <<stale, done, fired, now>>

(* finish, of a wait answered by something else than its time.             *)
finish(w) ==
  /\ w \in 1 .. seq /\ w \notin done
  /\ done' = done \cup {w}
  /\ IF stale + 1 > StaleFloor /\ 2 * (stale + 1) > Len(timers)
     THEN timers' = Rebuilt(Kept(timers, done')) /\ in_heap' = in_heap \ done' /\ stale' = 0
     ELSE stale' = stale + 1 /\ UNCHANGED <<timers, in_heap>>
  /\ UNCHANGED <<seq, fired, now>>

(* pop_timer.                                                              *)
pop_timer ==
  /\ timers' = IF Len(timers) = 1 THEN <<>>
               ELSE sift_down([Front(timers) EXCEPT ![1] = Last(timers)], 1)
  /\ in_heap' = in_heap \ {timers[1].seq}
  /\ stale' = IF timers[1].seq \in done THEN stale - 1 ELSE stale

(* One turn of the loop in next_timeout, which drops done waits, or of the *)
(* same in expire().                                                       *)
DropDone ==
  /\ timers # <<>> /\ timers[1].seq \in done
  /\ pop_timer
  /\ UNCHANGED <<seq, done, fired, now>>

(* One turn of the loop in expire() that answers a wait.                   *)
ExpireOne ==
  /\ timers # <<>> /\ timers[1].seq \notin done /\ timers[1].at <= now
  /\ pop_timer
  /\ fired' = timers[1].seq /\ done' = done \cup {fired'}
  /\ UNCHANGED <<seq, now>>

Tick == now < MaxTime /\ now' = now + 1 /\ UNCHANGED <<timers, stale, seq, done, in_heap, fired>>

TimersNext == \/ \E at \in now .. MaxTime : Begin(at)
              \/ \E w \in 1 .. MaxSeq : finish(w)
              \/ DropDone \/ ExpireOne \/ Tick

TimersSpec == TimersInit /\ [][TimersNext]_timerVars
-----------------------------------------------------------------------------
(* The variables keep their types.                                         *)
TimersTypeOK ==
  /\ timers \in Seq(Entry) /\ seq \in 0 .. MaxSeq
  /\ stale \in Nat /\ done \subseteq 1 .. seq /\ in_heap \subseteq 1 .. seq
  /\ fired \in 0 .. seq /\ now \in 0 .. MaxTime

(* The timers are a heap whatever was pushed, popped or thrown out: each   *)
(* slot's parent is earlier (poll.tl heap_push, sift_down, compact_timers). *)
HeapOrdered == \A i \in 2 .. Len(timers) : earlier(timers[i \div 2], timers[i])

(* The heap holds each wait marked in_heap once and no other; no wait not  *)
(* answered has been lost from it, and `stale` counts the answered ones.   *)
HeapExact ==
  /\ \A i, j \in DOMAIN timers : timers[i].seq = timers[j].seq => i = j
  /\ in_heap = {timers[i].seq : i \in DOMAIN timers}
  /\ (1 .. seq) \ done \subseteq in_heap
  /\ stale = Cardinality(in_heap \cap done)

(* expire() answers the earliest wait left, and only once its time has     *)
(* come: a rebuilt heap answers in the order the old one would have.       *)
EntriesOf(w) == {e \in ToSet(timers) : e.seq = w}

FiresEarliest ==
  fired' # fired =>
    \E e \in EntriesOf(fired') :
       /\ e.at <= now
       /\ \A f \in ToSet(timers) : f.seq \in done \cup {e.seq} \/ earlier(e, f)

(* The timers are a heap of exactly the waits there should be.             *)
TimersHeap == TimersTypeOK /\ HeapExact /\ HeapOrdered

(* Through every begin, end and rebuild the timers stay that heap, and the *)
(* waits are answered in the order of their times.                         *)
TimersFire == [][TimersHeap' /\ FiresEarliest]_timerVars
=============================================================================
