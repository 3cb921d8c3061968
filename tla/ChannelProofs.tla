--------------------------- MODULE ChannelProofs ----------------------------
(***************************************************************************)
(* Proofs about the channels of module Channel, for any tasks, capacities, *)
(* policies and number of items sent.  A channel is a client of the        *)
(* scheduler: what PollProofs says of every run of Poll holds of its runs. *)
(***************************************************************************)
EXTENDS Channel, PollProofs

-----------------------------------------------------------------------------
(***************************************************************************)
(* The scheduler under a channel.  A step of a channel's run is a step of  *)
(* the scheduler or leaves it alone, but for a wait begun again with the   *)
(* deadline of the call, which need not be a timeout away from now.        *)
(***************************************************************************)
LEMMA OfferIsPoll ==
  ASSUME NEW item, Offer(item)
  PROVE  [Next]_vars
BY ChannelAssumption DEF Offer, Push, Replace, CloseQueue, Next, Handler

LEMMA NotifierWaitStep ==
  ASSUME IInv, NEW t \in Task, NEW n \in Notifier, NEW due \in Nat \cup {None},
         NotifierWait(t, n, due)
  PROVE  IInv'
<1> DEFINE w == [NoWait EXCEPT !.kind = "notice", !.gate = n, !.at = due]
<1>1. /\ w.kind = "notice" /\ w.fds = {} /\ w.gate = n /\ w.joined = None /\ w.at = due
      /\ w \in Wait /\ n # None
  BY NoneAssumption DEF NoWait, Wait, Kinds
<1>2. Park(t, w)
  BY DEF NotifierWait
<1> HIDE DEF w
<1>3. WaitShape(w)
  BY <1>1 DEF WaitShape
<1> QED
  BY <1>1, <1>2, <1>3, ParkStep

LEMMA ChannelNextPoll ==
  ASSUME IInv, op \in [Task -> Op], [ChannelNext]_allvars
  PROVE  IInv'
<1>1. CASE TrySend
  BY <1>1, OfferIsPoll, NextInv DEF TrySend
<1>2. CASE Close \/ CloseRest
  BY <1>2, ChannelAssumption, NotifyAllStep DEF Close, CloseRest, CloseQueue
<1>3. ASSUME NEW t \in Task, NEW due \in Deadlines, SendCall(t, due) \/ ReceiveCall(t, due)
      PROVE  IInv'
  BY <1>3, NextInv DEF SendCall, ReceiveCall
<1>4. ASSUME NEW t \in Task, SendStep(t) PROVE IInv'
  <2>1. op[t].at \in Nat \cup {None}
    BY DEF Op
  <2>2. CASE NotifierWait(t, NotFull, op[t].at)
    BY <2>1, <2>2, ChannelAssumption, NotifierWaitStep
  <2>3. CASE Offer(op[t].item)
    BY <2>3, OfferIsPoll, NextInv
  <2>4. CASE UNCHANGED vars
    BY <2>4, NextInv
  <2> QED
    BY <1>4, <2>2, <2>3, <2>4 DEF SendStep
<1>5. ASSUME NEW t \in Task, ReceiveStep(t) PROVE IInv'
  <2>1. op[t].at \in Nat \cup {None}
    BY DEF Op
  <2>2. CASE NotifierWait(t, NotEmpty, op[t].at)
    BY <2>1, <2>2, ChannelAssumption, NotifierWaitStep
  <2>3. CASE Take(t)
    BY <2>3, ChannelAssumption, NotifyOneStep DEF Take
  <2>4. CASE UNCHANGED vars
    BY <2>4, NextInv
  <2> QED
    BY <1>5, <2>2, <2>3, <2>4 DEF ReceiveStep
<1>6. ASSUME NEW t \in Task, NEW u \in Task, KillStep(t, u) PROVE IInv'
  BY <1>6, KillParkedStep, KillReadyStep, KillInBatchStep DEF KillStep
<1>7. CASE OutsideStep
  BY <1>7, CancelStep, SpawnStep DEF OutsideStep
<1>8. CASE LeaveStep
  <2>1. LeaveStep => [Next]_vars
    BY DEF LeaveStep, Next, Stop, Yield
  <2> QED
    BY <1>8, <2>1, NextInv
<1>9. CASE ResumeStep \/ LoopStep \/ ClockStep \/ UNCHANGED allvars
  <2>1. [Next]_vars
    BY <1>9 DEF ResumeStep, LoopStep, ClockStep, allvars, Next, Turn
  <2> QED
    BY <2>1, NextInv
<1> QED
  BY <1>1, <1>2, <1>3, <1>4, <1>5, <1>6, <1>7, <1>8, <1>9 DEF ChannelNext

-----------------------------------------------------------------------------
(***************************************************************************)
(* The slots.                                                              *)
(***************************************************************************)
(* The part of ChannelTypeOK that is the channel's own, and what an item   *)
(* on its way is.                                                          *)
Slots ==
  /\ first \in Nat \ {0} /\ count \in 0 .. capacity
  /\ DOMAIN items = first .. first + count - 1
  /\ \A i \in DOMAIN items : items[i] \in Nat
  /\ capacity \in Capacities /\ overflow \in Policies
  /\ is_closed \in BOOLEAN /\ closing \in BOOLEAN /\ drops \in Nat

Calls ==
  /\ op \in [Task -> Op] /\ sent \in 0 .. MaxSends
  /\ \A t \in Task : op[t].kind = "send" => op[t].item \in 1 .. MaxSends

LEMMA IdleIsOp == Idle \in Op /\ Idle.kind = "idle"
BY DEF Idle, Op

(* pop, alone or before push, and push keep the slots in order.            *)
LEMMA OfferSlots ==
  ASSUME Slots, NEW item \in Nat, Offer(item)
  PROVE  Slots'
<1> USE ChannelAssumption DEF Slots
<1>1. /\ capacity \in Nat \ {0} /\ UNCHANGED <<capacity, overflow>>
  BY DEF Offer, options
<1>2. CASE ~is_closed /\ count < capacity /\ Push(item) /\ UNCHANGED closing
  <2>1. /\ DOMAIN items' = DOMAIN items \cup {first + count}
        /\ items'[first + count] = item
        /\ \A i \in DOMAIN items : i # first + count => items'[i] = items[i]
    BY <1>2 DEF Push, Set
  <2>2. /\ DOMAIN items' = first .. first + count
        /\ \A i \in DOMAIN items' : items'[i] \in Nat
    BY <2>1
  <2> QED
    BY <1>1, <1>2, <2>2 DEF Push
<1>3. CASE ~is_closed /\ count >= capacity /\ Replace(item) /\ UNCHANGED closing
  <2> DEFINE last == FirstAfterPop + count - 1
  <2>1. /\ DOMAIN items' = (DOMAIN items \ {first}) \cup {last} /\ items'[last] = item
        /\ \A i \in DOMAIN items \ {first} : i # last => items'[i] = items[i]
    BY <1>3 DEF Replace, Set, Clear
  <2>2. /\ DOMAIN items' = FirstAfterPop .. FirstAfterPop + count - 1
        /\ \A i \in DOMAIN items' : items'[i] \in Nat
    BY <1>1, <1>3, <2>1 DEF FirstAfterPop
  <2> QED
    BY <1>1, <1>3, <2>2 DEF Replace, FirstAfterPop
<1>4. CASE is_closed /\ UNCHANGED <<fields, closing>>
  BY <1>1, <1>4 DEF fields
<1>5. CASE drops' = drops + 1 /\ UNCHANGED <<items, first, count, is_closed, closing>>
  BY <1>1, <1>5
<1>6. CASE CloseQueue
  BY <1>1, <1>6 DEF CloseQueue
<1> QED
  BY <1>2, <1>3, <1>4, <1>5, <1>6 DEF Offer

LEMMA TakeSlots ==
  ASSUME Slots, NEW t \in Task, Take(t)
  PROVE  Slots'
<1> USE ChannelAssumption DEF Slots
<1>1. /\ count > 0 /\ count' = count - 1 /\ first' = FirstAfterPop
      /\ UNCHANGED <<is_closed, drops, capacity, overflow, closing>>
  BY DEF Take, options
<1>2. /\ DOMAIN items' = DOMAIN items \ {first}
      /\ \A i \in DOMAIN items' : items'[i] = items[i]
  BY DEF Take, Clear
<1>3. DOMAIN items' = first' .. first' + count' - 1
  BY <1>1, <1>2 DEF FirstAfterPop
<1> QED
  BY <1>1, <1>2, <1>3 DEF FirstAfterPop

LEMMA SlotsStep ==
  ASSUME TypeOK, Slots, Calls, [ChannelNext]_allvars
  PROVE  Slots' /\ Calls'
<1> USE ChannelAssumption, IdleIsOp
<1>1. UNCHANGED queue => Slots'
  BY DEF queue, fields, options, Slots
<1>2. ASSUME NEW t \in Task, Settle(t), UNCHANGED sent PROVE Calls'
  BY <1>2 DEF Settle, Calls
<1>3. UNCHANGED <<op, sent>> => Calls'
  BY DEF Calls
<1>4. CASE TrySend
  <2>1. sent' \in 1 .. MaxSends /\ Calls'
    BY <1>4 DEF TrySend, Calls
  <2> QED
    BY <1>1, <1>4, <2>1, OfferSlots DEF TrySend
<1>5. CASE Close \/ CloseRest
  BY <1>3, <1>5 DEF Close, CloseRest, CloseQueue, Slots, options, fields
<1>6. ASSUME NEW t \in Task, NEW due \in Deadlines, SendCall(t, due) \/ ReceiveCall(t, due)
      PROVE  Slots' /\ Calls'
  <2>1. due \in Nat \cup {None}
    BY BoundAssumption DEF TypeOK, Deadlines
  <2> QED
    BY <1>1, <1>6, <2>1 DEF SendCall, ReceiveCall, Calls, Op
<1>7. ASSUME NEW t \in Task, SendStep(t) PROVE Slots' /\ Calls'
  <2>1. op[t].item \in Nat
    BY DEF Calls, Op
  <2> QED
    BY <1>1, <1>2, <1>3, <1>7, <2>1, OfferSlots DEF SendStep
<1>8. ASSUME NEW t \in Task, ReceiveStep(t) PROVE Slots' /\ Calls'
  BY <1>1, <1>2, <1>3, <1>8, TakeSlots DEF ReceiveStep, Take
<1>9. ASSUME NEW t \in Task, NEW u \in Task, KillStep(t, u) PROVE Slots' /\ Calls'
  BY <1>1, <1>9 DEF KillStep, Calls
<1>10. CASE ResumeStep
  BY <1>1, <1>10 DEF ResumeStep, Calls
<1>11. CASE OutsideStep \/ LeaveStep \/ LoopStep \/ ClockStep \/ UNCHANGED allvars
  BY <1>1, <1>3, <1>11 DEF OutsideStep, LeaveStep, LoopStep, ClockStep, allvars
<1> QED
  BY <1>4, <1>5, <1>6, <1>7, <1>8, <1>9, <1>10, <1>11 DEF ChannelNext

-----------------------------------------------------------------------------
(***************************************************************************)
(* The slots as the abstract queue.                                        *)
(***************************************************************************)
(* The items from slot f on, as a sequence.                                *)
Line(tab, f, n) == [i \in 1 .. n |-> tab[f + i - 1]]

LEMMA LineSeq ==
  ASSUME NEW tab, NEW f \in Nat, NEW n \in Nat, \A i \in f .. f + n - 1 : tab[i] \in Nat
  PROVE  /\ Line(tab, f, n) \in Seq(Nat) /\ Len(Line(tab, f, n)) = n
         /\ \A i \in 1 .. n : Line(tab, f, n)[i] = tab[f + i - 1]
<1>1. \A i \in 1 .. n : tab[f + i - 1] \in Nat
  OBVIOUS
<1> QED
  BY <1>1 DEF Line

(* A line one longer is the line with an item appended.                    *)
LEMMA LineAppend ==
  ASSUME NEW q \in Seq(Nat), NEW r \in Seq(Nat), NEW x \in Nat, Len(r) = Len(q) + 1,
         r[Len(q) + 1] = x, \A i \in 1 .. Len(q) : r[i] = q[i]
  PROVE  r = Append(q, x)
<1>1. /\ Append(q, x) \in Seq(Nat) /\ Len(Append(q, x)) = Len(q) + 1
      /\ Append(q, x)[Len(q) + 1] = x /\ \A i \in 1 .. Len(q) : Append(q, x)[i] = q[i]
  BY AppendProperties
<1>2. \A i \in 1 .. Len(r) : r[i] = Append(q, x)[i]
  BY <1>1
<1> QED
  BY <1>1, <1>2, SeqEqual

(* A line that starts one slot later is the tail.                          *)
LEMMA LineTail ==
  ASSUME NEW q \in Seq(Nat), q # <<>>, NEW r \in Seq(Nat), Len(r) = Len(q) - 1,
         \A i \in 1 .. Len(r) : r[i] = q[i + 1]
  PROVE  r = Tail(q)
<1>1. /\ Tail(q) \in Seq(Nat) /\ Len(Tail(q)) = Len(q) - 1
      /\ \A i \in 1 .. Len(Tail(q)) : Tail(q)[i] = q[i + 1]
  BY HeadTailProperties
<1>2. \A i \in 1 .. Len(r) : r[i] = Tail(q)[i]
  BY <1>1
<1> QED
  BY <1>1, <1>2, SeqEqual

(* The queue's line, before and after a step.                              *)
Queue == Line(items, first, count)

LEMMA QueueLine ==
  ASSUME Slots
  PROVE  /\ Queue \in Seq(Nat) /\ Len(Queue) = count /\ count \in Nat /\ first \in Nat
         /\ \A i \in 1 .. count : Queue[i] = items[first + i - 1]
<1>1. first \in Nat /\ count \in Nat /\ \A i \in first .. first + count - 1 : items[i] \in Nat
  BY ChannelAssumption DEF Slots
<1> QED
  BY <1>1, LineSeq DEF Queue

LEMMA QueueLineAfter ==
  ASSUME Slots'
  PROVE  /\ Queue' \in Seq(Nat) /\ Len(Queue') = count' /\ count' \in Nat /\ first' \in Nat
         /\ \A i \in 1 .. count' : Queue'[i] = items'[first' + i - 1]
<1>1. /\ first' \in Nat /\ count' \in Nat /\ DOMAIN items' = first' .. first' + count' - 1
      /\ \A i \in DOMAIN items' : items'[i] \in Nat
  BY ChannelAssumption DEF Slots
<1>2. \A i \in first' .. first' + count' - 1 : items'[i] \in Nat
  BY <1>1
<1> QED
  BY <1>1, <1>2, LineSeq DEF Queue

(* push appends.                                                           *)
LEMMA PushLine ==
  ASSUME Slots, Slots', NEW item \in Nat, Push(item)
  PROVE  Queue' = Append(Queue, item)
<1>1. /\ first' = first /\ count' = count + 1
      /\ items'[first + count] = item
      /\ \A i \in first .. first + count - 1 : items'[i] = items[i]
  BY DEF Push, Set, Slots
<1>2. Queue'[count + 1] = item
  <2>1. first' + (count + 1) - 1 = first + count /\ count + 1 \in 1 .. count'
    BY <1>1, QueueLine
  <2> QED
    BY <1>1, <2>1, QueueLineAfter
<1>3. ASSUME NEW i \in 1 .. count PROVE Queue'[i] = Queue[i]
  <2>1. /\ first' + i - 1 = first + i - 1 /\ i \in 1 .. count'
        /\ first + i - 1 \in first .. first + count - 1
    BY <1>1, QueueLine
  <2> QED
    BY <1>1, <2>1, QueueLine, QueueLineAfter
<1> QED
  BY <1>1, <1>2, <1>3, QueueLine, QueueLineAfter, LineAppend

(* pop takes the head.                                                     *)
LEMMA TakeLine ==
  ASSUME Slots, Slots', NEW t \in Task, Take(t)
  PROVE  Queue # <<>> /\ Queue' = Tail(Queue)
<1>1. /\ count > 0 /\ count' = count - 1
      /\ count' > 0 => first' = first + 1
      /\ \A i \in first + 1 .. first + count - 1 : items'[i] = items[i]
  BY ChannelAssumption DEF Take, Clear, FirstAfterPop, Slots
<1>2. ASSUME NEW i \in 1 .. count' PROVE Queue'[i] = Queue[i + 1]
  <2>1. /\ first' + i - 1 = first + i /\ first + (i + 1) - 1 = first + i /\ i + 1 \in 1 .. count
        /\ first + i \in first + 1 .. first + count - 1
    <3>1. first \in Nat /\ count \in Nat /\ first' \in Nat /\ count' \in Nat
      BY QueueLine, QueueLineAfter
    <3>2. i \in Nat /\ 1 <= i /\ i <= count' /\ first' = first + 1 /\ i + 1 <= count
      BY <1>1, <3>1
    <3> QED
      BY <3>1, <3>2
  <2>2. Queue'[i] = items'[first + i]
    BY <2>1, QueueLineAfter
  <2>3. Queue[i + 1] = items[first + i]
    BY <2>1, QueueLine
  <2> QED
    BY <1>1, <2>1, <2>2, <2>3
<1>3. Queue # <<>>
  BY <1>1, QueueLine
<1> QED
  BY <1>1, <1>2, <1>3, QueueLine, QueueLineAfter, LineTail

(* pop and push, of a queue that is full.                                  *)
LEMMA ReplaceLine ==
  ASSUME Slots, Slots', NEW item \in Nat, count >= capacity, Replace(item)
  PROVE  Queue' = Append(Tail(Queue), item)
<1>1. /\ count > 0 /\ count' = count
      /\ first' = IF count = 1 THEN 1 ELSE first + 1
      /\ items'[first' + count - 1] = item
      /\ \A i \in first + 1 .. first + count - 1 :
            i # first' + count - 1 => items'[i] = items[i]
  BY ChannelAssumption DEF Replace, Set, Clear, FirstAfterPop, Slots
<1>2. Queue'[count] = item
  BY <1>1, QueueLineAfter
<1>3. Queue # <<>>
  BY <1>1, QueueLine
<1>4. /\ Tail(Queue) \in Seq(Nat) /\ Len(Tail(Queue)) = count - 1
      /\ \A i \in 1 .. count - 1 : Tail(Queue)[i] = Queue[i + 1]
  BY <1>3, QueueLine, HeadTailProperties
<1>5. ASSUME NEW i \in 1 .. count - 1 PROVE Queue'[i] = Tail(Queue)[i]
  <2>1. /\ first' + i - 1 = first + i /\ first + (i + 1) - 1 = first + i
        /\ i + 1 \in 1 .. count /\ i \in 1 .. count'
        /\ first + i \in first + 1 .. first + count - 1 /\ first + i # first' + count - 1
    <3>1. first \in Nat /\ count \in Nat
      BY QueueLine
    <3>2. i \in Nat /\ 1 <= i /\ i + 1 <= count /\ count' = count /\ first' = first + 1
      BY <1>1, <3>1
    <3> QED
      BY <3>1, <3>2
  <2>2. Queue'[i] = items'[first + i]
    BY <2>1, QueueLineAfter
  <2>3. Queue[i + 1] = items[first + i]
    BY <2>1, QueueLine
  <2> QED
    BY <1>1, <1>4, <2>1, <2>2, <2>3
<1>6. Len(Tail(Queue)) + 1 = count /\ Len(Queue') = count /\ Queue' \in Seq(Nat)
  BY <1>1, <1>4, QueueLine, QueueLineAfter
<1> QED
  BY <1>2, <1>4, <1>5, <1>6, LineAppend

(* Channel.new makes an empty abstract queue.                              *)
LEMMA AbstractInit == ChannelInit => Abstract!Init
<1> SUFFICES ASSUME ChannelInit PROVE Abstract!Init
  OBVIOUS
<1>1. [i \in 1 .. count |-> items[first + i - 1]] = <<>>
  BY DEF ChannelInit
<1> QED
  BY <1>1, ChannelAssumption DEF ChannelInit, Abstract!Init, Overflow

(* What a step of the queue is to the abstract one.                        *)
LEMMA OfferAbstract ==
  ASSUME Slots, Slots', NEW item \in 1 .. MaxSends, Offer(item)
  PROVE  [Abstract!Next]_(Abstract!vars)
<1> USE DEF Abstract!Next, Abstract!vars
<1>1. /\ Queue = [i \in 1 .. count |-> items[first + i - 1]]
      /\ Queue' = [i \in 1 .. count |-> items[first + i - 1]]'
  BY DEF Queue, Line
<1>2. Len(Queue) = count /\ UNCHANGED <<capacity, overflow>> /\ item \in Nat
  BY QueueLine, ChannelAssumption DEF Offer, options
<1>3. CASE ~is_closed /\ count < capacity /\ Push(item)
  <2>1. Abstract!Put(item)
    BY <1>1, <1>2, <1>3, PushLine DEF Abstract!Put, Abstract!Room, Push
  <2> QED
    BY <1>2, <2>1
<1>4. CASE ~is_closed /\ count >= capacity /\ overflow = "drop_oldest" /\ Replace(item)
  <2>1. ~(count < capacity)
    BY <1>4, ChannelAssumption DEF Slots
  <2>2. Abstract!Overflows(item)
    BY <1>1, <1>2, <1>4, <2>1, ReplaceLine DEF Abstract!Overflows, Abstract!Room, Replace
  <2> QED
    BY <1>2, <2>2
<1>5. CASE /\ ~is_closed /\ count >= capacity /\ overflow = "drop_newest"
           /\ drops' = drops + 1 /\ UNCHANGED <<items, first, count, is_closed>>
  <2>1. ~(count < capacity)
    BY <1>5, ChannelAssumption DEF Slots
  <2>2. Abstract!Overflows(item)
    BY <1>1, <1>2, <1>5, <2>1 DEF Abstract!Overflows, Abstract!Room
  <2> QED
    BY <1>2, <2>2
<1>6. CASE ~is_closed /\ CloseQueue
  <2>1. Abstract!Close
    BY <1>6 DEF CloseQueue, Abstract!Close
  <2> QED
    BY <1>2, <2>1
<1>7. CASE UNCHANGED fields
  BY <1>2, <1>7 DEF fields
<1> QED
  BY <1>3, <1>4, <1>5, <1>6, <1>7 DEF Offer

LEMMA AbstractStep ==
  ASSUME Slots, Slots', Calls, [ChannelNext]_allvars
  PROVE  [Abstract!Next]_(Abstract!vars)
<1> USE DEF Abstract!Next, Abstract!vars
<1>1. UNCHANGED <<fields, options>> => UNCHANGED Abstract!vars
  BY DEF fields, options
<1>2. UNCHANGED queue => UNCHANGED <<fields, options>>
  BY DEF queue
<1>3. CASE TrySend
  <2>1. sent' \in 1 .. MaxSends
    BY <1>3, ChannelAssumption DEF TrySend, Calls
  <2> QED
    BY <1>1, <1>2, <1>3, <2>1, OfferAbstract DEF TrySend
<1>4. CASE Close
  <2>1. Abstract!Close /\ UNCHANGED <<capacity, overflow>>
    BY <1>4 DEF Close, CloseQueue, Abstract!Close, options
  <2> QED
    BY <2>1
<1>5. ASSUME NEW t \in Task, SendStep(t) PROVE [Abstract!Next]_(Abstract!vars)
  <2>1. op[t].item \in 1 .. MaxSends
    BY <1>5 DEF SendStep, Does, Calls
  <2> QED
    BY <1>1, <1>2, <1>5, <2>1, OfferAbstract DEF SendStep
<1>6. ASSUME NEW t \in Task, ReceiveStep(t) PROVE [Abstract!Next]_(Abstract!vars)
  <2>1. CASE Take(t)
    <3>1. /\ Queue = [i \in 1 .. count |-> items[first + i - 1]]
          /\ Queue' = [i \in 1 .. count |-> items[first + i - 1]]'
      BY DEF Queue, Line
    <3>2. Abstract!Take /\ UNCHANGED <<capacity, overflow>>
      BY <2>1, <3>1, TakeLine DEF Take, Abstract!Take, options
    <3> QED
      BY <3>2
  <2> QED
    BY <1>1, <1>2, <1>6, <2>1 DEF ReceiveStep
<1>7. CASE UNCHANGED <<fields, options>>
  BY <1>1, <1>7
<1>8. TrySend \/ Close \/ (\E t \in Task : SendStep(t) \/ ReceiveStep(t)) \/ UNCHANGED <<fields, options>>
  BY <1>2 DEF ChannelNext, CloseRest, SendCall, ReceiveCall, KillStep, OutsideStep, LeaveStep,
              ResumeStep, LoopStep, ClockStep, allvars, queue
<1> QED
  BY <1>3, <1>4, <1>5, <1>6, <1>7, <1>8

LEMMA ChannelInitSlots == ChannelInit => IInv /\ Slots /\ Calls
<1> SUFFICES ASSUME ChannelInit PROVE IInv /\ Slots /\ Calls
  OBVIOUS
<1>1. IInv
  BY InitInv DEF ChannelInit
<1>2. DOMAIN items = {} /\ first .. first + count - 1 = {}
  BY DEF ChannelInit
<1>3. Slots
  <2>1. count \in 0 .. capacity /\ capacity \in Capacities /\ overflow \in Policies
    BY ChannelAssumption DEF ChannelInit
  <2>2. DOMAIN items = first .. first + count - 1 /\ \A i \in DOMAIN items : items[i] \in Nat
    BY <1>2, Zenon
  <2>3. first \in Nat \ {0} /\ drops \in Nat
    BY DEF ChannelInit
  <2>4. is_closed \in BOOLEAN /\ closing \in BOOLEAN
    BY Zenon DEF ChannelInit
  <2> QED
    BY <2>1, <2>2, <2>3, <2>4 DEF Slots
<1>4. Calls
  BY IdleIsOp, ChannelAssumption DEF ChannelInit, Calls
<1> QED
  BY <1>1, <1>3, <1>4

(* The scheduler's invariant and the slots hold of every run of a channel. *)
THEOREM ChannelInvariance == ChannelSpec => [](IInv /\ Slots /\ Calls)
<1>1. IInv /\ Slots /\ Calls /\ [ChannelNext]_allvars => (IInv /\ Slots /\ Calls)'
  BY ChannelNextPoll, SlotsStep DEF IInv, Calls
<1> QED
  BY <1>1, ChannelInitSlots, PTL DEF ChannelSpec

(* A channel is the bounded queue its documentation promises: items leave  *)
(* in the order they came, each once, and only overflow discards them.     *)
THEOREM ImplementsBoundedQueue == ChannelSpec => IsBoundedQueue
<1> DEFINE SI == IInv /\ Slots /\ Calls
<1>1. SI /\ SI' /\ [ChannelNext]_allvars => [Abstract!Next]_(Abstract!vars)
  BY AbstractStep
<1>2. ChannelSpec => []SI
  BY ChannelInvariance
<1> HIDE DEF SI
<1> QED
  BY <1>1, <1>2, AbstractInit, PTL DEF ChannelSpec, IsBoundedQueue, Abstract!Spec

-----------------------------------------------------------------------------
(***************************************************************************)
(* The notices on their way, and what a step of the scheduler does to      *)
(* them.                                                                   *)
(***************************************************************************)
LEMMA ToSetFinite ==
  ASSUME NEW S, NEW s \in Seq(S)
  PROVE  IsFiniteSet(ToSet(s))
<1>1. s \in Surjection(1 .. Len(s), ToSet(s))
  BY DEF Surjection, ToSet
<1>2. IsFiniteSet(1 .. Len(s))
  BY FS_Interval
<1> QED
  BY <1>1, <1>2, FS_Surjection

LEMMA NoticedFinite ==
  ASSUME TypeOK, NEW n
  PROVE  IsFiniteSet(Noticed(n)) /\ OnTheirWay(n) \in Nat
<1>1. IsFiniteSet(ToSet(ready)) /\ IsFiniteSet(ToSet(batch))
  BY ToSetFinite DEF TypeOK
<1>2. IsFiniteSet(ToSet(ready) \cup ToSet(batch))
  BY <1>1, FS_Union
<1>3. Noticed(n) \in SUBSET (ToSet(ready) \cup ToSet(batch))
  BY DEF Noticed
<1> QED
  BY <1>2, <1>3, FS_Subset, FS_CardinalityType DEF OnTheirWay

(* A wake that carries no notice is queued.                                *)
LEMMA QuietAppend ==
  ASSUME TypeOK, NEW t \in Task, NEW a \in Answers, UNCHANGED batch,
         ready' = Append(ready, WakeOf(t, a, None)), NEW n \in Notifier
  PROVE  Noticed(n)' = Noticed(n)
<1>1. WakeOf(t, a, None) \in Wake /\ WakeOf(t, a, None).notice = None
  BY DEF WakeOf, Wake
<1>2. ToSet(ready') = ToSet(ready) \cup {WakeOf(t, a, None)}
  BY <1>1, AppendWake DEF TypeOK
<1> QED
  BY <1>1, <1>2, NoneAssumption DEF Noticed

LEMMA QuietAnswerAll ==
  ASSUME TypeOK, NEW q \in Seq(Task), NEW a \in Answers, UNCHANGED batch,
         AnswerAll(q, a, None), NEW n \in Notifier
  PROVE  Noticed(n)' = Noticed(n)
<1> DEFINE r == WakesOf(q, a, None)
<1>1. r \in Seq(Wake) /\ \A w \in ToSet(r) : w.notice = None
  BY WakesOfList
<1>2. ready' = ready \o r
  BY DEF AnswerAll, WakesOf
<1> HIDE DEF r
<1>3. ToSet(ready') = ToSet(ready) \cup ToSet(r)
  BY <1>1, <1>2, ConcatWakes DEF TypeOK
<1> QED
  BY <1>1, <1>3, NoneAssumption DEF Noticed

(* A notice of n is given to the waiter longest in it, if there is one: W  *)
(* is what is queued otherwise.                                            *)
HandedOn(n, W) ==
  /\ parked' \subseteq parked
  /\ \A m \in Notifier \ {n} :
       Noticed(m)' = {w \in W : w.notice = m} /\ waiters'[m] = waiters[m]
  /\ waiters[n] = <<>> =>
       waiters'[n] = <<>> /\ Noticed(n)' = {w \in W : w.notice = n}
  /\ waiters[n] # <<>> =>
       \E w \in Wake \ W :
          /\ w.task \in parked /\ wait[w.task].gate = n /\ w.answer = "ok" /\ w.notice = n
          /\ Noticed(n)' = {v \in W : v.notice = n} \cup {w}

LEMMA HandOnNotices ==
  ASSUME TypeOK, ListsExact, NEW n \in Notifier, NEW q \in Seq(Wake), HandOn(n, q),
         NEW W, W = ToSet(q) \cup ToSet(batch'),
         \A w \in W : w.task \notin parked
  PROVE  HandedOn(n, W)
<1>1. waiters[n] \in Seq(Task) /\ IsInjective(waiters[n])
      /\ ToSet(waiters[n]) = {t \in parked : wait[t].gate = n}
  BY DEF TypeOK, ListsExact
<1>2. CASE waiters[n] = <<>>
  BY <1>2 DEF HandOn, HandedOn, Noticed
<1>3. CASE waiters[n] # <<>>
  <2> DEFINE w == WakeOf(Head(waiters[n]), "ok", n)
  <2>1. Head(waiters[n]) \in Task /\ Head(waiters[n]) \in ToSet(waiters[n])
    BY <1>1, <1>3, TailTask
  <2>2. /\ w \in Wake /\ w.task = Head(waiters[n]) /\ w.answer = "ok" /\ w.notice = n
    BY <2>1 DEF WakeOf, Wake, Answers
  <2>3. /\ ready' = Append(q, w) /\ parked' \subseteq parked
        /\ waiters' = [waiters EXCEPT ![n] = Tail(@)]
    BY <1>3 DEF HandOn
  <2> HIDE DEF w
  <2>4. ToSet(ready') = ToSet(q) \cup {w}
    BY <2>2, <2>3, AppendWake
  <2>5. \A m : Noticed(m)' = {v \in W \cup {w} : v.notice = m}
    BY <2>4 DEF Noticed
  <2>6. w \in Wake \ W /\ w.task \in parked /\ wait[w.task].gate = n
    BY <1>1, <2>1, <2>2
  <2>7. \A m \in Notifier \ {n} : Noticed(m)' = {v \in W : v.notice = m} /\ waiters'[m] = waiters[m]
    BY <2>2, <2>3, <2>5 DEF TypeOK
  <2>8. Noticed(n)' = {v \in W : v.notice = n} \cup {w}
    BY <2>2, <2>5
  <2> QED
    BY <1>3, <2>2, <2>3, <2>6, <2>7, <2>8 DEF HandedOn
<1> QED
  BY <1>2, <1>3

LEMMA NotifyOneNotices ==
  ASSUME IInv, NEW n \in Notifier, NotifyOne(n)
  PROVE  HandedOn(n, ToSet(ready) \cup ToSet(batch))
<1>1. \A w \in ToSet(ready) \cup ToSet(batch) : w.task \notin parked
  BY DEF IInv, OnePlace, Queued
<1>2. HandOn(n, ready) /\ batch' = batch /\ ready \in Seq(Wake)
  BY DEF NotifyOne, IInv, TypeOK
<1> QED
  BY <1>1, <1>2, HandOnNotices DEF IInv

(* A wake taken out of a queue, and no other.                              *)
LEMMA DropOne ==
  ASSUME NEW q \in Seq(Wake), NEW i \in DOMAIN q, Once(q)
  PROVE  ToSet(RemoveAt(q, i)) = ToSet(q) \ {q[i]}
<1>1. IsInjective(q)
  BY DEF Once, IsInjective
<1> QED
  BY <1>1, RemoveEntry

LEMMA TailOne ==
  ASSUME NEW q \in Seq(Wake), q # <<>>, Once(q)
  PROVE  Head(q) \in ToSet(q) /\ ToSet(Tail(q)) = ToSet(q) \ {Head(q)}
<1>1. IsInjective(q)
  BY DEF Once, IsInjective
<1> QED
  BY <1>1, TailEntry

-----------------------------------------------------------------------------
(***************************************************************************)
(* The inductive invariant of the notices.  An end of the queue is a       *)
(* notifier, with what its waiters want and the call that takes it.        *)
(* Served is NoItemForgotten and NoRoomForgotten in these words.  Used is  *)
(* what keeps a notice from being lost with its task: a notice is under    *)
(* way to a call of the kind that uses it, unless its task was killed, and *)
(* who waits at an end is in such a call.  Shut is ClosedFreesAll, halfway *)
(* through a close too.                                                    *)
(***************************************************************************)
Ends      == {NotEmpty, NotFull}
Wanted(n) == IF n = NotEmpty THEN count ELSE capacity - count
Taker(n)  == IF n = NotEmpty THEN "receive" ELSE "send"

Served ==
  \A n \in Ends : waiters[n] # <<>> => Wanted(n) <= OnTheirWay(n) + Acting(Taker(n))

Used ==
  \A n \in Ends :
     /\ \A w \in Noticed(n) :
          w.answer = "ok" /\ (w.task \in tasks \ killed => op[w.task].kind = Taker(n))
     /\ \A t \in parked : wait[t].gate = n => op[t].kind = Taker(n)

Shut ==
  /\ closing => is_closed
  /\ is_closed => waiters[NotEmpty] = <<>>
  /\ is_closed /\ ~closing => waiters[NotFull] = <<>>

NoticeInv == IInv /\ Slots /\ Calls /\ Served /\ Used /\ Shut

LEMMA NoticeInvTypes ==
  ASSUME NoticeInv
  PROVE  /\ TypeOK /\ OnePlace /\ ListsExact /\ Unstarted
         /\ Served /\ Used /\ Shut
         /\ count \in Nat /\ capacity \in Nat \ {0} /\ count <= capacity
         /\ \A n \in Ends : /\ n \in Notifier /\ Wanted(n) \in Int
                            /\ OnTheirWay(n) \in Nat /\ IsFiniteSet(Noticed(n))
         /\ \A kind : Acting(kind) \in {0, 1}
<1>1. TypeOK
  BY DEF NoticeInv, IInv
<1>2. count \in Nat /\ capacity \in Nat \ {0} /\ count <= capacity
  BY ChannelAssumption DEF NoticeInv, Slots
<1>3. \A n \in Ends : n \in Notifier /\ Wanted(n) \in Int
  BY <1>2, ChannelAssumption DEF Ends, Wanted
<1> QED
  BY <1>1, <1>2, <1>3, NoticedFinite DEF NoticeInv, IInv, Acting

(* The scheduler's steps that neither carry a notice nor spend one.        *)
LEMMA QuietStep ==
  ASSUME NoticeInv, UNCHANGED <<count, capacity, is_closed, closing>>,
         \A n \in Ends : /\ Noticed(n)' = Noticed(n)
                         /\ waiters'[n] # <<>> => waiters[n] # <<>>
                         /\ Acting(Taker(n))' = Acting(Taker(n)),
         parked' \subseteq parked,
         \A t \in parked' : wait'[t].gate = wait[t].gate /\ op'[t].kind = op[t].kind,
         \A n \in Ends : \A w \in Noticed(n) :
            w.task \in tasks' \ killed' =>
               w.task \in tasks \ killed /\ op'[w.task].kind = op[w.task].kind
  PROVE  Served' /\ Used' /\ Shut'
<1>1. Served'
  BY NoticeInvTypes DEF Served, OnTheirWay, Wanted
<1>2. Used'
  BY NoticeInvTypes DEF Used
<1>3. Shut'
  BY NoticeInvTypes DEF Shut, Ends
<1> QED
  BY <1>1, <1>2, <1>3

(* A wait that ends otherwise leaves no waiter behind it.                  *)
LEMMA FinishShrinks ==
  ASSUME TypeOK, NEW t \in parked, Finish(t), NEW n \in Notifier
  PROVE  waiters'[n] # <<>> => waiters[n] # <<>>
<1>1. Without(<<>>, t) = <<>>
  BY DEF Without, ToSet
<1> QED
  BY <1>1 DEF Finish, TypeOK

LEMMA CancelNotices ==
  ASSUME NoticeInv, NEW u \in Task, Cancel(u), UNCHANGED <<queue, op>>
  PROVE  Served' /\ Used' /\ Shut'
<1>1. UNCHANGED <<current, tasks, killed, wait, batch, count, capacity, is_closed, closing, op>>
  BY DEF Cancel, settled, queue, fields, options, waiting
<1>2. CASE Answer(u, "cancelled") /\ u \in parked
  <2>1. parked' \subseteq parked /\ \A n \in Ends : waiters'[n] # <<>> => waiters[n] # <<>>
    BY <1>2, NoticeInvTypes, FinishShrinks DEF Answer, Finish
  <2>2. \A n \in Ends : Noticed(n)' = Noticed(n)
    BY <1>1, <1>2, NoticeInvTypes, QuietAppend DEF Answer, Answers
  <2> QED
    BY <1>1, <2>1, <2>2, QuietStep DEF Acting
<1>3. CASE UNCHANGED <<waiting, ready>>
  BY <1>1, <1>3, QuietStep DEF Acting, waiting, Noticed
<1> QED
  BY <1>2, <1>3 DEF Cancel

LEMMA ExpireNotices ==
  ASSUME NoticeInv, ExpireOne, UNCHANGED <<queue, op>>
  PROVE  Served' /\ Used' /\ Shut'
<1>1. UNCHANGED <<current, tasks, killed, wait, batch, count, capacity, is_closed, closing, op>>
  BY DEF ExpireOne, settled, queue, fields, options
<1>2. PICK t \in Due : Answer(t, IF wait[t].kind = "delay" THEN "ok" ELSE "timeout")
  BY DEF ExpireOne
<1>3. t \in parked
  BY DEF Due, OnTimer
<1>4. parked' \subseteq parked /\ \A n \in Ends : waiters'[n] # <<>> => waiters[n] # <<>>
  BY <1>2, <1>3, NoticeInvTypes, FinishShrinks DEF Answer, Finish
<1>5. \A n \in Ends : Noticed(n)' = Noticed(n)
  <2>1. t \in Task /\ (IF wait[t].kind = "delay" THEN "ok" ELSE "timeout") \in Answers
    BY <1>3, NoticeInvTypes DEF TypeOK, Answers
  <2> QED
    BY <1>1, <1>2, <2>1, NoticeInvTypes, QuietAppend DEF Answer
<1> QED
  BY <1>1, <1>4, <1>5, QuietStep DEF Acting

LEMMA SpawnNotices ==
  ASSUME NoticeInv, NEW t \in Task, NEW u \in Task, Spawn(t, u), UNCHANGED <<queue, op>>
  PROVE  Served' /\ Used' /\ Shut'
<1>1. /\ UNCHANGED <<current, killed, wait, batch, parked, waiters, count, capacity, is_closed,
                     closing, op>>
      /\ ready' = Append(ready, WakeOf(u, "ok", None)) /\ tasks' = tasks \cup {u}
      /\ u \notin tasks \cup ended
  BY DEF Spawn, queue, fields, options, waiting
<1>2. \A n \in Ends : Noticed(n)' = Noticed(n)
  BY <1>1, NoticeInvTypes, QuietAppend DEF Answers
<1>3. \A n \in Ends : \A w \in Noticed(n) : w.task # u
  BY <1>1, NoticeInvTypes DEF Noticed, OnePlace, Unstarted, Queued, TypeOK
<1> QED
  BY <1>1, <1>2, <1>3, QuietStep DEF Acting

(* A task ends: who joined it is told so.                                  *)
LEMMA EndNotices ==
  ASSUME NoticeInv, NEW u \in tasks, NEW a \in Answers, End(u, a), UNCHANGED <<queue, op>>,
         UNCHANGED <<killed, wait, waiters, batch>>,
         \A n \in Ends : Acting(Taker(n))' = Acting(Taker(n))
  PROVE  Served' /\ Used' /\ Shut'
<1>1. UNCHANGED <<count, capacity, is_closed, closing, op>>
  BY DEF queue, fields, options
<1>2. /\ tasks' \subseteq tasks /\ parked' \subseteq parked
      /\ AnswerAll(joiners[u], a, None) /\ joiners[u] \in Seq(Task)
  BY NoticeInvTypes DEF End, AnswerAll, TypeOK
<1>3. \A n \in Ends : Noticed(n)' = Noticed(n)
  BY <1>2, NoticeInvTypes, QuietAnswerAll
<1> QED
  BY <1>1, <1>2, <1>3, QuietStep

LEMMA LeaveNotices ==
  ASSUME NoticeInv, LeaveStep
  PROVE  Served' /\ Used' /\ Shut'
<1>1. /\ Free /\ UNCHANGED <<queue, op>>
      /\ UNCHANGED <<count, capacity, is_closed, closing, op>>
  BY DEF LeaveStep, queue, fields, options
<1>2. killing = None => \A kind \in {"send", "receive"} : Acting(kind) = 0
  BY <1>1, IdleIsOp DEF Free, Actor, Acting
<1>3. \A n \in Ends : Taker(n) \in {"send", "receive"}
  BY DEF Taker
<1>4. ASSUME NEW t \in Task, Return(t) PROVE Served' /\ Used' /\ Shut'
  <2>1. t \in tasks /\ killing = None /\ current' = None
    BY <1>4, NoneAssumption, NoticeInvTypes DEF Return, Runs, OnePlace
  <2>2. \A n \in Ends : Acting(Taker(n))' = Acting(Taker(n))
    BY <1>2, <1>3, <2>1 DEF Acting
  <2> QED
    BY <1>1, <1>4, <2>1, <2>2, EndNotices DEF Return, Answers
<1>5. CASE KillEnd
  <2>1. killing \in tasks /\ current' = current
    BY <1>5, NoticeInvTypes DEF KillEnd, OnePlace
  <2>2. \A n \in Ends : Acting(Taker(n))' = Acting(Taker(n))
    BY <1>1, <2>1 DEF Acting
  <2> QED
    BY <1>1, <1>5, <2>1, <2>2, EndNotices DEF KillEnd, Answers
<1>6. ASSUME NEW t \in Task, NEW due \in Deadlines, Delay(t, due)
      PROVE  Served' /\ Used' /\ Shut'
  <2> DEFINE w == [NoWait EXCEPT !.kind = "delay", !.at = due]
  <2>1. w.gate = None /\ w.joined = None /\ [w EXCEPT !.at = None].gate = None
    BY DEF NoWait
  <2>2. Park(t, w)
    BY <1>6 DEF Delay
  <2> HIDE DEF w
  <2>3. /\ t = current /\ killing = None /\ current' = None /\ batch' = batch
        /\ waiters' = waiters /\ parked' \subseteq parked \cup {t}
        /\ UNCHANGED <<tasks, killed>>
        /\ \A u \in Task \ {t} : wait'[u] = wait[u]
        /\ wait'[t].gate = None
    BY <2>1, <2>2, NoticeInvTypes DEF Park, Runs, TypeOK, settled
  <2>4. \A n \in Ends : Noticed(n)' = Noticed(n)
    <3>1. CASE ready' = Append(ready, WakeOf(t, "cancelled", None))
      BY <2>3, <3>1, NoticeInvTypes, QuietAppend DEF Answers
    <3>2. CASE ready' = ready
      BY <2>3, <3>2 DEF Noticed
    <3> QED
      BY <2>2, <3>1, <3>2 DEF Park
  <2>5. \A n \in Ends : Acting(Taker(n))' = Acting(Taker(n))
    BY <1>2, <1>3, <2>3 DEF Acting
  <2>6. Served'
    BY <1>1, <2>3, <2>4, <2>5, NoticeInvTypes DEF Served, OnTheirWay, Wanted
  <2>7. Used'
    <3>1. ASSUME NEW n \in Ends, NEW u \in parked', wait'[u].gate = n
          PROVE  op'[u].kind = Taker(n)
      <4>1. n \in Notifier /\ parked \subseteq Task
        BY NoticeInvTypes DEF TypeOK
      <4>2. u # t
        BY <2>3, <3>1, <4>1, NoneAssumption
      <4>3. u \in parked /\ wait[u].gate = n
        BY <2>3, <3>1, <4>1, <4>2
      <4> QED
        BY <1>1, <4>3, NoticeInvTypes DEF Used
    <3> QED
      BY <1>1, <2>3, <2>4, <3>1, NoticeInvTypes DEF Used
  <2>8. Shut'
    BY <1>1, <2>3, NoticeInvTypes DEF Shut
  <2> QED
    BY <2>6, <2>7, <2>8
<1> QED
  BY <1>4, <1>5, <1>6 DEF LeaveStep

(* A wake is taken out of the queues, its task killed, and the notice it   *)
(* carried handed on.                                                      *)
LEMMA HandedOnServed ==
  ASSUME NoticeInv, UNCHANGED <<count, capacity>>, NEW h \in ToSet(ready) \cup ToSet(batch),
         NEW n \in Notifier, h.notice = n,
         HandedOn(n, (ToSet(ready) \cup ToSet(batch)) \ {h}),
         \A m \in Ends : Acting(Taker(m))' = Acting(Taker(m))
  PROVE  Served'
<1> DEFINE W == (ToSet(ready) \cup ToSet(batch)) \ {h}
<1>1. SUFFICES ASSUME NEW m \in Ends, waiters'[m] # <<>>
               PROVE  /\ waiters[m] # <<>>
                      /\ Cardinality(Noticed(m)') = Cardinality(Noticed(m))
  BY NoticeInvTypes DEF Served, OnTheirWay, Wanted
<1>2. m \in Notifier /\ IsFiniteSet(Noticed(m))
  BY NoticeInvTypes
<1>3. CASE m # n
  <2>1. Noticed(m)' = {w \in W : w.notice = m} /\ waiters'[m] = waiters[m]
    BY <1>2, <1>3 DEF HandedOn
  <2>2. Noticed(m)' = Noticed(m)
    BY <1>3, <2>1 DEF Noticed
  <2> QED
    BY <1>1, <2>1, <2>2
<1>4. CASE m = n
  <2>1. waiters[n] # <<>>
    BY <1>1, <1>4 DEF HandedOn
  <2>2. PICK w \in Wake \ W : w.notice = n /\ Noticed(n)' = {v \in W : v.notice = n} \cup {w}
    BY <2>1 DEF HandedOn
  <2>3. {v \in W : v.notice = n} = Noticed(n) \ {h} /\ h \in Noticed(n)
    BY DEF Noticed
  <2>4. w \notin Noticed(n) \ {h}
    BY <2>2, <2>3
  <2>5. /\ IsFiniteSet(Noticed(n) \ {h}) /\ Cardinality(Noticed(n)) \in Nat
        /\ Cardinality(Noticed(n) \ {h}) = Cardinality(Noticed(n)) - 1
    BY <1>2, <1>4, <2>3, FS_RemoveElement, FS_CardinalityType
  <2>6. Cardinality((Noticed(n) \ {h}) \cup {w}) = Cardinality(Noticed(n) \ {h}) + 1
    BY <2>4, <2>5, FS_AddElement
  <2>7. Noticed(n)' = (Noticed(n) \ {h}) \cup {w}
    BY <2>2, <2>3
  <2>8. Cardinality(Noticed(n)') = Cardinality(Noticed(n))
    BY <2>5, <2>6, <2>7
  <2> QED
    BY <1>4, <2>1, <2>8
<1> QED
  BY <1>3, <1>4

LEMMA HandedOnUsed ==
  ASSUME NoticeInv, NEW W, W \subseteq ToSet(ready) \cup ToSet(batch),
         NEW n \in Notifier, HandedOn(n, W),
         \A t \in parked' : wait'[t].gate = wait[t].gate /\ op'[t].kind = op[t].kind,
         \A w \in W : w.task \in tasks' \ killed' =>
             w.task \in tasks \ killed /\ op'[w.task].kind = op[w.task].kind,
         \A t \in parked : op'[t].kind = op[t].kind
  PROVE  Used'
<1>1. SUFFICES ASSUME NEW m \in Ends, NEW w \in Noticed(m)'
               PROVE  w.answer = "ok" /\ (w.task \in tasks' \ killed' => op'[w.task].kind = Taker(m))
  BY NoticeInvTypes DEF Used, HandedOn
<1>2. CASE w \in W /\ w.notice = m
  BY <1>2, NoticeInvTypes DEF Used, Noticed
<1>3. CASE w \notin W \/ w.notice # m
  <2>1. m \in Notifier
    BY NoticeInvTypes
  <2>2. m = n /\ waiters[n] # <<>>
    BY <1>1, <1>3, <2>1 DEF HandedOn
  <2>3. w.task \in parked /\ wait[w.task].gate = m /\ w.answer = "ok"
    BY <1>1, <1>3, <2>2 DEF HandedOn
  <2> QED
    BY <2>3, NoticeInvTypes DEF Used
<1> QED
  BY <1>2, <1>3

LEMMA HandedOnShut ==
  ASSUME NoticeInv, UNCHANGED <<is_closed, closing>>, NEW n \in Notifier, NEW W, HandedOn(n, W)
  PROVE  Shut'
BY NoticeInvTypes DEF Shut, HandedOn, Ends

LEMMA KillNotices ==
  ASSUME NoticeInv, NEW t \in Task, NEW u \in Task, KillStep(t, u)
  PROVE  Served' /\ Used' /\ Shut'
<1>1. /\ UNCHANGED <<count, capacity, is_closed, closing>>
      /\ op' = [op EXCEPT ![u] = Idle] /\ op \in [Task -> Op]
  BY DEF KillStep, queue, fields, options, NoticeInv, Calls
<1>2. /\ t = current /\ u # current /\ killing = None
      /\ UNCHANGED <<current, tasks, batch>> /\ killed' = killed \cup {u}
      /\ wait' = [wait EXCEPT ![u] = NoWait] /\ wait \in [Task -> Wait]
  <2>1. /\ t = current /\ killing = None /\ (u # t \/ u \in parked)
        /\ UNCHANGED <<current, tasks, batch>> /\ killed' = killed \cup {u}
        /\ wait' = [wait EXCEPT ![u] = NoWait]
    BY DEF KillStep, KillParked, KillReady, KillInBatch, Runs, queues
  <2>2. current \notin parked /\ wait \in [Task -> Wait]
    BY <2>1, NoneAssumption, NoticeInvTypes DEF OnePlace, TypeOK
  <2> QED
    BY <2>1, <2>2
<1>3. \A kind : Acting(kind)' = Acting(kind)
  BY <1>1, <1>2, NoticeInvTypes DEF Acting, TypeOK
<1>4. parked \subseteq Task /\ \A v \in Task \ {u} : wait'[v] = wait[v] /\ op'[v] = op[v]
  BY <1>1, <1>2, NoticeInvTypes DEF TypeOK
<1>5. \A n \in Ends : \A w \in Noticed(n) : w \in Wake /\ w.task \in Task
  <2>1. \A w \in ToSet(ready) \cup ToSet(batch) : w \in Wake
    BY NoticeInvTypes DEF TypeOK, ToSet
  <2> QED
    BY <2>1 DEF Noticed, Wake
<1>6. CASE KillParked(t, u)
  <2>1. /\ u \in parked /\ parked' = parked \ {u} /\ ready' = ready
        /\ \A n \in Ends : waiters'[n] # <<>> => waiters[n] # <<>>
    BY <1>6, NoticeInvTypes, FinishShrinks DEF KillParked, Finish, queues
  <2> QED
    BY <1>1, <1>2, <1>3, <1>4, <1>5, <2>1, QuietStep DEF Noticed
<1>7. CASE KillInBatch(t, u)
  <2>1. /\ Queued(batch, u) /\ UNCHANGED <<parked, ready, waiters>>
    BY <1>7 DEF KillInBatch, queues
  <2>2. u \notin parked
    BY <2>1, NoticeInvTypes DEF OnePlace
  <2> QED
    BY <1>1, <1>2, <1>3, <1>4, <1>5, <2>1, <2>2, QuietStep DEF Noticed
<1>8. CASE KillReady(t, u)
  <2>1. PICK i \in DOMAIN ready :
          /\ ready[i].task = u
          /\ IF ready[i].notice = None
             THEN ready' = RemoveAt(ready, i) /\ UNCHANGED <<parked, before, waiters>>
             ELSE HandOn(ready[i].notice, RemoveAt(ready, i))
    BY <1>8 DEF KillReady
  <2> DEFINE h == ready[i]
             W == (ToSet(ready) \cup ToSet(batch)) \ {h}
  <2>2. ready \in Seq(Wake) /\ Once(ready) /\ h \in Wake /\ h \in ToSet(ready) /\ h.task = u
    BY <2>1, NoticeInvTypes DEF TypeOK, OnePlace, ToSet
  <2>3. RemoveAt(ready, i) \in Seq(Wake) /\ ToSet(RemoveAt(ready, i)) = ToSet(ready) \ {h}
    BY <2>2, DropOne, DropWake
  <2>4. u \notin parked /\ h \notin ToSet(batch)
    BY <2>1, <2>2, NoticeInvTypes DEF OnePlace, Queued
  <2>5. W = ToSet(RemoveAt(ready, i)) \cup ToSet(batch')
    BY <1>2, <2>3, <2>4
  <2>6. \A w \in ToSet(ready) \cup ToSet(batch) : w \in Wake /\ w.task \in Task /\ w.task \notin parked
    <3>1. \A w \in ToSet(ready) \cup ToSet(batch) : w \in Wake /\ w.task \notin parked
      BY NoticeInvTypes DEF OnePlace, Queued, TypeOK, ToSet
    <3> QED
      BY <3>1 DEF Wake
  <2> HIDE DEF h
  <2>7. CASE h.notice = None
    <3>1. ready' = RemoveAt(ready, i) /\ UNCHANGED <<parked, waiters>>
      BY <2>1, <2>7 DEF h
    <3>2. \A n \in Ends : Noticed(n)' = Noticed(n)
      BY <2>5, <2>7, <3>1, NoneAssumption, NoticeInvTypes DEF Noticed
    <3> QED
      BY <1>1, <1>2, <1>3, <1>4, <1>5, <2>4, <3>1, <3>2, QuietStep
  <2>8. CASE h.notice # None
    <3>1. h.notice \in Notifier /\ HandOn(h.notice, RemoveAt(ready, i))
      BY <2>1, <2>2, <2>8 DEF h, Wake
    <3>2. HandedOn(h.notice, W)
      BY <2>3, <2>5, <2>6, <3>1, HandOnNotices, NoticeInvTypes
    <3>3. Served'
      BY <1>1, <1>3, <2>2, <3>1, <3>2, HandedOnServed
    <3>4. parked' \subseteq parked
      BY <3>2 DEF HandedOn
    <3>5. Used'
      <4>1. \A v \in parked : v # u /\ op'[v] = op[v] /\ wait'[v] = wait[v]
        BY <1>4, <2>4
      <4>2. \A w \in W : w.task \in tasks' \ killed' =>
              w.task \in tasks \ killed /\ op'[w.task] = op[w.task]
        BY <1>2, <1>4, <2>6
      <4> QED
        BY <3>1, <3>2, <3>4, <4>1, <4>2, HandedOnUsed
    <3>6. Shut'
      BY <1>1, <3>1, <3>2, HandedOnShut
    <3> QED
      BY <3>3, <3>5, <3>6
  <2> QED
    BY <2>7, <2>8
<1> QED
  BY <1>6, <1>7, <1>8 DEF KillStep

(* A woken task goes on with its call.                                     *)
LEMMA ResumeNotices ==
  ASSUME NoticeInv, ResumeStep
  PROVE  Served' /\ Used' /\ Shut'
<1> DEFINE h == Head(batch)
<1>1. /\ UNCHANGED <<count, capacity, is_closed, closing, tasks, killed, parked, waiters, ready>>
      /\ op' = (IF h.answer = "ok" THEN op ELSE [op EXCEPT ![h.task] = Idle])
      /\ op \in [Task -> Op] /\ current = None /\ current' = h.task /\ h.task \notin ended
      /\ batch # <<>> /\ batch' = Tail(batch)
      /\ wait' = [wait EXCEPT ![h.task] = NoWait] /\ wait \in [Task -> Wait]
  BY NoticeInvTypes DEF ResumeStep, Resume, LoopRuns, queue, fields, options, settled, NoticeInv,
       Calls, TypeOK
<1>2. /\ batch \in Seq(Wake) /\ Once(batch) /\ h \in Wake /\ h \in ToSet(batch)
      /\ ToSet(batch') = ToSet(batch) \ {h}
      /\ \A w \in ToSet(batch') : w.task # h.task
  <2>1. batch \in Seq(Wake) /\ Once(batch)
    BY NoticeInvTypes DEF TypeOK, OnePlace
  <2>2. \A v : Queued(Tail(batch), v) <=> Queued(batch, v) /\ v # h.task
    BY <1>1, <2>1, TailWake
  <2> QED
    BY <1>1, <2>1, <2>2, TailWake, TailOne DEF Queued
<1> HIDE DEF h
<1>3. /\ h.task \in Task /\ h.task \notin parked /\ h.task # None
      /\ \A w \in ToSet(ready) : w.task # h.task
  BY <1>2, NoneAssumption, NoticeInvTypes DEF Wake, OnePlace, Queued
<1>4. h.task \in tasks \ killed
  <2>1. h.task \in tasks
    BY <1>1, <1>2, <1>3, NoticeInvTypes DEF Unstarted, Queued
  <2>2. killing = None
    BY <1>1, NoticeInvTypes DEF OnePlace
  <2> QED
    BY <1>3, <2>1, <2>2, NoticeInvTypes DEF OnePlace
<1>5. \A n : Noticed(n)' = Noticed(n) \ {h}
  BY <1>1, <1>2, <1>3 DEF Noticed
<1>6. \A kind : Acting(kind) = 0
  BY <1>1 DEF Acting
<1>7. \A n \in Ends : \A w \in Noticed(n) : w \in Wake /\ w.task \in Task
  <2>1. \A w \in ToSet(ready) \cup ToSet(batch) : w \in Wake
    BY NoticeInvTypes DEF TypeOK, ToSet
  <2> QED
    BY <2>1 DEF Noticed, Wake
<1>8. Served'
  <2>1. SUFFICES ASSUME NEW n \in Ends, waiters[n] # <<>>
                 PROVE  Wanted(n) <= Cardinality(Noticed(n)') + Acting(Taker(n))'
    BY <1>1 DEF Served, OnTheirWay, Wanted
  <2>2. /\ Wanted(n) <= Cardinality(Noticed(n)) /\ Wanted(n) \in Int
        /\ Cardinality(Noticed(n)) \in Nat /\ IsFiniteSet(Noticed(n))
    BY <1>6, <2>1, NoticeInvTypes DEF Served, OnTheirWay
  <2>3. CASE h \in Noticed(n)
    <3>1. h.answer = "ok" /\ op[h.task].kind = Taker(n)
      BY <1>4, <2>3, NoticeInvTypes DEF Used
    <3>2. Acting(Taker(n))' = 1
      BY <1>1, <1>3, <3>1 DEF Acting
    <3>3. Cardinality(Noticed(n) \ {h}) = Cardinality(Noticed(n)) - 1
      BY <2>2, <2>3, FS_RemoveElement
    <3>4. Cardinality(Noticed(n)') = Cardinality(Noticed(n)) - 1
      BY <1>5, <3>3
    <3> QED
      BY <2>2, <3>2, <3>4
  <2>4. CASE h \notin Noticed(n)
    <3>1. Noticed(n)' = Noticed(n)
      BY <1>5, <2>4
    <3>2. Acting(Taker(n))' \in {0, 1}
      BY DEF Acting
    <3> QED
      BY <2>2, <3>1, <3>2
  <2> QED
    BY <2>3, <2>4
<1>9. Used'
  <2>1. \A v \in Task \ {h.task} : op'[v] = op[v] /\ wait'[v] = wait[v]
    BY <1>1
  <2>2. \A n \in Ends : \A w \in Noticed(n)' : w \in Noticed(n) /\ w.task # h.task
    BY <1>1, <1>2, <1>3, <1>5 DEF Noticed
  <2>3. parked \subseteq Task \ {h.task}
    BY <1>3, NoticeInvTypes DEF TypeOK
  <2> QED
    BY <1>1, <1>7, <2>1, <2>2, <2>3, NoticeInvTypes DEF Used
<1>10. Shut'
  BY <1>1, NoticeInvTypes DEF Shut
<1> QED
  BY <1>8, <1>9, <1>10

(* The loop passes by a killed task's wake, and hands its notice on.       *)
LEMMA PassByNotices ==
  ASSUME NoticeInv, PassBy, UNCHANGED <<queue, op>>
  PROVE  Served' /\ Used' /\ Shut'
<1> DEFINE h == Head(batch)
           W == (ToSet(ready) \cup ToSet(batch)) \ {h}
<1>1. /\ UNCHANGED <<count, capacity, is_closed, closing, op, current, tasks, killed, wait>>
      /\ batch # <<>> /\ batch' = Tail(batch)
      /\ IF h.notice = None THEN UNCHANGED <<parked, before, waiters, ready>>
         ELSE HandOn(h.notice, ready)
  BY DEF PassBy, queue, fields, options, settled
<1>2. batch \in Seq(Wake) /\ Once(batch) /\ ready \in Seq(Wake)
  BY NoticeInvTypes DEF TypeOK, OnePlace
<1>3. h \in Wake /\ h \in ToSet(batch) /\ ToSet(batch') = ToSet(batch) \ {h}
  BY <1>1, <1>2, TailWake, TailOne
<1> HIDE DEF h
<1>4. h \notin ToSet(ready)
  BY <1>3, NoticeInvTypes DEF OnePlace, Queued, Wake
<1>5. W = ToSet(ready) \cup ToSet(batch')
  BY <1>3, <1>4
<1>6. \A w \in ToSet(ready) \cup ToSet(batch) : w.task \notin parked
  BY NoticeInvTypes DEF OnePlace, Queued
<1>7. \A n \in Ends : Acting(Taker(n))' = Acting(Taker(n))
  BY <1>1 DEF Acting
<1>8. CASE h.notice = None
  <2>1. UNCHANGED <<parked, waiters, ready>>
    BY <1>1, <1>8
  <2>2. \A n \in Ends : Noticed(n)' = Noticed(n)
    BY <1>3, <1>5, <1>8, <2>1, NoneAssumption, NoticeInvTypes DEF Noticed
  <2> QED
    BY <1>1, <1>7, <2>1, <2>2, QuietStep
<1>9. CASE h.notice # None
  <2>1. h.notice \in Notifier /\ HandOn(h.notice, ready)
    BY <1>1, <1>3, <1>9 DEF Wake
  <2>2. HandedOn(h.notice, W)
    BY <1>2, <1>5, <1>6, <2>1, HandOnNotices, NoticeInvTypes
  <2>3. Served'
    BY <1>1, <1>3, <1>7, <2>1, <2>2, HandedOnServed
  <2>4. Used'
    BY <1>1, <2>1, <2>2, HandedOnUsed
  <2>5. Shut'
    BY <1>1, <2>1, <2>2, HandedOnShut
  <2> QED
    BY <2>3, <2>4, <2>5
<1> QED
  BY <1>8, <1>9

LEMMA LoopNotices ==
  ASSUME NoticeInv, LoopStep
  PROVE  Served' /\ Used' /\ Shut'
<1>1. UNCHANGED <<queue, op>> /\ UNCHANGED <<count, capacity, is_closed, closing, op>>
  BY DEF LoopStep, queue, fields, options
<1>2. CASE RunReturns
  BY <1>1, <1>2, QuietStep DEF RunReturns, settled, waiting, queues, Noticed, Acting
<1>3. CASE PollOnce
  <2>0. PICK hits \in SUBSET OnFd : \E q \in InOrder(hits) : AnswerAll(q, "ok", None)
    BY <1>3 DEF PollOnce
  <2>1. PICK q \in InOrder(hits) : AnswerAll(q, "ok", None)
    BY <2>0
  <2>2. hits \in SUBSET parked
    BY DEF OnFd
  <2>3. q \in Seq(Task)
    BY <2>2, InOrderList, NoticeInvTypes DEF NoticeInv, IInv
  <2>4. /\ UNCHANGED <<current, tasks, killed, wait, waiters, batch>>
        /\ parked' \subseteq parked
    BY <1>3, <2>1 DEF PollOnce, settled, AnswerAll
  <2>5. \A n \in Ends : Noticed(n)' = Noticed(n)
    BY <2>1, <2>3, <2>4, QuietAnswerAll, NoticeInvTypes DEF Answers
  <2> QED
    BY <1>1, <2>4, <2>5, QuietStep DEF Acting
<1>4. CASE PollStuck
  <2>1. /\ \A n \in Ends : waiters'[n] = <<>>
        /\ parked' = {} /\ ready' = <<>> /\ batch' = <<>>
    BY <1>4, NoticeInvTypes DEF PollStuck, CloseAll
  <2>2. \A n : Noticed(n)' = {}
    BY <2>1 DEF Noticed, ToSet
  <2> QED
    BY <1>1, <2>1, <2>2, NoticeInvTypes DEF Served, Used, Shut, Ends
<1>5. CASE TakeBatch
  <2>1. /\ UNCHANGED <<current, tasks, killed, parked, wait, waiters>>
        /\ batch' = ready /\ ready' = <<>> /\ batch = <<>>
    BY <1>5, NoticeInvTypes DEF TakeBatch, LoopRuns, settled, waiting, NoticeInv, IInv, Shapes
  <2>2. \A n : Noticed(n)' = Noticed(n)
    BY <2>1 DEF Noticed, ToSet
  <2> QED
    BY <1>1, <2>1, <2>2, QuietStep DEF Acting
<1> QED
  BY <1>1, <1>2, <1>3, <1>4, <1>5, PassByNotices, ExpireNotices DEF LoopStep

(* A call finds nothing for it and waits.                                  *)
LEMMA WaitNotices ==
  ASSUME NoticeInv, NEW t \in Task, NEW n \in Ends, NotifierWait(t, n, op[t].at),
         op[t].kind = Taker(n), Wanted(n) <= 0, ~is_closed, UNCHANGED <<queue, op>>
  PROVE  Served' /\ Used' /\ Shut'
<1> DEFINE w == [NoWait EXCEPT !.kind = "notice", !.gate = n, !.at = op[t].at]
<1>1. w.gate = n /\ [w EXCEPT !.at = None].gate = n
  BY DEF NoWait
<1>2. Park(t, w)
  BY DEF NotifierWait
<1> HIDE DEF w
<1>3. /\ t = current /\ current' = None /\ UNCHANGED <<batch, tasks, killed>>
      /\ UNCHANGED <<count, capacity, is_closed, closing, op>> /\ n \in Notifier
      /\ parked \subseteq Task
  BY <1>2, NoticeInvTypes DEF Park, Runs, settled, queue, fields, options, TypeOK
<1>4. /\ parked' \subseteq parked \cup {t} /\ \A u \in Task \ {t} : wait'[u] = wait[u]
      /\ wait'[t].gate = n
      /\ \A m \in Notifier \ {n} : waiters'[m] = waiters[m]
  BY <1>1, <1>2, <1>3, NoneAssumption, NoticeInvTypes DEF Park, TypeOK
<1>5. \A m \in Ends : Noticed(m)' = Noticed(m)
  <2>1. CASE ready' = Append(ready, WakeOf(t, "cancelled", None))
    BY <1>3, <2>1, NoticeInvTypes, QuietAppend DEF Answers
  <2>2. CASE ready' = ready
    BY <1>3, <2>2 DEF Noticed
  <2> QED
    BY <1>2, <2>1, <2>2 DEF Park
<1>6. Served'
  <2>1. SUFFICES ASSUME NEW m \in Ends, waiters'[m] # <<>>
                 PROVE  Wanted(m) <= Cardinality(Noticed(m))
    BY <1>3, <1>5, NoticeInvTypes DEF Served, OnTheirWay, Wanted, Acting
  <2>2. CASE m = n
    BY <2>2, NoticeInvTypes DEF OnTheirWay
  <2>3. CASE m # n
    <3>1. waiters[m] # <<>>
      BY <1>4, <2>1, <2>3, NoticeInvTypes
    <3>2. Acting(Taker(m)) = 0
      BY <1>3, <2>3, ChannelAssumption DEF Acting, Taker, Ends
    <3> QED
      BY <3>1, <3>2, NoticeInvTypes DEF Served, OnTheirWay
  <2> QED
    BY <2>2, <2>3
<1>7. Used'
  <2>1. ASSUME NEW m \in Ends, NEW u \in parked', wait'[u].gate = m
        PROVE  op'[u].kind = Taker(m)
    <3>1. CASE u = t
      BY <1>3, <1>4, <2>1, <3>1
    <3>2. CASE u # t
      BY <1>3, <1>4, <2>1, <3>2, NoticeInvTypes DEF Used
    <3> QED
      BY <3>1, <3>2
  <2> QED
    BY <1>3, <1>5, <2>1, NoticeInvTypes DEF Used
<1>8. Shut'
  BY <1>3, NoticeInvTypes DEF Shut
<1> QED
  BY <1>6, <1>7, <1>8

(***************************************************************************)
(* The calls.  A call that ends changes op for the running task alone,     *)
(* which is neither parked nor queued.                                     *)
(***************************************************************************)
Ending(n) ==
  \/ op' = op
  \/ current \in Task /\ op' = [op EXCEPT ![current] = Idle] /\ op[current].kind = Taker(n)

LEMMA OthersCalls ==
  ASSUME NoticeInv, NEW n, Ending(n)
  PROVE  /\ \A t \in parked : op'[t] = op[t]
         /\ \A w \in ToSet(ready) \cup ToSet(batch) : w \in Wake /\ op'[w.task] = op[w.task]
         /\ \A kind \in {"send", "receive"} :
              current' = current =>
                 IF kind = Taker(n) THEN Acting(kind) - 1 <= Acting(kind)'
                                    ELSE Acting(kind)' = Acting(kind)
<1>1. op \in [Task -> Op] /\ parked \subseteq Task
  BY NoticeInvTypes DEF NoticeInv, Calls, TypeOK
<1>2. \A w \in ToSet(ready) \cup ToSet(batch) : w \in Wake /\ w.task \in Task
  <2>1. \A w \in ToSet(ready) \cup ToSet(batch) : w \in Wake
    BY NoticeInvTypes DEF TypeOK, ToSet
  <2> QED
    BY <2>1 DEF Wake
<1>3. current \in Task => /\ current \notin parked
                          /\ \A w \in ToSet(ready) \cup ToSet(batch) : w.task # current
  BY NoneAssumption, NoticeInvTypes DEF OnePlace, Queued
<1> QED
  BY <1>1, <1>2, <1>3, IdleIsOp DEF Ending, Acting, Taker

(* One notice of n for one more thing at that end.                         *)
LEMMA NotifiedStep ==
  ASSUME NoticeInv, NEW n \in Ends, NotifyOne(n), count' \in Nat,
         UNCHANGED <<capacity, is_closed, closing>>,
         NEW m \in Ends, m # n, Ending(m), Wanted(n)' <= Wanted(n) + 1,
         Wanted(m)' <= 0 \/ Wanted(m)' <= Wanted(m) - 1
  PROVE  Served' /\ Used' /\ Shut'
<1> DEFINE W == ToSet(ready) \cup ToSet(batch)
<1>1. /\ HandedOn(n, W) /\ UNCHANGED <<current, tasks, killed, wait>>
      /\ n \in Notifier /\ m \in Notifier
  BY NotifyOneNotices, NoticeInvTypes DEF NoticeInv, NotifyOne, settled
<1>2. \A k : {w \in W : w.notice = k} = Noticed(k)
  BY DEF Noticed
<1>3. /\ Ends = {n, m} /\ Taker(n) \in {"send", "receive"} /\ Taker(m) \in {"send", "receive"}
      /\ Taker(n) # Taker(m)
  BY ChannelAssumption DEF Ends, Taker
<1>4. /\ Wanted(n) \in Int /\ Wanted(m) \in Int /\ Wanted(n)' \in Int /\ Wanted(m)' \in Int
      /\ Acting(Taker(m))' \in {0, 1} /\ Acting(Taker(m)) \in {0, 1} /\ Acting(Taker(n)) \in {0, 1}
  BY NoticeInvTypes DEF Wanted, Acting
<1>5. Acting(Taker(n))' = Acting(Taker(n)) /\ Acting(Taker(m)) - 1 <= Acting(Taker(m))'
  BY <1>1, <1>3, OthersCalls
<1>6. waiters'[n] # <<>> => Wanted(n)' <= Cardinality(Noticed(n)') + Acting(Taker(n))'
  <2>1. SUFFICES ASSUME waiters'[n] # <<>>
                 PROVE  Wanted(n)' <= Cardinality(Noticed(n)') + Acting(Taker(n))'
    OBVIOUS
  <2>2. waiters[n] # <<>>
    BY <1>1, <2>1 DEF HandedOn
  <2>3. PICK w \in Wake \ W : Noticed(n)' = Noticed(n) \cup {w}
    BY <1>1, <1>2, <2>2 DEF HandedOn
  <2>4. IsFiniteSet(Noticed(n)) /\ w \notin Noticed(n) /\ Cardinality(Noticed(n)) \in Nat
    BY <2>3, NoticeInvTypes DEF Noticed, OnTheirWay
  <2>5. Cardinality(Noticed(n) \cup {w}) = Cardinality(Noticed(n)) + 1
    BY <2>4, FS_AddElement
  <2>6. Cardinality(Noticed(n)') = Cardinality(Noticed(n)) + 1
    BY <2>3, <2>5
  <2>7. Wanted(n) <= Cardinality(Noticed(n)) + Acting(Taker(n))
    BY <2>2, NoticeInvTypes DEF Served, OnTheirWay
  <2> QED
    BY <1>4, <1>5, <2>4, <2>6, <2>7
<1>7. waiters'[m] # <<>> => Wanted(m)' <= Cardinality(Noticed(m)') + Acting(Taker(m))'
  <2>1. Noticed(m)' = Noticed(m) /\ waiters'[m] = waiters[m]
    BY <1>1, <1>2 DEF HandedOn
  <2>2. Cardinality(Noticed(m)) \in Nat
    BY NoticeInvTypes DEF OnTheirWay
  <2>3. waiters[m] # <<>> => Wanted(m) <= Cardinality(Noticed(m)) + Acting(Taker(m))
    BY NoticeInvTypes DEF Served, OnTheirWay
  <2>4. Cardinality(Noticed(m)') = Cardinality(Noticed(m))
    BY <2>1
  <2> QED
    BY <1>4, <1>5, <2>1, <2>2, <2>3, <2>4
<1>8. Served'
  BY <1>3, <1>6, <1>7 DEF Served, OnTheirWay
<1>9. Used'
  <2>1. parked' \subseteq parked
    BY <1>1 DEF HandedOn
  <2> QED
    BY <1>1, <2>1, OthersCalls, HandedOnUsed
<1>10. Shut'
  BY <1>1, HandedOnShut
<1> QED
  BY <1>8, <1>9, <1>10

(* A call ends, or closes the queue, and takes no notice of n with it that *)
(* another waits for.                                                      *)
LEMMA EndedStep ==
  ASSUME NoticeInv, NEW n \in Ends, Ending(n),
         UNCHANGED <<count, capacity, current, tasks, killed, wait>>, parked' \subseteq parked,
         \A k \in Ends : Noticed(k)' = Noticed(k) /\ (waiters'[k] # <<>> => waiters[k] # <<>>),
         op' = op \/ waiters'[n] = <<>> \/ Wanted(n) <= 0
  PROVE  Served' /\ Used'
<1>1. \A k \in Ends : /\ Taker(k) \in {"send", "receive"} /\ Wanted(k)' = Wanted(k)
                      /\ Acting(Taker(k))' \in {0, 1}
                      /\ k # n => Taker(k) # Taker(n)
  BY ChannelAssumption DEF Ends, Taker, Wanted, Acting
<1>2. \A k \in Ends : k # n => Acting(Taker(k))' = Acting(Taker(k))
  BY <1>1, OthersCalls
<1>3. op' = op => Acting(Taker(n))' = Acting(Taker(n))
  BY DEF Acting
<1>4. Served'
  BY <1>1, <1>2, <1>3, NoticeInvTypes DEF Served, OnTheirWay
<1>5. \A k \in Ends : \A w \in Noticed(k) : w \in ToSet(ready) \cup ToSet(batch)
  BY DEF Noticed
<1>6. Used'
  BY <1>5, OthersCalls, NoticeInvTypes DEF Used
<1> QED
  BY <1>4, <1>6

(* close, first half and second.                                           *)
LEMMA NotifyAllNotices ==
  ASSUME NoticeInv, NEW n \in Ends, NotifyAll(n)
  PROVE  /\ UNCHANGED <<current, tasks, killed, wait>> /\ parked' \subseteq parked
         /\ waiters'[n] = <<>>
         /\ \A k \in Ends : /\ Noticed(k)' = Noticed(k)
                            /\ k # n => waiters'[k] = waiters[k]
<1>1. n \in Notifier /\ waiters[n] \in Seq(Task) /\ waiters \in [Notifier -> Seq(Task)]
  BY NoticeInvTypes DEF TypeOK
<1>2. \A k \in Ends : Noticed(k)' = Noticed(k)
  BY <1>1, QuietAnswerAll, NoticeInvTypes DEF NotifyAll, Answers
<1> QED
  BY <1>1, <1>2, NoticeInvTypes DEF NotifyAll, AnswerAll, settled

LEMMA CloseNotices ==
  ASSUME NoticeInv, ~is_closed, CloseQueue, UNCHANGED options, Ending(NotFull),
         op' = op \/ Wanted(NotFull) <= 0
  PROVE  Served' /\ Used' /\ Shut'
<1>1. NotEmpty \in Ends /\ NotFull \in Ends /\ NotEmpty # NotFull
  BY ChannelAssumption DEF Ends
<1>2. NotifyAll(NotEmpty) /\ UNCHANGED <<count, capacity>> /\ is_closed' /\ closing'
  BY DEF CloseQueue, options
<1>3. Served' /\ Used'
  BY <1>1, <1>2, NotifyAllNotices, EndedStep
<1>4. Shut'
  BY <1>1, <1>2, NotifyAllNotices DEF Shut
<1> QED
  BY <1>3, <1>4

LEMMA CloseRestNotices ==
  ASSUME NoticeInv, CloseRest
  PROVE  Served' /\ Used' /\ Shut'
<1>1. NotEmpty \in Ends /\ NotFull \in Ends /\ NotEmpty # NotFull
  BY ChannelAssumption DEF Ends
<1>2. /\ NotifyAll(NotFull) /\ UNCHANGED <<count, capacity, is_closed, op>> /\ closing /\ ~closing'
  BY DEF CloseRest, fields, options
<1>3. Served' /\ Used'
  BY <1>1, <1>2, NotifyAllNotices, EndedStep DEF Ending
<1>4. Shut'
  BY <1>1, <1>2, NotifyAllNotices, NoticeInvTypes DEF Shut
<1> QED
  BY <1>3, <1>4

(* offer, by try_send or as the end of a send.                             *)
LEMMA OfferNotices ==
  ASSUME NoticeInv, NEW item, Offer(item), Ending(NotFull), ~closing
  PROVE  Served' /\ Used' /\ Shut'
<1>1. NotEmpty \in Ends /\ NotFull \in Ends /\ NotEmpty # NotFull
  BY ChannelAssumption DEF Ends
<1>2. count \in Nat /\ capacity \in Nat /\ UNCHANGED capacity
  BY NoticeInvTypes DEF Offer, options
<1>3. /\ Wanted(NotEmpty) = count /\ Wanted(NotEmpty)' = count'
      /\ Wanted(NotFull) = capacity - count /\ Wanted(NotFull)' = capacity - count'
  BY <1>1, <1>2 DEF Wanted
<1>4. CASE is_closed /\ UNCHANGED <<vars, fields, closing>>
  <2>1. waiters[NotFull] = <<>>
    BY <1>4, NoticeInvTypes DEF Shut
  <2>2. UNCHANGED <<count, current, tasks, killed, wait, parked, waiters, ready, batch, is_closed>>
    BY <1>4 DEF vars, fields, settled, waiting, queues
  <2>3. Served' /\ Used'
    BY <1>1, <1>2, <2>1, <2>2, EndedStep DEF Noticed
  <2>4. Shut'
    BY <1>4, <2>2, NoticeInvTypes DEF Shut
  <2> QED
    BY <2>3, <2>4
<1>5. CASE ~is_closed /\ count < capacity /\ Push(item) /\ UNCHANGED closing
  <2>1. NotifyOne(NotEmpty) /\ count' = count + 1 /\ UNCHANGED <<is_closed, closing>>
    BY <1>5 DEF Push
  <2> QED
    BY <1>1, <1>2, <1>3, <2>1, NotifiedStep
<1>6. CASE ~is_closed /\ count >= capacity /\ Replace(item) /\ UNCHANGED closing
  <2>1. NotifyOne(NotEmpty) /\ count' = count /\ UNCHANGED <<is_closed, closing>>
    BY <1>6 DEF Replace
  <2> QED
    BY <1>1, <1>2, <1>3, <1>6, <2>1, NotifiedStep
<1>7. CASE ~is_closed /\ count >= capacity /\ UNCHANGED <<vars, items, first, count, is_closed, closing>>
  <2>1. UNCHANGED <<current, tasks, killed, wait, parked, waiters, ready, batch>>
    BY <1>7 DEF vars, settled, waiting, queues
  <2>2. Served' /\ Used'
    BY <1>1, <1>2, <1>3, <1>7, <2>1, EndedStep DEF Noticed
  <2>3. Shut'
    BY <1>7, <2>1, NoticeInvTypes DEF Shut
  <2> QED
    BY <2>2, <2>3
<1>8. CASE ~is_closed /\ count >= capacity /\ CloseQueue
  BY <1>2, <1>3, <1>8, CloseNotices DEF Offer
<1> QED
  BY <1>4, <1>5, <1>6, <1>7, <1>8 DEF Offer

(* A call that returns with nothing, or is not begun.                      *)
LEMMA NothingNotices ==
  ASSUME NoticeInv, UNCHANGED <<vars, queue>>, NEW n \in Ends, Ending(n),
         op' = op \/ Wanted(n) <= 0
  PROVE  Served' /\ Used' /\ Shut'
<1>1. UNCHANGED <<count, capacity, is_closed, closing, current, tasks, killed, wait, parked,
                  waiters, ready, batch>>
  BY DEF vars, settled, waiting, queues, queue, fields, options
<1>2. Served' /\ Used'
  BY <1>1, EndedStep DEF Noticed
<1>3. Shut'
  BY <1>1, NoticeInvTypes DEF Shut
<1> QED
  BY <1>2, <1>3

LEMMA SendNotices ==
  ASSUME NoticeInv, NEW t \in Task, SendStep(t)
  PROVE  Served' /\ Used' /\ Shut'
<1>1. NotFull \in Ends /\ Taker(NotFull) = "send" /\ Wanted(NotFull) = capacity - count
  BY ChannelAssumption DEF Ends, Taker, Wanted
<1>2. t = current /\ current \in Task /\ ~closing /\ op[t].kind = "send"
  BY DEF SendStep, Does, Runs
<1>3. Settle(t) => Ending(NotFull)
  BY <1>1, <1>2 DEF Settle, Ending
<1>4. Full => Wanted(NotFull) <= 0 /\ ~is_closed
  BY <1>1, NoticeInvTypes DEF Full
<1>5. CASE Offer(op[t].item) /\ Settle(t)
  BY <1>2, <1>3, <1>5, OfferNotices
<1>6. CASE Full /\ Settle(t) /\ UNCHANGED <<vars, queue>>
  BY <1>1, <1>3, <1>4, <1>6, NothingNotices
<1>7. CASE Full /\ NotifierWait(t, NotFull, op[t].at) /\ UNCHANGED <<queue, op>>
  BY <1>1, <1>2, <1>4, <1>7, WaitNotices
<1> QED
  BY <1>5, <1>6, <1>7 DEF SendStep

LEMMA ReceiveNotices ==
  ASSUME NoticeInv, NEW t \in Task, ReceiveStep(t)
  PROVE  Served' /\ Used' /\ Shut'
<1>1. /\ NotEmpty \in Ends /\ NotFull \in Ends /\ NotEmpty # NotFull
      /\ Taker(NotEmpty) = "receive" /\ Wanted(NotEmpty) = count /\ Wanted(NotEmpty)' = count'
      /\ Wanted(NotFull) = capacity - count /\ Wanted(NotFull)' = capacity' - count'
      /\ count \in Nat /\ capacity \in Nat
  BY ChannelAssumption, NoticeInvTypes DEF Ends, Taker, Wanted
<1>2. t = current /\ current \in Task /\ op[t].kind = "receive"
  BY DEF ReceiveStep, Does, Runs
<1>3. Settle(t) => Ending(NotEmpty)
  BY <1>1, <1>2 DEF Settle, Ending
<1>4. CASE Take(t)
  <2>1. /\ NotifyOne(NotFull) /\ count' = count - 1 /\ count > 0 /\ Settle(t)
        /\ UNCHANGED <<capacity, is_closed, closing>>
    BY <1>4 DEF Take, options
  <2> QED
    BY <1>1, <1>3, <2>1, NotifiedStep
<1>5. CASE count = 0 /\ Settle(t) /\ UNCHANGED <<vars, queue>>
  BY <1>1, <1>3, <1>5, NothingNotices
<1>6. CASE count = 0 /\ ~is_closed /\ NotifierWait(t, NotEmpty, op[t].at) /\ UNCHANGED <<queue, op>>
  BY <1>1, <1>2, <1>6, WaitNotices
<1> QED
  BY <1>4, <1>5, <1>6 DEF ReceiveStep

(* A call begins: the task in it runs.                                     *)
LEMMA CallNotices ==
  ASSUME NoticeInv, NEW t \in Task, NEW due \in Deadlines, SendCall(t, due) \/ ReceiveCall(t, due)
  PROVE  Served' /\ Used' /\ Shut'
<1>1. PICK new : op' = [op EXCEPT ![t] = new]
  BY DEF SendCall, ReceiveCall
<1>2. t = current /\ op[t] = Idle /\ UNCHANGED <<vars, queue>> /\ op \in [Task -> Op]
  BY DEF SendCall, ReceiveCall, Free, Actor, Runs, NoticeInv, Calls
<1>3. UNCHANGED <<count, capacity, is_closed, closing, current, tasks, killed, wait, parked,
                  waiters, ready, batch>>
  BY <1>2 DEF vars, settled, waiting, queues, queue, fields, options
<1>4. \A n \in Ends : Noticed(n)' = Noticed(n) /\ Wanted(n)' = Wanted(n)
  BY <1>3 DEF Noticed, Wanted
<1>5. \A n \in Ends : Acting(Taker(n)) = 0 /\ Acting(Taker(n))' \in {0, 1}
  BY <1>2, IdleIsOp DEF Acting, Taker
<1>6. Served'
  BY <1>3, <1>4, <1>5, NoticeInvTypes DEF Served, OnTheirWay
<1>7. Used'
  <2>1. /\ current \notin parked /\ parked \subseteq Task
        /\ \A w \in ToSet(ready) \cup ToSet(batch) : w.task # current
    BY <1>2, NoneAssumption, NoticeInvTypes DEF OnePlace, Queued, TypeOK
  <2>2. \A w \in ToSet(ready) \cup ToSet(batch) : w \in Wake
    BY NoticeInvTypes DEF TypeOK, ToSet
  <2>3. \A n \in Ends : \A w \in Noticed(n) : w.task \in Task /\ op'[w.task] = op[w.task]
    BY <1>1, <1>2, <2>1, <2>2 DEF Noticed, Wake
  <2>4. \A u \in parked : op'[u] = op[u]
    BY <1>1, <1>2, <2>1
  <2> QED
    BY <1>3, <1>4, <2>3, <2>4, NoticeInvTypes DEF Used
<1>8. Shut'
  BY <1>3, NoticeInvTypes DEF Shut
<1> QED
  BY <1>6, <1>7, <1>8

LEMMA NoticeNextInv == NoticeInv /\ [ChannelNext]_allvars => NoticeInv'
<1> SUFFICES ASSUME NoticeInv, [ChannelNext]_allvars PROVE NoticeInv'
  OBVIOUS
<1>1. IInv' /\ Slots' /\ Calls'
  BY ChannelNextPoll, SlotsStep DEF NoticeInv, IInv, Calls
<1> SUFFICES Served' /\ Used' /\ Shut'
  BY <1>1 DEF NoticeInv
<1>2. NotFull \in Ends
  BY DEF Ends
<1>3. CASE TrySend
  <2>1. ~closing /\ Ending(NotFull) /\ op' = op
    BY <1>3 DEF TrySend, Free, Ending
  <2> QED
    BY <1>2, <1>3, <2>1, OfferNotices, NothingNotices DEF TrySend
<1>4. CASE Close
  BY <1>4, CloseNotices DEF Close, Ending
<1>5. CASE OutsideStep
  BY <1>5, CancelNotices, SpawnNotices DEF OutsideStep
<1>6. CASE ClockStep
  <2>1. UNCHANGED <<count, capacity, is_closed, closing, current, tasks, killed, wait, parked,
                    waiters, ready, batch, op>>
    BY <1>6 DEF ClockStep, Tick, Over, vars, settled, waiting, queues, queue, fields, options
  <2> QED
    BY <2>1, QuietStep DEF Noticed, Acting
<1>7. CASE UNCHANGED allvars
  BY <1>2, <1>7, NothingNotices DEF allvars, Ending
<1> QED
  BY <1>3, <1>4, <1>5, <1>6, <1>7, CloseRestNotices, SendNotices, ReceiveNotices, CallNotices,
     KillNotices, LeaveNotices, ResumeNotices, LoopNotices DEF ChannelNext

LEMMA NoticeInit == ChannelInit => NoticeInv
<1> SUFFICES ASSUME ChannelInit PROVE NoticeInv
  OBVIOUS
<1>1. IInv /\ Slots /\ Calls
  BY ChannelInitSlots
<1>2. /\ \A n \in Ends : waiters[n] = <<>>
      /\ parked = {} /\ ~is_closed /\ ~closing
  BY ChannelAssumption DEF ChannelInit, Init, Ends
<1>3. \A w \in ToSet(ready) \cup ToSet(batch) : w.notice = None
  BY DEF ChannelInit, Init, WakeOf, ToSet
<1>4. \A n \in Ends : Noticed(n) = {}
  BY <1>3, NoneAssumption, ChannelAssumption DEF Noticed, Ends
<1> QED
  BY <1>1, <1>2, <1>4 DEF NoticeInv, Served, Used, Shut

(* What is said of notices and waits above holds of every run.             *)
THEOREM NoticeInvariance == ChannelSpec => []NoticeInv
BY NoticeInit, NoticeNextInv, PTL DEF ChannelSpec

(* The notices of a queue are enough, for any tasks, capacity and policy:  *)
(* whoever times out, is cancelled or is killed, no receiver is left       *)
(* waiting for an item nobody is on the way to take, no sender for room,   *)
(* and no one at all on a closed queue.                                    *)
THEOREM NoticesAreKept == ChannelSpec => []NoticesKept
<1>1. ASSUME NoticeInv PROVE NoticesKept
  <2>1. ChannelTypeOK
    BY <1>1, NoticeInvTypes DEF ChannelTypeOK, NoticeInv, Slots, Calls
  <2>2. NotEmpty \in Ends /\ NotFull \in Ends /\ NotEmpty # NotFull
    BY ChannelAssumption DEF Ends
  <2>3. NoItemForgotten /\ NoRoomForgotten
    BY <1>1, <2>2, NoticeInvTypes DEF Served, Wanted, Taker, NoItemForgotten, NoRoomForgotten
  <2>4. ClosedFreesAll
    BY <1>1, NoticeInvTypes DEF Shut, ClosedFreesAll
  <2> QED
    BY <2>1, <2>3, <2>4 DEF NoticesKept
<1> QED
  BY <1>1, NoticeInvariance, PTL
=============================================================================
