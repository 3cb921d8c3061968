------------------------------ MODULE Channel -------------------------------
(***************************************************************************)
(* A cosmic.channel queue (cosmic/channel.tl) shared by the tasks of one   *)
(* run of Poll: the queue, the calls tasks are in, and the scheduler they  *)
(* wait with.  A step of a call is a step of Poll (a notice, a wait) and   *)
(* what the call does to the queue meanwhile.  A call that does not wait   *)
(* runs to its end before the loop or another task does.                   *)
(***************************************************************************)
EXTENDS Poll

CONSTANTS NotEmpty,    \* queue.not_empty
          NotFull,     \* queue.not_full
          Capacities,  \* the capacities Channel.new may be given
          Policies,    \* the overflow policies it may be given
          MaxSends     \* bound: how many items are sent

Overflow == {"block", "drop_oldest", "drop_newest", "close"}

ASSUME ChannelAssumption ==
  /\ {NotEmpty, NotFull} \subseteq Notifier /\ NotEmpty # NotFull
  /\ Capacities \subseteq Nat \ {0}
  /\ Policies \subseteq Overflow
  /\ MaxSends \in Nat

VARIABLES items,      \* queue.items, by slot
          first,      \* queue.first
          count,      \* queue.count
          capacity,   \* queue.capacity
          overflow,   \* queue.overflow
          is_closed,  \* queue.is_closed
          drops,      \* queue.drops
          closing,    \* close is between its two notify_all
          op,         \* the send or receive each task is in
          sent        \* the items sent so far; the next one is its number

fields  == <<items, first, count, is_closed, drops>>
options == <<capacity, overflow>>
queue   == <<fields, options, closing>>
allvars == <<vars, queue, op, sent>>

Idle == [kind |-> "idle", item |-> 0, at |-> None]
Op   == [kind : {"idle", "send", "receive"}, item : Nat, at : Nat \cup {None}]

(* Channel.new, in the run's first task.                                   *)
ChannelInit ==
  /\ Init
  /\ items = <<>> /\ first = 1 /\ count = 0
  /\ capacity \in Capacities /\ overflow \in Policies
  /\ is_closed = FALSE /\ drops = 0 /\ closing = FALSE
  /\ op = [t \in Task |-> Idle] /\ sent = 0

(* The table with one slot set, or cleared.                                *)
Set(tab, i, item) == [j \in DOMAIN tab \cup {i} |-> IF j = i THEN item ELSE tab[j]]
Clear(tab, i)     == [j \in DOMAIN tab \ {i} |-> tab[j]]

(* queue.first once pop has taken the head.                                *)
FirstAfterPop == IF count = 1 THEN 1 ELSE first + 1

(* push.                                                                   *)
Push(item) ==
  /\ items' = Set(items, first + count, item)
  /\ count' = count + 1
  /\ NotifyOne(NotEmpty)
  /\ UNCHANGED <<first, is_closed, drops>>

(* pop then push, as offer does for "drop_oldest".                         *)
Replace(item) ==
  /\ items' = Set(Clear(items, first), FirstAfterPop + count - 1, item)
  /\ first' = FirstAfterPop
  /\ drops' = drops + 1
  /\ NotifyOne(NotEmpty)
  /\ UNCHANGED <<count, is_closed>>

(* close: the receivers are woken, then the senders.                       *)
CloseQueue ==
  /\ is_closed' = TRUE /\ closing' = TRUE
  /\ NotifyAll(NotEmpty)
  /\ UNCHANGED <<items, first, count, drops>>

CloseRest ==
  /\ closing /\ closing' = FALSE
  /\ NotifyAll(NotFull)
  /\ UNCHANGED <<fields, options, op, sent>>

(***************************************************************************)
(* offer, where it does not answer "full": the item is queued or settled   *)
(* by the policy, or the queue is closed or closes.                        *)
(***************************************************************************)
Full == ~is_closed /\ count >= capacity /\ overflow = "block"

(* Mutant: a closed queue with room takes one more.                        *)
Offer_IgnoresClosed(item) ==
  /\ \/ is_closed /\ count >= capacity /\ UNCHANGED <<vars, fields, closing>>
     \/ count < capacity /\ Push(item) /\ UNCHANGED closing
     \/ /\ ~is_closed /\ count >= capacity
        /\ \/ overflow = "drop_oldest" /\ Replace(item) /\ UNCHANGED closing
           \/ /\ overflow = "drop_newest"
              /\ drops' = drops + 1
              /\ UNCHANGED <<vars, items, first, count, is_closed, closing>>
           \/ overflow = "close" /\ CloseQueue
  /\ UNCHANGED options

Offer(item) ==
  /\ \/ is_closed /\ UNCHANGED <<vars, fields, closing>>
     \/ ~is_closed /\ count < capacity /\ Push(item) /\ UNCHANGED closing
     \/ /\ ~is_closed /\ count >= capacity
        /\ \/ overflow = "drop_oldest" /\ Replace(item) /\ UNCHANGED closing
           \/ /\ overflow = "drop_newest"
              /\ drops' = drops + 1
              /\ UNCHANGED <<vars, items, first, count, is_closed, closing>>
           \/ overflow = "close" /\ CloseQueue
  /\ UNCHANGED options

(***************************************************************************)
(* The calls.  Actor runs: a task between its waits, or the <close>        *)
(* handlers of a task being killed.                                        *)
(***************************************************************************)
Actor   == IF killing = None THEN current ELSE killing
Free    == CodeRuns /\ ~closing /\ op[Actor] = Idle
Does(t, kind) == Runs(t) /\ ~closing /\ op[t].kind = kind

TrySend ==
  /\ Free /\ sent < MaxSends
  /\ sent' = sent + 1
  /\ \/ Offer(sent')
     \/ Full /\ UNCHANGED <<vars, queue>>
  /\ UNCHANGED op

Close ==
  /\ Free
  /\ ~is_closed /\ CloseQueue
  /\ UNCHANGED <<options, op, sent>>

(* send and receive: the deadline is read once, at the call.               *)
SendCall(t, at) ==
  /\ Free /\ Runs(t) /\ sent < MaxSends
  /\ sent' = sent + 1
  /\ op' = [op EXCEPT ![t] = [kind |-> "send", item |-> sent', at |-> at]]
  /\ UNCHANGED <<vars, queue>>

ReceiveCall(t, at) ==
  /\ Free /\ Runs(t)
  /\ op' = [op EXCEPT ![t] = [kind |-> "receive", item |-> 0, at |-> at]]
  /\ UNCHANGED <<vars, queue, sent>>

(* The call returns.                                                       *)
Settle(t) == op' = [op EXCEPT ![t] = Idle]

Late(t) == op[t].at # None /\ op[t].at <= now

(* One turn of send's loop: the item is settled, the deadline has passed,  *)
(* or the sender waits for room.                                           *)
SendStep(t) ==
  /\ Does(t, "send")
  /\ \/ Offer(op[t].item) /\ Settle(t)
     \/ Full /\ Late(t) /\ Settle(t) /\ UNCHANGED <<vars, queue>>
     \/ /\ Full /\ ~Late(t)
        /\ NotifierWait(t, NotFull, op[t].at) /\ UNCHANGED <<queue, op>>
  /\ UNCHANGED sent

(* pop, and the end of receive.                                            *)
Take(t) ==
  /\ count > 0
  /\ items' = Clear(items, first) /\ first' = FirstAfterPop
  /\ count' = count - 1
  /\ NotifyOne(NotFull)
  /\ Settle(t)
  /\ UNCHANGED <<is_closed, drops, options, closing>>

(* One turn of receive's loop.                                             *)
ReceiveStep(t) ==
  /\ Does(t, "receive")
  /\ \/ Take(t)
     \/ /\ count = 0 /\ (is_closed \/ Late(t))
        /\ Settle(t) /\ UNCHANGED <<vars, queue>>
     \/ /\ count = 0 /\ ~is_closed /\ ~Late(t)
        /\ NotifierWait(t, NotEmpty, op[t].at) /\ UNCHANGED <<queue, op>>
  /\ UNCHANGED sent

(***************************************************************************)
(* What else the tasks do, and the loop.  A wait that ends otherwise than  *)
(* by a notice ends the call; so does a kill.                              *)
(***************************************************************************)
OutsideStep ==
  /\ Free
  /\ \E u \in Task : Cancel(u) \/ \E t \in Task : Spawn(t, u)
  /\ UNCHANGED <<queue, op, sent>>

(* A task leaves off, or the handlers of one killed do.                    *)
LeaveStep ==
  /\ Free
  /\ \/ \E t \in Task : Return(t) \/ \E at \in Deadlines : Delay(t, at)
     \/ KillEnd
  /\ UNCHANGED <<queue, op, sent>>

KillStep(t, u) ==
  /\ Free
  /\ KillParked(t, u) \/ KillReady(t, u) \/ KillInBatch(t, u)
  /\ op' = [op EXCEPT ![u] = Idle]
  /\ UNCHANGED <<queue, sent>>

ResumeStep ==
  /\ Resume
  /\ op' = IF Head(batch).answer = "ok"
           THEN op ELSE [op EXCEPT ![Head(batch).task] = Idle]
  /\ UNCHANGED <<queue, sent>>

LoopStep ==
  /\ PassBy \/ RunReturns \/ PollOnce \/ PollStuck \/ ExpireOne \/ TakeBatch
  /\ UNCHANGED <<queue, op, sent>>

ClockStep == (Tick \/ Over) /\ UNCHANGED <<queue, op, sent>>

ChannelNext ==
  \/ TrySend \/ Close \/ CloseRest
  \/ \E t \in Task : \/ \E at \in Deadlines : SendCall(t, at) \/ ReceiveCall(t, at)
                     \/ SendStep(t) \/ ReceiveStep(t)
                     \/ \E u \in Task : KillStep(t, u)
  \/ OutsideStep \/ LeaveStep \/ ResumeStep \/ LoopStep \/ ClockStep

(* A call goes on once begun, a task leaves off in the end, and so does    *)
(* the loop.                                                               *)
CallsGoOn ==
  /\ WF_allvars(\E t \in Task : SendStep(t) \/ ReceiveStep(t))
  /\ WF_allvars(CloseRest)
  /\ WF_allvars(LeaveStep)
  /\ WF_allvars(ResumeStep \/ LoopStep)

ChannelSpec == ChannelInit /\ [][ChannelNext]_allvars

(* And so does the clock.                                                  *)
FairChannelSpec == ChannelSpec /\ CallsGoOn /\ SF_allvars(ClockStep)
-----------------------------------------------------------------------------
(* The variables keep their types, and the slots in use are the `count`    *)
(* ones from `first` on: pop never meets the empty head it raises for.     *)
ChannelTypeOK ==
  /\ TypeOK
  /\ first \in Nat \ {0} /\ count \in 0 .. capacity
  /\ DOMAIN items = first .. first + count - 1
  /\ \A i \in DOMAIN items : items[i] \in Nat
  /\ capacity \in Capacities /\ overflow \in Policies
  /\ is_closed \in BOOLEAN /\ closing \in BOOLEAN
  /\ drops \in Nat /\ sent \in Nat
  /\ op \in [Task -> Op]

(* The notices of n on their way, and the call one was just given to.      *)
Noticed(n) == {w \in ToSet(ready) \cup ToSet(batch) : w.notice = n}

OnTheirWay(n) == Cardinality(Noticed(n))

Acting(kind) == IF current # None /\ op[current].kind = kind THEN 1 ELSE 0

(* No receiver is left waiting for an item that nobody is on the way to    *)
(* take: while one is parked, each queued item has a notice under way or a *)
(* receive running, whichever receivers time out, are cancelled or killed, *)
(* and whoever takes an item first (channel.tl push, poll.tl step).        *)
NoItemForgotten ==
  waiters[NotEmpty] # <<>> => count <= OnTheirWay(NotEmpty) + Acting("receive")

(* Nor is a sender left waiting while there is room for its item.          *)
NoRoomForgotten ==
  waiters[NotFull] # <<>> => capacity - count <= OnTheirWay(NotFull) + Acting("send")

(* Once the queue is closed nobody waits on it, and nobody begins to:      *)
(* close wakes both sides, and a call looks again before it waits.         *)
ClosedFreesAll ==
  is_closed /\ ~closing => waiters[NotEmpty] = <<>> /\ waiters[NotFull] = <<>>

(* The queue is the bounded queue its documentation promises: items leave  *)
(* in the order they came, each once, and only overflow discards them.     *)
Abstract == INSTANCE BoundedQueue
              WITH Item <- 1 .. MaxSends, closed <- is_closed, lost <- drops,
                   queue <- [i \in 1 .. count |-> items[first + i - 1]]

IsBoundedQueue == Abstract!Spec

(* A parked receiver is woken, or another takes the last item, and the run *)
(* is not declared stuck first: notices reach a call that uses them.       *)
ReceiverServed ==
  \A t \in Task :
     (t \in ToSet(waiters[NotEmpty]) /\ count > 0)
       ~> (run # "deadlock" /\ (t \notin ToSet(waiters[NotEmpty]) \/ count = 0))

(* A parked sender is woken, or another fills the room left.               *)
SenderServed ==
  \A t \in Task :
     (t \in ToSet(waiters[NotFull]) /\ count < capacity)
       ~> (run # "deadlock" /\ (t \notin ToSet(waiters[NotFull]) \/ count = capacity))

(* The queue's notices are enough, whoever times out, is cancelled or is   *)
(* killed: its slots are in order, and nobody waits for what is there.     *)
NoticesKept == ChannelTypeOK /\ NoItemForgotten /\ NoRoomForgotten /\ ClosedFreesAll

(* Both sides of the queue are served.                                     *)
CallersServed == ReceiverServed /\ SenderServed
=============================================================================
