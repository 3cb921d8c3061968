-------------------------------- MODULE Poll --------------------------------
(***************************************************************************)
(* The task scheduler of cosmic.poll (cosmic/poll.tl): one run of          *)
(* Poll.run, its coroutine tasks, their waits, and the loop that answers   *)
(* them.                                                                   *)
(*                                                                         *)
(* One task runs at a time (`current`); it runs until it waits, returns or *)
(* raises, and each call it makes on the run meanwhile is one action.      *)
(* While it kills another task that task's <close> handlers run            *)
(* (`killing`); they may notify, cancel and close descriptors but not      *)
(* wait, spawn or kill.  The timer heap and the descriptor tables are      *)
(* here the sets they represent.                                           *)
(***************************************************************************)
EXTENDS Naturals, FiniteSets, SequencesExt

CONSTANTS Task,        \* every task a run may start
          Main,        \* the task Poll.run starts first
          Notifier,    \* the run's notifiers
          Fd,          \* the descriptors tasks wait on
          Timeouts,    \* the timeouts a wait may ask
          MaxTime,     \* bound: no wait asks for a time past it
          MaxShields,  \* bound: how deep Poll.shielded calls nest
          None         \* nil

ASSUME TaskAssumption == Main \in Task /\ IsFiniteSet(Task)
ASSUME NotifierAssumption == IsFiniteSet(Notifier)
ASSUME NoneAssumption == /\ None \notin Task
                         /\ None \notin Notifier
                         /\ None \notin Nat
ASSUME BoundAssumption == /\ Timeouts \subseteq Nat
                          /\ MaxTime \in Nat
                          /\ MaxShields \in Nat

VARIABLES run,        \* "on", or how the run ended
          phase,      \* "batch": resuming a batch; "expire": past the poll
          current,    \* the task whose coroutine runs, or None
          killing,    \* the task whose <close> handlers a kill runs, or None
          tasks,      \* loop.tasks: the tasks not yet ended
          live,       \* loop.live
          ended,      \* the tasks with `ended` set
          killed,     \* the tasks with `killed` set
          cancelled,  \* the tasks with `cancelled` set
          shields,    \* task.shields
          parked,     \* the tasks with a wait not yet answered (task.parked)
          wait,       \* the wait each parked or answered task is in
          joiners,    \* task.joiners: the tasks joining a task, oldest first
          waiters,    \* notifier.waiters, longest first
          ready,      \* loop.ready: the wakes of the next batch
          batch,      \* what is left of the batch being resumed
          before,     \* the pairs of parked tasks whose waits' `seq` are in order
          now         \* Clock.monotonic_ns

settled == <<tasks, live, ended, killed>>
waiting == <<parked, wait, joiners, waiters, before>>
queues  == <<ready, batch>>
vars == <<run, phase, current, killing, settled, cancelled, shields,
          waiting, queues, now>>

Kinds   == {"none", "fd", "ready", "delay", "notice", "join"}
Answers == {"ok", "timeout", "cancelled"}

Wait == [kind : Kinds, fds : SUBSET Fd, gate : Notifier \cup {None},
         joined : Task \cup {None}, at : Nat \cup {None}]
Wake == [task : Task, answer : Answers, notice : Notifier \cup {None}]

NoWait == [kind |-> "none", fds |-> {}, gate |-> None, joined |-> None,
           at |-> None]

(* A task with a wake in a queue; a list without one entry (table.remove). *)
Queued(q, t) == \E w \in ToSet(q) : w.task = t

Without(s, t) == IF t \in ToSet(s)
                 THEN RemoveAt(s, CHOOSE i \in DOMAIN s : s[i] = t)
                 ELSE s

WakeOf(t, answer, notice) == [task |-> t, answer |-> answer, notice |-> notice]

Init ==
  /\ run = "on" /\ phase = "batch"
  /\ current = None /\ killing = None
  /\ tasks = {Main} /\ live = 1 /\ ended = {} /\ killed = {}
  /\ cancelled = {} /\ shields = [t \in Task |-> 0]
  /\ parked = {} /\ before = {} /\ wait = [t \in Task |-> NoWait]
  /\ joiners = [t \in Task |-> <<>>] /\ waiters = [n \in Notifier |-> <<>>]
  /\ ready = <<>> /\ batch = <<WakeOf(Main, "ok", None)>>
  /\ now = 0

(* Mutant: a notifier wait that ends otherwise stays among the waiters.    *)
Finish_NoUngate(t) ==
  /\ parked' = parked \ {t}
  /\ before' = {p \in before : t \notin {p[1], p[2]}}
  /\ joiners' = IF wait[t].joined \in Task \ ended
                THEN [joiners EXCEPT ![wait[t].joined] = Without(@, t)]
                ELSE joiners
  /\ waiters' = waiters

(***************************************************************************)
(* finish(w) and wake(w): the parked task t's wait is answered.  It leaves *)
(* the waiters or, unless the task it joins has ended, the joiners it is   *)
(* in; what is polled and the timers are the parked waits themselves.      *)
(***************************************************************************)
Finish(t) ==
  /\ parked' = parked \ {t}
  /\ before' = {p \in before : t \notin {p[1], p[2]}}
  /\ joiners' = IF wait[t].joined \in Task \ ended
                THEN [joiners EXCEPT ![wait[t].joined] = Without(@, t)]
                ELSE joiners
  /\ waiters' = IF wait[t].gate # None
                THEN [waiters EXCEPT ![wait[t].gate] = Without(@, t)]
                ELSE waiters

Answer(t, answer) ==
  /\ Finish(t)
  /\ ready' = Append(ready, WakeOf(t, answer, None))

(* Several waits answered at once, none of them in a list that keeps it.   *)
AnswerAll(q, answer, notice) ==
  /\ parked' = parked \ ToSet(q)
  /\ before' = {p \in before : ToSet(q) \cap {p[1], p[2]} = {}}
  /\ ready' = ready \o [i \in DOMAIN q |-> WakeOf(q[i], answer, notice)]

(* The parked tasks of S in the order their waits began: table.sort on seq. *)
InOrder(S) == {q \in [1 .. Cardinality(S) -> S] :
                 /\ S \subseteq ToSet(q)
                 /\ \A i, j \in DOMAIN q : i < j => <<q[i], q[j]>> \in before}

(***************************************************************************)
(* park: the running task begins a wait and yields.  One that is cancelled *)
(* and unshielded is answered at once, and still yields.                   *)
(***************************************************************************)
Deadlines == {None} \cup {at \in {now + d : d \in Timeouts} : at <= MaxTime}

Runs(t) == run = "on" /\ current = t /\ killing = None

Park(t, w) ==
  /\ Runs(t)
  /\ current' = None
  /\ IF t \in cancelled /\ shields[t] = 0
     THEN /\ wait' = [wait EXCEPT ![t] = [w EXCEPT !.at = None]]
          /\ ready' = Append(ready, WakeOf(t, "cancelled", None))
          /\ UNCHANGED <<parked, before, joiners, waiters>>
     ELSE /\ wait' = [wait EXCEPT ![t] = w]
          /\ parked' = parked \cup {t}
          /\ before' = before \cup {<<u, t>> : u \in parked}
          /\ joiners' = IF w.joined # None
                        THEN [joiners EXCEPT ![w.joined] = Append(@, t)]
                        ELSE joiners
          /\ waiters' = IF w.gate # None
                        THEN [waiters EXCEPT ![w.gate] = Append(@, t)]
                        ELSE waiters
          /\ UNCHANGED ready
  /\ UNCHANGED <<run, phase, killing, settled, cancelled, shields, batch, now>>

(* Poll.wait, Poll.readable and Poll.writable.                             *)
WaitFd(t, fd, at) ==
  Park(t, [NoWait EXCEPT !.kind = "fd", !.fds = {fd}, !.at = at])

(* Poll.ready, on one descriptor or several.                               *)
WaitReady(t, fds, at) ==
  fds # {} /\ Park(t, [NoWait EXCEPT !.kind = "ready", !.fds = fds, !.at = at])

(* Poll.delay.                                                             *)
Delay(t, at) ==
  at # None /\ Park(t, [NoWait EXCEPT !.kind = "delay", !.at = at])

(* Notifier:wait.                                                          *)
NotifierWait(t, n, at) ==
  Park(t, [NoWait EXCEPT !.kind = "notice", !.gate = n, !.at = at])

(* Task:join on a task still running; on any other it answers at once.     *)
Join(t, u, at) ==
  /\ u \in tasks /\ u \notin killed /\ u # t
  /\ Park(t, [NoWait EXCEPT !.kind = "join", !.joined = u, !.at = at])

(***************************************************************************)
(* What a running task does without waiting.                               *)
(***************************************************************************)
(* Poll.spawn: a task not started yet, ready to run.                       *)
Spawn(t, u) ==
  /\ Runs(t)
  /\ u \notin tasks \cup ended
  /\ tasks' = tasks \cup {u} /\ live' = live + 1
  /\ ready' = Append(ready, WakeOf(u, "ok", None))
  /\ UNCHANGED <<run, phase, current, killing, ended, killed, cancelled,
                 shields, waiting, batch, now>>

(* Poll.shielded entered, and left as its function returns or raises.      *)
Shield(t) ==
  /\ Runs(t) /\ shields[t] < MaxShields
  /\ shields' = [shields EXCEPT ![t] = @ + 1]
  /\ UNCHANGED <<run, phase, current, killing, settled, cancelled, waiting,
                 queues, now>>

Unshield(t) ==
  /\ Runs(t) /\ shields[t] > 0
  /\ shields' = [shields EXCEPT ![t] = @ - 1]
  /\ UNCHANGED <<run, phase, current, killing, settled, cancelled, waiting,
                 queues, now>>

(* Code runs: the current task's, or a killed task's <close> handlers.     *)
CodeRuns == run = "on" /\ current # None

(* Mutant: a cancel is noticed only by the task's next wait.               *)
Cancel_FlagOnly(u) ==
  /\ CodeRuns /\ u \in tasks \ cancelled
  /\ cancelled' = cancelled \cup {u}
  /\ UNCHANGED <<run, phase, current, killing, settled, shields, waiting,
                 queues, now>>

(* Task:cancel.                                                            *)
Cancel(u) ==
  /\ CodeRuns /\ u \in tasks \ cancelled
  /\ cancelled' = cancelled \cup {u}
  /\ IF u \in parked /\ shields[u] = 0
     THEN Answer(u, "cancelled") /\ UNCHANGED wait
     ELSE UNCHANGED <<waiting, ready>>
  /\ UNCHANGED <<run, phase, current, killing, settled, shields, batch, now>>

(* The waiter longest in n, if any, answered and its wake marked a notice: *)
(* q is the ready queue it is added to.                                    *)
HandOn(n, q) ==
  IF waiters[n] = <<>>
  THEN /\ ready' = q
       /\ UNCHANGED <<parked, before, waiters>>
  ELSE LET first == Head(waiters[n])
       IN /\ waiters' = [waiters EXCEPT ![n] = Tail(@)]
          /\ parked' = parked \ {first}
          /\ before' = {p \in before : first \notin {p[1], p[2]}}
          /\ ready' = Append(q, WakeOf(first, "ok", n))

(* Notifier:notify_one.                                                    *)
NotifyOne(n) ==
  /\ CodeRuns
  /\ HandOn(n, ready)
  /\ UNCHANGED <<run, phase, current, killing, settled, cancelled, shields,
                 wait, joiners, batch, now>>

(* Notifier:notify_all.                                                    *)
NotifyAll(n) ==
  /\ CodeRuns
  /\ waiters' = [waiters EXCEPT ![n] = <<>>]
  /\ AnswerAll(waiters[n], "ok", None)
  /\ UNCHANGED <<run, phase, current, killing, settled, cancelled, shields,
                 wait, joiners, batch, now>>

(* Poll.closing and Poll.wake: every wait on fd is answered.               *)
AnswerWaits(fd) ==
  /\ CodeRuns
  /\ \E q \in InOrder({t \in parked : fd \in wait[t].fds}) :
        AnswerAll(q, "ok", None)
  /\ UNCHANGED <<run, phase, current, killing, settled, cancelled, shields,
                 wait, joiners, waiters, batch, now>>

(***************************************************************************)
(* Task:kill of the suspended task u: close_task up to coroutine.close.    *)
(* Its wait is finished, or its wake taken from the ready queue and the    *)
(* notice it carried handed on; a wake in the batch is passed by later.    *)
(***************************************************************************)
KillParked(t, u) ==
  /\ Runs(t) /\ u \in parked
  /\ killing' = u /\ killed' = killed \cup {u}
  /\ Finish(u)
  /\ wait' = [wait EXCEPT ![u] = NoWait]
  /\ UNCHANGED <<run, phase, current, tasks, live, ended, cancelled, shields,
                 queues, now>>

(* Mutant: the killed task's wake is left in the ready queue.              *)
KillReady_KeepsWake(t, u) ==
  /\ Runs(t) /\ u # t /\ Queued(ready, u)
  /\ killing' = u /\ killed' = killed \cup {u}
  /\ wait' = [wait EXCEPT ![u] = NoWait]
  /\ UNCHANGED <<run, phase, current, tasks, live, ended, cancelled, shields,
                 parked, joiners, waiters, before, queues, now>>

(* Mutant: the notice the wake carried dies with the task.                 *)
KillReady_DropsNotice(t, u) ==
  /\ Runs(t) /\ u # t
  /\ killing' = u /\ killed' = killed \cup {u}
  /\ \E i \in DOMAIN ready : ready[i].task = u /\ ready' = RemoveAt(ready, i)
  /\ wait' = [wait EXCEPT ![u] = NoWait]
  /\ UNCHANGED <<run, phase, current, tasks, live, ended, cancelled, shields,
                 parked, joiners, waiters, before, batch, now>>

KillReady(t, u) ==
  /\ Runs(t) /\ u # t
  /\ killing' = u /\ killed' = killed \cup {u}
  /\ \E i \in DOMAIN ready :
       /\ ready[i].task = u
       /\ IF ready[i].notice = None
          THEN /\ ready' = RemoveAt(ready, i)
               /\ UNCHANGED <<parked, before, waiters>>
          ELSE HandOn(ready[i].notice, RemoveAt(ready, i))
  /\ wait' = [wait EXCEPT ![u] = NoWait]
  /\ UNCHANGED <<run, phase, current, tasks, live, ended, cancelled, shields,
                 joiners, batch, now>>

KillInBatch(t, u) ==
  /\ Runs(t) /\ u # t /\ u \in tasks /\ Queued(batch, u)
  /\ killing' = u /\ killed' = killed \cup {u}
  /\ wait' = [wait EXCEPT ![u] = NoWait]
  /\ UNCHANGED <<run, phase, current, tasks, live, ended, cancelled, shields,
                 parked, joiners, waiters, before, queues, now>>

(* The task u ends: its joiners are answered.  They stay in its list,      *)
(* which nothing reads once it has ended.                                  *)
End(u, answer) ==
  /\ tasks' = tasks \ {u} /\ live' = live - 1 /\ ended' = ended \cup {u}
  /\ AnswerAll(joiners[u], answer, None)
  /\ joiners' = [joiners EXCEPT ![u] = <<>>]

(* Mutant: a killed task's joiners are told it returned.                   *)
KillEnd_AnswersOk ==
  /\ run = "on" /\ killing # None
  /\ End(killing, "ok")
  /\ shields' = [shields EXCEPT ![killing] = 0]
  /\ killing' = None
  /\ UNCHANGED <<run, phase, current, killed, cancelled, wait, waiters,
                 batch, now>>

(* The rest of close_task: the handlers have run and any shield is let go. *)
KillEnd ==
  /\ run = "on" /\ killing # None
  /\ End(killing, "cancelled")
  /\ shields' = [shields EXCEPT ![killing] = 0]
  /\ killing' = None
  /\ UNCHANGED <<run, phase, current, killed, cancelled, wait, waiters,
                 batch, now>>

(***************************************************************************)
(* How a task ends by itself, as step() settles it, and how a run does.    *)
(***************************************************************************)
Return(t) ==
  /\ Runs(t) /\ shields[t] = 0
  /\ End(t, "ok")
  /\ current' = None
  /\ UNCHANGED <<run, phase, killing, killed, cancelled, shields, wait,
                 waiters, batch, now>>

(* close_all: every task is marked ended and killed, and the loop dropped. *)
CloseAll(how) ==
  /\ run' = how
  /\ ended' = ended \cup tasks /\ killed' = killed \cup tasks
  /\ tasks' = {} /\ live' = 0
  /\ current' = None
  /\ parked' = {} /\ before' = {} /\ wait' = [t \in Task |-> NoWait]
  /\ joiners' = [t \in Task |-> <<>>] /\ waiters' = [n \in Notifier |-> <<>>]
  /\ ready' = <<>> /\ batch' = <<>>
  /\ UNCHANGED <<phase, killing, cancelled, shields, now>>

Raise(t) == Runs(t) /\ CloseAll("raised")

(***************************************************************************)
(* The loop: turn().                                                       *)
(***************************************************************************)
LoopRuns(p) == run = "on" /\ phase = p /\ current = None

(* Mutant: the ready queue is drained before the poll and the clock.       *)
Resume_Drains ==
  LET q == batch \o ready
  IN /\ LoopRuns("batch") /\ q # <<>>
     /\ Head(q).task \notin ended
     /\ current' = Head(q).task
     /\ wait' = [wait EXCEPT ![Head(q).task] = NoWait]
     /\ batch' = Tail(q) /\ ready' = <<>>
     /\ UNCHANGED <<run, phase, killing, settled, cancelled, shields, parked,
                    joiners, waiters, before, now>>

(* The next wake of the batch: its task is resumed with its answer.        *)
Resume ==
  /\ LoopRuns("batch") /\ batch # <<>>
  /\ Head(batch).task \notin ended
  /\ current' = Head(batch).task
  /\ wait' = [wait EXCEPT ![Head(batch).task] = NoWait]
  /\ batch' = Tail(batch)
  /\ UNCHANGED <<run, phase, killing, settled, cancelled, shields, parked,
                 joiners, waiters, before, ready, now>>

(* One killed since is passed by, and the notice it carried handed on.     *)
PassBy ==
  /\ LoopRuns("batch") /\ batch # <<>>
  /\ Head(batch).task \in ended
  /\ IF Head(batch).notice = None
     THEN UNCHANGED <<parked, before, waiters, ready>>
     ELSE HandOn(Head(batch).notice, ready)
  /\ batch' = Tail(batch)
  /\ UNCHANGED <<run, phase, current, killing, settled, cancelled, shields,
                 wait, joiners, now>>

(* The run returns once no task is left.                                   *)
RunReturns ==
  /\ LoopRuns("batch") /\ batch = <<>> /\ live = 0
  /\ run' = "returned"
  /\ UNCHANGED <<phase, current, killing, settled, cancelled, shields,
                 waiting, queues, now>>

OnFd    == {t \in parked : wait[t].fds # {}}
OnTimer == {t \in parked : wait[t].at # None}

(* Mutant: the poll is thought endless though a timer is left.             *)
Stuck_NoTimers == ready = <<>> /\ OnFd = {}

(* Mutant: the test of what next_timeout answers is inverted.              *)
Stuck_Inverted == ready # <<>> /\ OnFd = {} /\ OnTimer = {}

(* poll_once would wait with no descriptor and no limit: it raises.        *)
Stuck == ready = <<>> /\ OnFd = {} /\ OnTimer = {}

(* poll_once: any waits on a descriptor are answered, none of them where   *)
(* the poll times out or a signal cuts it short.                           *)
PollOnce ==
  /\ LoopRuns("batch") /\ batch = <<>> /\ live > 0 /\ ~Stuck
  /\ \E hits \in SUBSET OnFd : \E q \in InOrder(hits) : AnswerAll(q, "ok", None)
  /\ phase' = "expire"
  /\ UNCHANGED <<run, current, killing, settled, cancelled, shields, wait,
                 joiners, waiters, batch, now>>

PollStuck ==
  /\ LoopRuns("batch") /\ batch = <<>> /\ live > 0 /\ Stuck
  /\ CloseAll("deadlock")

PollFails ==
  /\ LoopRuns("batch") /\ batch = <<>> /\ live > 0 /\ ~Stuck
  /\ CloseAll("raised")

(* expire(): the waits whose time has come, nearest first.                 *)
Due == {t \in OnTimer : wait[t].at <= now}

Earlier(t, u) == \/ wait[t].at < wait[u].at
                 \/ wait[t].at = wait[u].at /\ <<t, u>> \in before

ExpireOne ==
  /\ LoopRuns("expire")
  /\ \E t \in Due :
       /\ \A u \in Due \ {t} : Earlier(t, u)
       /\ Answer(t, IF wait[t].kind = "delay" THEN "ok" ELSE "timeout")
  /\ UNCHANGED <<run, phase, current, killing, settled, cancelled, shields,
                 wait, batch, now>>

(* Mutant: the ready queue is emptied before it is taken.                  *)
TakeBatch_Swapped ==
  /\ LoopRuns("expire") /\ Due = {}
  /\ phase' = "batch"
  /\ ready' = <<>> /\ batch' = <<>>
  /\ UNCHANGED <<run, current, killing, settled, cancelled, shields, waiting,
                 now>>

(* None is left: the ready queue becomes the next batch.                   *)
TakeBatch ==
  /\ LoopRuns("expire") /\ Due = {}
  /\ phase' = "batch"
  /\ batch' = ready /\ ready' = <<>>
  /\ UNCHANGED <<run, current, killing, settled, cancelled, shields, waiting,
                 now>>

(* Time passes, but for expire(), which reads the clock once.              *)
Tick ==
  /\ run = "on" /\ phase # "expire" /\ now < MaxTime
  /\ now' = now + 1
  /\ UNCHANGED <<run, phase, current, killing, settled, cancelled, shields,
                 waiting, queues>>

(* A run that ended stays so.                                              *)
Over == run # "on" /\ UNCHANGED vars

(***************************************************************************)
(* The specification.  A task yields, returns or raises in the end, as do  *)
(* the handlers a kill runs; the loop goes on and so does the clock.       *)
(***************************************************************************)
Yield(t) ==
  \E at \in Deadlines :
     \/ \E fd \in Fd : WaitFd(t, fd, at)
     \/ \E fds \in SUBSET Fd : WaitReady(t, fds, at)
     \/ Delay(t, at)
     \/ \E n \in Notifier : NotifierWait(t, n, at)
     \/ \E u \in Task : Join(t, u, at)

Stop(t) == Return(t) \/ Raise(t)

Kill(t) == \E u \in Task : KillParked(t, u) \/ KillReady(t, u) \/ KillInBatch(t, u)

Call(t) == \/ \E u \in Task : Spawn(t, u)
           \/ Shield(t) \/ Unshield(t)
           \/ Kill(t)

Handler == \/ \E u \in Task : Cancel(u)
           \/ \E n \in Notifier : NotifyOne(n) \/ NotifyAll(n)
           \/ \E fd \in Fd : AnswerWaits(fd)

Turn == \/ Resume \/ PassBy \/ RunReturns
        \/ PollOnce \/ PollStuck \/ PollFails
        \/ ExpireOne \/ TakeBatch

Next == \/ \E t \in Task : Yield(t) \/ Stop(t) \/ Call(t)
        \/ Handler \/ KillEnd
        \/ Turn \/ Tick \/ Over

Fairness == /\ WF_vars(\E t \in Task : Yield(t) \/ Stop(t))
            /\ WF_vars(KillEnd)
            /\ WF_vars(Turn)
            /\ SF_vars(Tick)

Spec == Init /\ [][Next]_vars
FairSpec == Spec /\ Fairness
-----------------------------------------------------------------------------
(***************************************************************************)
(* What the scheduler promises.                                            *)
(***************************************************************************)
(* The variables keep their types; nothing runs between two turns.         *)
TypeOK ==
  /\ run \in {"on", "returned", "raised", "deadlock"}
  /\ phase \in {"batch", "expire"}
  /\ current \in Task \cup {None} /\ killing \in Task \cup {None}
  /\ tasks \subseteq Task /\ live \in Nat
  /\ ended \subseteq Task /\ killed \subseteq Task /\ cancelled \subseteq Task
  /\ shields \in [Task -> Nat]
  /\ parked \subseteq Task /\ wait \in [Task -> Wait]
  /\ joiners \in [Task -> Seq(Task)] /\ waiters \in [Notifier -> Seq(Task)]
  /\ ready \in Seq(Wake) /\ batch \in Seq(Wake)
  /\ before \subseteq parked \X parked
  /\ now \in Nat

(* Each task not ended is in exactly one place: it runs, its handlers run, *)
(* it is parked in a wait, or one wake of it is queued.  So no wake is     *)
(* lost and no task is resumed twice for one wait, whatever kills, cancels *)
(* and closings fall between a wake and its resume (poll.tl wake, step).   *)
Once(q) == \A i, j \in DOMAIN q : q[i].task = q[j].task => i = j

OnePlace ==
  /\ Once(ready) /\ Once(batch)
  /\ \A t \in tasks :
       \/ t \in {current, killing} \cup parked
       \/ Queued(ready, t) \/ Queued(batch, t)
  /\ \A t \in Task : Queued(ready, t) => t \in tasks /\ ~Queued(batch, t)
  /\ \A t \in parked : ~Queued(ready, t) /\ ~Queued(batch, t)
  /\ parked \subseteq tasks
  /\ current # None => /\ current \in tasks \ parked
                       /\ ~Queued(ready, current) /\ ~Queued(batch, current)
  /\ killing # None => /\ current \notin {None, killing}
                       /\ killing \in (tasks \cap killed) \ parked
                       /\ ~Queued(ready, killing)
  /\ tasks \cap ended = {}
  /\ tasks \cap killed \subseteq {killing}

(* A notifier's waiters and a live task's joiners are exactly the tasks    *)
(* parked there, each once: an answer by a timer, a cancel or a kill       *)
(* leaves no entry behind for a later notify or end to spend itself on     *)
(* (poll.tl unjoin, ungate, finish).                                       *)
ListsExact ==
  /\ \A n \in Notifier :
       /\ IsInjective(waiters[n])
       /\ ToSet(waiters[n]) = {t \in parked : wait[t].gate = n}
  /\ \A u \in Task :
       /\ IsInjective(joiners[u])
       /\ ToSet(joiners[u]) = {t \in parked : wait[t].joined = u}
  /\ \A t \in parked : wait[t].joined \in tasks \cup {None}

(* loop.live counts the tasks not ended, so that the run returns when, and *)
(* only when, none is left: each is counted out once, killed or returned.  *)
LiveCount == live = Cardinality(tasks)

(* A task cancelled and not shielded is parked in no wait: a cancel that   *)
(* comes before, during or after a shield is answered at the next moment   *)
(* no shield holds it (poll.tl park, cancel, Poll.shielded).               *)
CancelledNotParked ==
  \A t \in parked : t \in cancelled => shields[t] > 0

(* What a queued wake tells its task is true when it is resumed: a timeout *)
(* only once the time has come, a cancel only of a task cancelled or one   *)
(* that joined a killed task, a join's success only of a task that         *)
(* returned, a delay's only once it has passed (poll.tl wake's callers).   *)
TrueWake(w) ==
  LET of == wait[w.task]
  IN w.task \in tasks \ {killing} =>
       /\ w.answer = "timeout" =>
            of.kind # "delay" /\ of.at # None /\ of.at <= now
       /\ w.answer = "cancelled" =>
            \/ w.task \in cancelled /\ shields[w.task] = 0
            \/ of.kind = "join" /\ of.joined \in ended \cap killed
       /\ w.answer = "ok" =>
            /\ of.kind = "join" => of.joined \in ended \ killed
            /\ of.kind = "delay" => of.at # None /\ of.at <= now

Truthful == \A w \in ToSet(ready) \cup ToSet(batch) : TrueWake(w)

(* poll_once raises "every task waits on another" only when that is so:    *)
(* each task left is parked in a join or a notifier with no time limit,    *)
(* which nothing outside the run could end.                                *)
DeadlockHonest ==
  [][run' = "deadlock" /\ run = "on" =>
       \A t \in tasks : /\ t \in parked
                        /\ wait[t].kind \in {"join", "notice"}
                        /\ wait[t].at = None]_vars

(* A wait with a time limit ends, whatever the other tasks do: a batch a   *)
(* turn keeps a cancelled task that waits in a loop from holding back the  *)
(* clock (poll.tl turn).                                                   *)
TimedWaitEnds ==
  \A t \in Task : (t \in parked /\ wait[t].at # None) ~> (t \notin parked)

(* A task with a wake queued is resumed, or ends first.                    *)
WokenResumes ==
  \A t \in Task : (t \in tasks /\ (Queued(ready, t) \/ Queued(batch, t)))
                     ~> (t = current \/ t \in ended)

(* A run left with tasks that wait only on each other ends in an error     *)
(* rather than hanging.  Nobody in it is on the way to be woken: not even  *)
(* by a notice a killed task was given, which the batch will hand on.      *)
AllStuck == /\ run = "on" /\ current = None
            /\ \A t \in tasks : /\ t \in parked
                                /\ wait[t].kind \in {"join", "notice"}
                                /\ wait[t].at = None
            /\ \A w \in ToSet(batch) : w.notice = None
StuckEnds == AllStuck ~> (run # "on")
=============================================================================
