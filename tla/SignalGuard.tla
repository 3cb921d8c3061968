---------------------------- MODULE SignalGuard -----------------------------
(***************************************************************************)
(* Signal.guard (cosmic/signal.tl, cosmic/internal/innermost_guard.tl) on  *)
(* the core's signal stamp and wake pipe (core/syscalls.c): nested guards  *)
(* that hold SIGINT and SIGTERM, and the tasks that wait on them.          *)
(*                                                                         *)
(* A signal comes between any two steps.  A step stands for what a task    *)
(* does that a signal in the middle of it could not tell apart: the core   *)
(* opens and closes a guard with both signals blocked, and reads the stamp *)
(* in one load.  The dispositions the first guard finds are the default,   *)
(* which ends the process: an ignored signal is never caught and changes   *)
(* nothing, and an open that fails for want of a pipe leaves no trace.     *)
(***************************************************************************)
EXTENDS Integers, SequencesExt

CONSTANTS Guard,      \* the guards, each opened once
          Waited,     \* the guards some task calls wait on
          Waiter,     \* the tasks of the Poll.run
          Signals,    \* the numbers of the signals not ignored
          Unit,       \* SIGNAL_STAMP_UNIT
          MaxCaught   \* bound: how many signals are caught

ASSUME GuardAssumption ==
  /\ Waited \subseteq Guard /\ MaxCaught \in Nat /\ Unit \in Nat \ {0}
  /\ Signals \subseteq 1 .. Unit - 1

VARIABLES stamp,     \* child_signal_stamp
          depth,     \* child_guard_depth
          read_to,   \* child_signal_read_to
          readable,  \* whether the wake pipe holds a byte
          died,      \* the signal the process died of, or 0
          guards,    \* open_guards, the innermost last
          status,    \* each guard: state.closed, and how it was closed
          read,      \* each guard's state.read
          fresh,     \* each guard's state.fresh
          signal,    \* each guard's _signal
          owed,      \* owed
          at,        \* where each task is in g:wait
          on,        \* the guard each task waits on
          opened     \* history: the stamp as each guard opened

core  == <<stamp, depth, read_to, readable>>
state == <<read, fresh, signal>>
guardVars  == <<core, died, guards, status, state, owed, at, on, opened>>

GuardInit ==
  /\ stamp = 0 /\ depth = 0 /\ read_to = 0 /\ readable = FALSE /\ died = 0
  /\ guards = <<>> /\ status = [g \in Guard |-> "new"] /\ owed = 0
  /\ read = [g \in Guard |-> 0] /\ opened = [g \in Guard |-> 0]
  /\ fresh = [g \in Guard |-> 0] /\ signal = [g \in Guard |-> 0]
  /\ at = [t \in Waiter |-> "idle"] /\ on \in [Waiter -> Waited]

(* The process lives, and no task is in the middle of a wait.              *)
BetweenSteps == died = 0 /\ \A t \in Waiter : at[t] # "drained"

IsOpen(g) == status[g] = "open"

(***************************************************************************)
(* catch_child_cancel: the stamp counts the signal and names it, and the   *)
(* pipe gets a byte.  With no guard open the process dies of it.           *)
(***************************************************************************)
Signal(s) ==
  /\ died = 0 /\ stamp \div Unit < MaxCaught
  /\ IF depth = 0
     THEN died' = s /\ UNCHANGED core
     ELSE /\ stamp' = (stamp \div Unit + 1) * Unit + s
          /\ readable' = TRUE
          /\ UNCHANGED <<depth, read_to, died>>
  /\ UNCHANGED <<guards, status, state, owed, at, on, opened>>

(* The core opens a guard, with both signals blocked: the first installs   *)
(* the handler and an empty pipe.                                          *)
guard_child_signals ==
  depth' = depth + 1 /\ read_to' = stamp /\ readable' = (depth > 0 /\ readable)

(* Mutant: the core keeps the stamp the closed guard had read.             *)
unguard_child_signals_KeepsRead(innermost_read) ==
  depth' = depth - 1 /\ readable' = (depth > 1 /\ readable) /\ UNCHANGED read_to

(* The core closes one: the last takes the handler and the pipe away, any  *)
(* other leaves what the innermost guard left has read.                    *)
unguard_child_signals(innermost_read) ==
  /\ depth' = depth - 1
  /\ readable' = (depth > 1 /\ readable)
  /\ read_to' = IF depth > 1 THEN innermost_read ELSE read_to

child_signal_read(active) == read_to' = IF active THEN stamp ELSE read_to

(* Signal.guard.                                                           *)
guard(g) ==
  /\ BetweenSteps /\ status[g] = "new"
  /\ guards' = Append(guards, g) /\ status' = [status EXCEPT ![g] = "open"]
  /\ guard_child_signals
  /\ read' = [read EXCEPT ![g] = stamp] /\ opened' = [opened EXCEPT ![g] = stamp]
  /\ UNCHANGED <<stamp, died, fresh, signal, owed, at, on>>

(* noted, once the core has answered the stamp, and what take leaves of    *)
(* the signal then.                                                        *)
Noted(g, kept) ==
  /\ read' = [read EXCEPT ![g] = stamp]
  /\ signal' = [signal EXCEPT ![g] = IF stamp # read[g] THEN stamp % Unit ELSE @]
  /\ fresh' = [fresh EXCEPT ![g] = kept]

(* The signal since g's last take, once g has been read.                   *)
Fresh(g) == IF IsOpen(g) /\ stamp # read[g] THEN stamp % Unit ELSE fresh[g]

(* read_guard: a closed guard reads nothing more.                          *)
read_guard(g, kept) ==
  IF IsOpen(g)
  THEN Noted(g, kept) /\ child_signal_read(g = Last(guards))
  ELSE fresh' = [fresh EXCEPT ![g] = kept] /\ UNCHANGED <<read, signal, read_to>>

guard_cancelled(g) ==
  /\ BetweenSteps /\ IsOpen(g)
  /\ read_guard(g, Fresh(g))
  /\ UNCHANGED <<stamp, depth, readable, died, guards, status, owed, at, on, opened>>

take(g) ==
  /\ BetweenSteps /\ status[g] # "new"
  /\ read_guard(g, 0)
  /\ UNCHANGED <<stamp, depth, readable, died, guards, status, owed, at, on, opened>>
-----------------------------------------------------------------------------

(* Poll.closing of the pipe: every wait on it is answered.                 *)
Closing == [t \in Waiter |-> IF at[t] = "parked" THEN "ready" ELSE at[t]]

Left(g) == RemoveAt(guards, CHOOSE i \in DOMAIN guards : guards[i] = g)

(* restore_guard: the guard leaves the open ones, and reads the stamp a    *)
(* last time.                                                              *)
restore_guard(g, how) ==
  /\ BetweenSteps /\ IsOpen(g)
  /\ guards' = Left(g) /\ status' = [status EXCEPT ![g] = how]
  /\ unguard_child_signals(IF guards' = <<>> THEN 0 ELSE read[Last(guards')])
  /\ at' = Closing
  /\ Noted(g, Fresh(g))
  /\ UNCHANGED <<stamp, on, opened>>

(* Mutant: a guard closed under another leaves nothing owed.               *)
close_OwesNothing(g) ==
  /\ restore_guard(g, "closed")
  /\ owed' = 0
  /\ died' = IF guards' # <<>> THEN 0
             ELSE IF signal'[g] # 0 THEN signal'[g] ELSE owed % Unit

(* g:close: the last open delivers its signal, or the one owed; another    *)
(* leaves its own owed.                                                    *)
close(g) ==
  /\ restore_guard(g, "closed")
  /\ IF guards' = <<>>
     THEN /\ owed' = 0
          /\ died' = IF signal'[g] # 0 THEN signal'[g] ELSE owed % Unit
     ELSE /\ owed' = IF signal'[g] # 0 /\ read'[g] > owed THEN read'[g] ELSE owed
          /\ died' = 0

(* g:release: the guard keeps its signal; one owed is delivered if it has  *)
(* none.                                                                   *)
release(g) ==
  /\ restore_guard(g, "released")
  /\ IF guards' = <<>>
     THEN owed' = 0 /\ died' = IF signal'[g] = 0 THEN owed % Unit ELSE 0
     ELSE UNCHANGED <<owed, died>>
-----------------------------------------------------------------------------
(***************************************************************************)
(* g:wait.  A task asks before it waits, parks on the pipe, and once woken *)
(* drains the pipe and asks again.                                         *)
(***************************************************************************)
Asks(t, g) ==
  /\ read_guard(g, 0)
  /\ at' = [at EXCEPT ![t] = IF Fresh(g) # 0 \/ ~IsOpen(g) THEN "idle" ELSE "parked"]
  /\ UNCHANGED <<stamp, depth, readable, died, guards, status, owed, opened>>

guard_wait(t, g) ==
  /\ BetweenSteps /\ at[t] = "idle" /\ status[g] # "new"
  /\ on' = [on EXCEPT ![t] = g]
  /\ Asks(t, g)

(* Mutant: a woken task drains the pipe and waits again without asking.    *)
Resumes_NeverAsks(t) ==
  /\ BetweenSteps /\ at[t] = "batch"
  /\ at' = [at EXCEPT ![t] = IF IsOpen(on[t]) THEN "parked" ELSE "drained"]
  /\ readable' = (readable /\ ~IsOpen(on[t]))
  /\ UNCHANGED <<stamp, depth, read_to, died, guards, status, state, owed, on, opened>>

Resumes(t) ==
  /\ BetweenSteps /\ at[t] = "batch"
  /\ at' = [at EXCEPT ![t] = "drained"]
  /\ readable' = (readable /\ ~IsOpen(on[t]))
  /\ UNCHANGED <<stamp, depth, read_to, died, guards, status, state, owed, on, opened>>

AsksAgain(t) == died = 0 /\ at[t] = "drained" /\ Asks(t, on[t]) /\ UNCHANGED on

(* The time limit passes, or the task is cancelled or killed.              *)
GivesUp(t) ==
  /\ BetweenSteps /\ at[t] = "parked"
  /\ at' = [at EXCEPT ![t] = "idle"]
  /\ UNCHANGED <<core, died, guards, status, state, owed, on, opened>>

(* A turn of the run (Poll.tla): what is parked on a readable pipe, and    *)
(* what was answered before, is the next batch to resume.                  *)
GuardTurn ==
  /\ BetweenSteps /\ \A t \in Waiter : at[t] # "batch"
  /\ at' = [t \in Waiter |->
              IF at[t] = "ready" \/ (at[t] = "parked" /\ readable) THEN "batch" ELSE at[t]]
  /\ UNCHANGED <<core, died, guards, status, state, owed, on, opened>>

Dead == died # 0 /\ UNCHANGED guardVars

GuardNext == \/ \E s \in Signals : Signal(s)
             \/ \E g \in Guard : guard(g) \/ guard_cancelled(g) \/ take(g) \/ close(g) \/ release(g)
             \/ \E t \in Waiter : \/ \E g \in Waited : guard_wait(t, g)
                                  \/ Resumes(t) \/ AsksAgain(t) \/ GivesUp(t)
             \/ GuardTurn \/ Dead

GuardSpec == GuardInit /\ [][GuardNext]_guardVars

(* The run's loop goes on, and resumes every task of a batch.              *)
FairGuardSpec == /\ GuardSpec /\ WF_guardVars(GuardTurn)
                 /\ \A t \in Waiter : WF_guardVars(Resumes(t)) /\ WF_guardVars(AsksAgain(t))
-----------------------------------------------------------------------------
(* The variables keep their types, and the core counts the guards open.    *)
GuardTypeOK ==
  /\ stamp \in Nat /\ read_to \in Nat /\ readable \in BOOLEAN
  /\ died \in Signals \cup {0} /\ owed \in Nat
  /\ guards \in Seq(Guard) /\ IsInjective(guards) /\ depth = Len(guards)
  /\ status \in [Guard -> {"new", "open", "closed", "released"}]
  /\ ToSet(guards) = {g \in Guard : IsOpen(g)}
  /\ read \in [Guard -> Nat] /\ opened \in [Guard -> Nat]
  /\ fresh \in [Guard -> Signals \cup {0}] /\ signal \in [Guard -> Signals \cup {0}]
  /\ at \in [Waiter -> {"idle", "parked", "ready", "batch", "drained"}]
  /\ on \in [Waiter -> Waited]

(* What the core's own waits ask (cosmic_signal_caught) is whether the     *)
(* innermost guard has a signal to read, whichever guard was opened, read  *)
(* or closed before, and in whatever order.                                *)
CoreAgrees == guards # <<>> => read_to = read[Last(guards)]

(* "Each guard sees the signals delivered since it opened, and none        *)
(* before": a guard that has read no further than its opening answers no   *)
(* signal, and any other the one it read last.                             *)
SeesSince ==
  \A g \in Guard :
     /\ opened[g] <= read[g] /\ read[g] <= stamp
     /\ signal[g] = IF read[g] = opened[g] THEN 0 ELSE read[g] % Unit

(* No signal is lost with the guards: a process that outlives its last     *)
(* guard has had the last signal caught answered by a guard it released    *)
(* rather than closed.                                                     *)
NoSignalLost ==
  depth = 0 /\ died = 0 /\ stamp # 0 =>
     \E g \in Guard : status[g] = "released" /\ read[g] = stamp /\ signal[g] # 0

(* No task is parked on a pipe that is closed, whose number the next       *)
(* guard's pipe may have.                                                  *)
ParkedOnOpen == \A t \in Waiter : at[t] = "parked" => IsOpen(on[t])

(* A wait on a guard that has a signal to take ends, or another caller     *)
(* reads the guard first.                                                  *)
WaitTakes ==
  \A t \in Waiter :
     at[t] = "parked" /\ read[on[t]] # stamp
        ~> at[t] # "parked" \/ read[on[t]] = stamp \/ died # 0

(* However guards nest, every reader of a signal sees its own: the core's  *)
(* waits the innermost guard's, a guard those since it opened, a parked    *)
(* task those of a guard still open.                                       *)
GuardsAgree == GuardTypeOK /\ CoreAgrees /\ SeesSince /\ ParkedOnOpen
=============================================================================
