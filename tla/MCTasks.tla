------------------------------ MODULE MCTasks -------------------------------
(***************************************************************************)
(* The tasks of a run on small instances: at whatever Poll lets them do,   *)
(* or at the calls of one channel (the tasks but the first are             *)
(* interchangeable), or at the guards of the signals.                      *)
(***************************************************************************)
EXTENDS Channel, SignalGuard, TLC

Symmetry == Permutations(Task \ {Main})

VARIABLE at_work  \* "poll", "channel" or "guards": what the tasks do

TasksInit == ChannelInit /\ GuardInit /\ at_work \in {"poll", "channel", "guards"}

(* Of Poll's waits for a notice those on one notifier are enough, and of   *)
(* its shields one at a time, which puts off that task's cancel only.      *)
TasksNext ==
  /\ UNCHANGED at_work
  /\ \/ /\ at_work = "poll" /\ Next /\ UNCHANGED <<queue, op, sent, guardVars>>
        /\ waiters'[NotFull] = <<>>
        /\ shields'[Main] = 0 /\ Cardinality({t \in Task : shields'[t] > 0}) <= 1
     \/ at_work = "channel" /\ ChannelNext /\ UNCHANGED guardVars
     \/ at_work = "guards" /\ GuardNext /\ UNCHANGED allvars

TasksSpec == TasksInit /\ [][TasksNext]_<<allvars, guardVars, at_work>>

=============================================================================
