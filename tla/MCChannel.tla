----------------------------- MODULE MCChannel ------------------------------
(***************************************************************************)
(* A channel between the tasks of a crew: of any kind between two, or one  *)
(* that holds an item and blocks between three, so that a notice is under  *)
(* way to one caller while another waits beside it.  Or three tasks at     *)
(* whatever Poll lets them do with a notifier and a descriptor.  Two tasks *)
(* with a channel of the narrow kind may set a time limit and delay; the   *)
(* others never do, and the clock they do not look at stands.              *)
(***************************************************************************)
EXTENDS Channel

VARIABLES crew,  \* the tasks the run may have
          free   \* whether they do whatever they like
crewVars == <<crew, free, allvars>>

Second == CHOOSE t \in Task : t # Main
Narrow == capacity = 1 /\ overflow = "block"
Timed  == crew # Task /\ Narrow

CrewInit == /\ ChannelInit
            /\ crew \in {{Main, Second}, Task} /\ free \in BOOLEAN
            /\ crew = Task => Narrow
            /\ free => crew = Task

(* Of tasks that are alike the second starts before the third, and of      *)
(* three in the calls of a channel one is cancelled.                       *)
Within ==
  /\ tasks' \subseteq crew
  /\ tasks' \cup ended' = {Main} \/ Second \in tasks' \cup ended'
  /\ free => \A t \in Task : wait'[t].gate # NotFull /\ wait'[t].kind # "ready"
  /\ crew = Task /\ ~free => Cardinality(cancelled') <= 1
  /\ ~Timed => /\ now' = 0
               /\ \A t \in Task : /\ wait'[t].at = None /\ op'[t].at = None
                                  /\ ~\E at \in Deadlines : Delay(t, at)

CrewNext == /\ \/ free /\ Next /\ UNCHANGED <<queue, op, sent>>
               \/ ~free /\ ChannelNext
            /\ Within /\ UNCHANGED <<crew, free>>

(* Of tasks free to do what they like, in no call of the channel,          *)
(* CallsGoOn asks what Poll's Fairness does.                               *)
CrewSpec ==
  /\ CrewInit /\ [][CrewNext]_crewVars
  /\ CallsGoOn /\ SF_allvars(ClockStep /\ Timed)
=============================================================================
