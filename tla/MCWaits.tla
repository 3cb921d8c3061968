------------------------------- MODULE MCWaits -------------------------------
(***************************************************************************)
(* What has to go on: the waits of a run of Poll with two tasks and two    *)
(* descriptors, of two tasks on the signals' guards, and of two tasks on   *)
(* the connector.  One of the three runs, with its own fairness; the       *)
(* others stay where they start, with nobody waiting.                      *)
(***************************************************************************)
EXTENDS Poll, SignalGuard, MCConnector

VARIABLE part
waitVars == <<part, vars, guardVars, connectorVars>>

(* A run of the loop that its main task ended at once.                     *)
RunOver ==
  /\ run = "returned" /\ phase = "batch"
  /\ current = None /\ killing = None
  /\ tasks = {} /\ live = 0 /\ ended = {Main} /\ killed = {}
  /\ cancelled = {} /\ shields = [t \in Task |-> 0]
  /\ parked = {} /\ before = {} /\ wait = [t \in Task |-> NoWait]
  /\ joiners = [t \in Task |-> <<>>] /\ waiters = [n \in Notifier |-> <<>>]
  /\ ready = <<>> /\ batch = <<>>
  /\ now = 0

WaitsInit == /\ GuardInit /\ ConnectorInit
             /\ \/ part = "poll" /\ Init
                \/ part \in {"guards", "connector"} /\ RunOver

Polling(step) == part = "poll" /\ step /\ UNCHANGED <<part, guardVars, connectorVars>>
Guarding(step) == part = "guards" /\ step /\ UNCHANGED <<part, vars, connectorVars>>
Asking(step) == part = "connector" /\ step /\ UNCHANGED <<part, vars, guardVars>>

WaitsNext == Polling(Next) \/ Guarding(GuardNext) \/ Asking(ConnectorNext)

WaitsFairness ==
  /\ WF_waitVars(Polling(\E t \in Task : Yield(t) \/ Stop(t)))
  /\ WF_waitVars(Polling(KillEnd))
  /\ WF_waitVars(Polling(Turn))
  /\ SF_waitVars(Polling(Tick))
  /\ WF_waitVars(Guarding(GuardTurn))
  /\ \A t \in Waiter : /\ WF_waitVars(Guarding(Resumes(t)))
                       /\ WF_waitVars(Guarding(AsksAgain(t)))
  /\ WF_waitVars(Asking(Fork)) /\ WF_waitVars(Asking(Hold))
  /\ WF_waitVars(Asking(Started)) /\ WF_waitVars(Asking(Hello))
  /\ WF_waitVars(Asking(connector_loop)) /\ WF_waitVars(Asking(Late))
  /\ \A t \in Tasks : WF_waitVars(Asking(await_resumes(t)))

WaitsSpec == WaitsInit /\ [][WaitsNext]_waitVars /\ WaitsFairness
=============================================================================
