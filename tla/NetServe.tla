------------------------------ MODULE NetServe ------------------------------
(***************************************************************************)
(* Net.serve (cosmic/net.tl): a server's accept tasks, the task of each    *)
(* connection, its stop, its drain and the signals that bring them about.  *)
(*                                                                         *)
(* The server runs in one Poll.run: a task runs until it waits, so a step  *)
(* stands for what one task does between two waits.  Where that is more    *)
(* than one step, `thread` names the task that goes on.  The protocol,     *)
(* on_ready, on_stop and on_error are the program's own: they may return   *)
(* at any time, wait before they do, raise, or stop the server.            *)
(***************************************************************************)
EXTENDS Integers, FiniteSets

CONSTANTS Conn,      \* the connections, each accepted at most once
          Listener,  \* spec.listeners
          Most,      \* spec.limits.connections
          Graces,    \* whether spec.grace_ns may be set: TRUE, FALSE or both
          OnError,   \* what spec.on_error may do: "returns", "waits", "raises"
          CloseFails,  \* whether closing a listener may fail
          MaxSignals   \* bound: how many signals come

ASSUME ServeAssumption ==
  /\ IsFiniteSet(Conn) /\ IsFiniteSet(Listener) /\ Most \in Nat \ {0}
  /\ Graces \subseteq BOOLEAN /\ CloseFails \in BOOLEAN /\ MaxSignals \in Nat
  /\ OnError \subseteq {"returns", "waits", "raises"}
  /\ {"none", "stop", "main", "watcher", "pick", "ended"} \cap (Conn \cup Listener) = {}

VARIABLES run,        \* "on", or how Net.serve ended
          thread,     \* the task in the middle of a step, or "none"
          main,       \* where the run's first task is
          open,       \* s.open
          stopping,   \* s.stopping
          hurried,    \* s.hurried
          signalled,  \* s.signalled
          conns,      \* s.conns
          task,       \* each connection's task
          pending,    \* the connections in each listener's backlog
          listening,  \* the listeners open
          acc,        \* each listener's accept task: a.task
          failing,    \* the listeners whose last accept failed: a.failing
          by,         \* who is in stop(s), or "none"
          unstopped,  \* the listeners stop(s) has yet to close
          waiter,     \* s.waiter
          stopper,    \* s.stopper: its join, on_stop, a wait of on_stop's, or ended
          stopCut,    \* s.stopper has been cancelled
          grace,      \* s.grace: the connection it joins, or how it stands
          graceCut,   \* s.grace has been cancelled
          caught,     \* signals the guard holds that the watcher has not taken
          signals,    \* signals that have come
          graced,     \* whether spec.grace_ns is set
          left        \* the tasks drain() has listed and not yet killed

flags   == <<stopping, hurried, signalled>>
serving == <<open, conns, task>>
accepts == <<pending, listening, acc, failing>>
stops   == <<by, unstopped, waiter, stopper, stopCut>>
drains  == <<grace, graceCut, left>>
guarded == <<caught, signals, graced>>
serveVars == <<run, thread, main, flags, serving, accepts, stops, drains, guarded>>

(* serving(), up to on_ready: the listeners listen, the waiter, the        *)
(* stopper, the watcher and an accept task for each listener are spawned.  *)
(* A server given no on_stop is one whose on_stop does nothing.            *)
ServeInit ==
  /\ run = "on" /\ thread = "none" /\ main = "on_ready"
  /\ open = 0 /\ stopping = FALSE /\ hurried = FALSE /\ signalled = FALSE
  /\ conns = {} /\ task = [c \in Conn |-> "unused"]
  /\ pending = [l \in Listener |-> {}] /\ listening = Listener
  /\ acc = [l \in Listener |-> "new"] /\ failing = {}
  /\ by = "none" /\ unstopped = {} /\ waiter = "waits" /\ stopper = "joins" /\ stopCut = FALSE
  /\ grace = "none" /\ graceCut = FALSE /\ left = {}
  /\ caught = 0 /\ signals = 0 /\ graced \in Graces

(* No task runs: the loop may resume one.                                  *)
Idle == run = "on" /\ thread = "none"

(* The run raises: serving_mt.__close closes every listener and connection. *)
RunRaises ==
  /\ run' = "raised" /\ thread' = "none"
  /\ listening' = {} /\ conns' = {}
  /\ UNCHANGED <<main, flags, open, task, pending, acc, failing, stops,
                 drains, guarded>>

(***************************************************************************)
(* What comes from outside: connections, and signals the guard catches.    *)
(***************************************************************************)
Arrive(l, c) ==
  /\ run = "on" /\ l \in listening /\ task[c] = "unused"
  /\ \A k \in Listener : c \notin pending[k]
  /\ pending' = [pending EXCEPT ![l] = @ \cup {c}]
  /\ UNCHANGED <<run, thread, main, flags, serving, listening, acc, failing,
                 stops, drains, guarded>>

Signal ==
  /\ run = "on" /\ main # "done" /\ signals < MaxSignals
  /\ caught' = caught + 1 /\ signals' = signals + 1
  /\ UNCHANGED <<run, thread, main, flags, serving, accepts, stops, drains, graced>>

(***************************************************************************)
(* accept_loop.                                                            *)
(***************************************************************************)
(* The accept task is new, its pause or its report is over, or its         *)
(* listener is readable or closed.                                         *)
AcceptResumes(l) ==
  /\ Idle
  /\ \/ acc[l] \in {"new", "pause"}
     \/ acc[l] = "readable" /\ (pending[l] # {} \/ l \notin listening)
  /\ thread' = l
  /\ UNCHANGED <<run, main, flags, serving, accepts, stops, drains, guarded>>

Accepts(l) == thread = l /\ ~stopping /\ open < Most

(* serve_conn of a connection accepted, the loop going on.                 *)
AcceptOne(l, c) ==
  /\ Accepts(l) /\ c \in pending[l]
  /\ pending' = [pending EXCEPT ![l] = @ \ {c}]
  /\ open' = open + 1 /\ conns' = conns \cup {c}
  /\ task' = [task EXCEPT ![c] = "new"]
  /\ failing' = failing \ {l}
  /\ UNCHANGED <<run, thread, main, flags, listening, acc, stops, drains, guarded>>

AcceptWaits(l) ==
  /\ Accepts(l) /\ pending[l] = {}
  /\ acc' = [acc EXCEPT ![l] = "readable"] /\ failing' = failing \ {l}
  /\ thread' = "none"
  /\ UNCHANGED <<run, main, flags, serving, pending, listening, stops, drains,
                 guarded>>

(* A failing accept is reported once, and tried again after a pause.       *)
AcceptFails(l) ==
  /\ Accepts(l)
  /\ \/ /\ l \notin failing /\ "raises" \in OnError /\ RunRaises
     \/ /\ l \in failing \/ OnError \cap {"returns", "waits"} # {}
        /\ failing' = failing \cup {l}
        /\ acc' = [acc EXCEPT ![l] = "pause"] /\ thread' = "none"
        /\ UNCHANGED <<run, main, flags, serving, pending, listening, stops,
                       drains, guarded>>

AcceptEnds(l) ==
  /\ thread = l /\ (stopping \/ open >= Most)
  /\ acc' = [acc EXCEPT ![l] = "none"] /\ thread' = "none"
  /\ UNCHANGED <<run, main, flags, serving, pending, listening, failing, stops,
                 drains, guarded>>

(***************************************************************************)
(* A connection's task.                                                    *)
(***************************************************************************)
InProtocol(c) == task[c] \in {"new", "serving"} /\ by # c

ConnStarts(c) ==
  /\ Idle /\ task[c] = "new"
  /\ task' = [task EXCEPT ![c] = "serving"]
  /\ UNCHANGED <<run, thread, main, flags, open, conns, accepts, stops, drains,
                 guarded>>

(* Mutant: accepting is resumed at one listener only.                      *)
resume_accepting_One ==
  acc' = IF stopping \/ open' >= Most \/ \A l \in Listener : acc[l] # "none" THEN acc
         ELSE [acc EXCEPT ![CHOOSE l \in Listener : acc[l] = "none"] = "new"]

(* resume_accepting, with the count of open connections it finds.          *)
resume_accepting ==
  acc' = IF stopping \/ open' >= Most THEN acc
         ELSE [l \in Listener |-> IF acc[l] = "none" THEN "new" ELSE acc[l]]

(* The protocol is done: what serve_conn does then, up to its report.      *)
ConnLeaves(c, state) ==
  /\ Idle /\ InProtocol(c)
  /\ open' = open - 1 /\ conns' = conns \ {c}
  /\ task' = [task EXCEPT ![c] = state]
  /\ resume_accepting
  /\ UNCHANGED <<run, thread, main, flags, pending, listening, failing, stops,
                 drains, guarded>>

ConnReturns(c) == ConnLeaves(c, "ended")

(* The protocol raised, which is reported.                                 *)
ConnRaises(c) ==
  \/ "returns" \in OnError /\ ConnLeaves(c, "ended")
  \/ "waits" \in OnError /\ ConnLeaves(c, "reporting")
  \/ "raises" \in OnError /\ Idle /\ InProtocol(c) /\ RunRaises

ConnReported(c) ==
  /\ Idle /\ task[c] = "reporting"
  /\ task' = [task EXCEPT ![c] = "ended"]
  /\ UNCHANGED <<run, thread, main, flags, open, conns, accepts, stops, drains,
                 guarded>>

(***************************************************************************)
(* stop(s), called by a protocol, by on_ready or by the watcher.           *)
(***************************************************************************)
StopBegins(who) ==
  /\ ~stopping /\ stopping' = TRUE
  /\ by' = who /\ unstopped' = Listener /\ thread' = "stop"

stop ==
  /\ Idle
  /\ \E who \in Conn \cup {"main"} :
       /\ who \in Conn => InProtocol(who)
       /\ who = "main" => main = "on_ready"
       /\ StopBegins(who)
  /\ UNCHANGED <<run, main, hurried, signalled, serving, accepts, waiter,
                 stopper, stopCut, drains, guarded>>

(* A listener is closed; where that fails it is reported.                  *)
Closing(l) ==
  /\ thread = "stop" /\ l \in unstopped
  /\ listening' = listening \ {l} /\ unstopped' = unstopped \ {l}
  /\ pending' = [pending EXCEPT ![l] = {}]

StopOne(l) ==
  /\ Closing(l)
  /\ \/ thread' = thread
     \/ CloseFails /\ "waits" \in OnError /\ thread' = "none"
  /\ UNCHANGED <<run, main, flags, serving, acc, failing, by, waiter, stopper,
                 stopCut, drains, guarded>>

(* What on_error raised there leaves stop(s) where it is: a protocol's     *)
(* xpcall takes it for the protocol's own, anywhere else the run raises.   *)
StopRaises(l) ==
  /\ CloseFails /\ "raises" \in OnError
  /\ IF by \in Conn
     THEN /\ Closing(l)
          /\ by' = "none" /\ thread' = "none"
          /\ UNCHANGED <<run, main, flags, serving, acc, failing, waiter,
                         stopper, stopCut, drains, guarded>>
     ELSE thread = "stop" /\ l \in unstopped /\ RunRaises

StopReported ==
  /\ Idle /\ by # "none" /\ thread' = "stop"
  /\ UNCHANGED <<run, main, flags, serving, accepts, stops, drains, guarded>>

(* The waiter is cancelled, and ends the next time it is resumed.          *)
StopEnds ==
  /\ thread = "stop" /\ unstopped = {}
  /\ waiter' = "cancelled" /\ by' = "none" /\ thread' = "none"
  /\ UNCHANGED <<run, main, flags, serving, accepts, unstopped, stopper,
                 stopCut, drains, guarded>>

WaiterEnds ==
  /\ Idle /\ waiter = "cancelled" /\ waiter' = "ended"
  /\ UNCHANGED <<run, thread, main, flags, serving, accepts, by, unstopped,
                 stopper, stopCut, drains, guarded>>

(* The stopper goes on within its task: its join answered, or cancelled,   *)
(* it runs on_stop, which may wait, or raise, and ends.                    *)
StopperGoes(state) ==
  /\ Idle /\ stopper' = state
  /\ UNCHANGED <<run, thread, main, flags, serving, accepts, by, unstopped,
                 waiter, stopCut, drains, guarded>>

StopperRuns == stopper = "joins" /\ (waiter = "ended" \/ stopCut) /\ StopperGoes("on_stop")

(* A cancelled task's waits are answered at once.                          *)
StopperWaits == stopper = "on_stop" /\ ~stopCut /\ StopperGoes("waits")

StopperResumes == stopper = "waits" /\ StopperGoes("on_stop")

StopperEnds ==
  /\ stopper = "on_stop"
  /\ \/ StopperGoes("ended")
     \/ Idle /\ "raises" \in OnError /\ RunRaises

(***************************************************************************)
(* watch: the first signal stops the server, another cancels on_stop's     *)
(* wait and the grace.                                                     *)
(***************************************************************************)
Takes == Idle /\ caught > 0 /\ by # "watcher" /\ main # "done" /\ caught' = caught - 1

WatcherStops ==
  /\ Takes
  /\ StopBegins("watcher") /\ signalled' = TRUE
  /\ UNCHANGED <<run, main, hurried, serving, accepts, waiter, stopper,
                 stopCut, drains, signals, graced>>

(* Mutant: on_stop's wait is left to end by itself.                        *)
WatcherHurries_Waiting ==
  /\ Takes /\ stopping
  /\ hurried' = TRUE
  /\ graceCut' = (graceCut \/ grace # "none")
  /\ UNCHANGED <<run, thread, main, stopping, signalled, serving, accepts,
                 stops, grace, left, signals, graced>>

WatcherHurries ==
  /\ Takes /\ stopping
  /\ hurried' = TRUE
  /\ stopCut' = (stopCut \/ stopper # "ended")
  /\ graceCut' = (graceCut \/ grace # "none")
  /\ UNCHANGED <<run, thread, main, stopping, signalled, serving, accepts, by,
                 unstopped, waiter, stopper, grace, left, signals, graced>>

(***************************************************************************)
(* drain, and the end of serving().                                        *)
(***************************************************************************)
MainReady ==
  /\ Idle /\ main = "on_ready" /\ by # "main" /\ main' = "waiter"
  /\ UNCHANGED <<run, thread, flags, serving, accepts, stops, drains, guarded>>

MainStopped ==
  /\ Idle /\ main = "waiter" /\ waiter = "ended" /\ main' = "stopper"
  /\ UNCHANGED <<run, thread, flags, serving, accepts, stops, drains, guarded>>

(* The tasks left, listed to be killed one after another.                  *)
Lists == main' = "kills" /\ thread' = "main" /\ left' = conns

MainDrains ==
  /\ Idle /\ main = "stopper" /\ stopper = "ended"
  /\ IF hurried
     THEN Lists /\ UNCHANGED grace
     ELSE main' = "grace" /\ grace' = "pick" /\ UNCHANGED <<thread, left>>
  /\ UNCHANGED <<run, flags, serving, accepts, stops, graceCut, guarded>>

(* The grace task joins one connection's task after another.               *)
GracePicks ==
  /\ Idle
  /\ grace = "pick" \/ (grace \in Conn /\ task[grace] = "ended")
  /\ IF conns = {} THEN grace' = "ended" ELSE grace' \in conns
  /\ UNCHANGED <<run, thread, main, flags, serving, accepts, stops, graceCut,
                 left, guarded>>

GraceEnds ==
  /\ Idle /\ grace \in Conn /\ (graced \/ graceCut)
  /\ grace' = "ended"
  /\ UNCHANGED <<run, thread, main, flags, serving, accepts, stops, graceCut,
                 left, guarded>>

MainGraced ==
  /\ Idle /\ main = "grace" /\ grace = "ended"
  /\ Lists
  /\ UNCHANGED <<run, flags, serving, accepts, stops, grace, graceCut, guarded>>

(* A listed task is killed, and what its closing raised reported.          *)
Killed(c) ==
  /\ thread = "main" /\ c \in left \cap conns
  /\ task' = [task EXCEPT ![c] = "ended"]
  /\ conns' = conns \ {c} /\ open' = open - 1 /\ left' = left \ {c}

KillOne(c) ==
  \/ /\ Killed(c)
     /\ \/ thread' = thread
        \/ "waits" \in OnError /\ thread' = "none"
     /\ UNCHANGED <<run, main, flags, accepts, stops, grace, graceCut, guarded>>
  \/ thread = "main" /\ c \in left \cap conns /\ "raises" \in OnError /\ RunRaises

KillReported ==
  /\ Idle /\ main = "kills" /\ thread' = "main"
  /\ UNCHANGED <<run, main, flags, serving, accepts, stops, drains, guarded>>

(* The assertion that a listed task still has its connection.              *)
KillAsserts(c) == thread = "main" /\ c \in left \ conns /\ RunRaises

(* The watcher is cancelled, the guard released or closed and serving()    *)
(* returns, closing what is left.                                          *)
MainEnds ==
  /\ thread = "main" /\ left = {}
  /\ main' = "done" /\ thread' = "none"
  /\ UNCHANGED <<run, flags, serving, accepts, stops, drains, guarded>>

RunReturns ==
  /\ Idle /\ main = "done" /\ stopper = "ended"
  /\ \A c \in Conn : task[c] \in {"unused", "ended"}
  /\ \A l \in Listener : acc[l] = "none"
  /\ run' = "returned"
  /\ UNCHANGED <<thread, main, flags, serving, accepts, stops, drains, guarded>>

Served == run # "on" /\ UNCHANGED serveVars
-----------------------------------------------------------------------------
Accepting == \E l \in Listener : \/ AcceptResumes(l) \/ AcceptWaits(l)
                                 \/ AcceptEnds(l) \/ AcceptFails(l)
                                 \/ \E c \in Conn : AcceptOne(l, c)

Stopping == \/ \E l \in Listener : StopOne(l) \/ StopRaises(l)
            \/ StopReported \/ StopEnds \/ WaiterEnds
            \/ StopperRuns \/ StopperWaits \/ StopperResumes \/ StopperEnds

MainResumes == \/ MainReady \/ MainStopped \/ MainDrains \/ MainGraced
               \/ KillReported \/ RunReturns

Draining == \/ MainResumes
            \/ GracePicks \/ GraceEnds
            \/ \E c \in Conn : KillOne(c) \/ KillAsserts(c)
            \/ MainEnds

ServeNext == \/ \E l \in Listener, c \in Conn : Arrive(l, c)
             \/ Signal
             \/ Accepting
             \/ \E c \in Conn : \/ ConnStarts(c) \/ ConnReturns(c) \/ ConnRaises(c)
                                \/ ConnReported(c)
             \/ stop \/ Stopping
             \/ WatcherStops \/ WatcherHurries
             \/ Draining \/ Served

(***************************************************************************)
(* The loop resumes what can go on, and on_ready and on_error return; a    *)
(* protocol need not, nor on_stop while it waits and is not cancelled.     *)
(***************************************************************************)
Fairness ==
  /\ WF_serveVars(thread # "none" /\ (Accepting \/ Stopping \/ Draining))
  /\ \A l \in Listener : SF_serveVars(AcceptResumes(l))
  /\ SF_serveVars(StopReported)
  /\ SF_serveVars(WaiterEnds \/ StopperRuns \/ StopperEnds \/ (stopCut /\ StopperResumes))
  /\ SF_serveVars(WatcherStops \/ WatcherHurries)
  /\ SF_serveVars(GracePicks \/ GraceEnds)
  /\ SF_serveVars(MainResumes)
  /\ SF_serveVars(\E c \in Conn : ConnReported(c))

ServeSpec == ServeInit /\ [][ServeNext]_serveVars
FairServeSpec == ServeSpec /\ Fairness
-----------------------------------------------------------------------------
(* The variables keep their types.                                         *)
ServeTypeOK ==
  /\ run \in {"on", "returned", "raised"}
  /\ thread \in {"none", "stop", "main"} \cup Listener
  /\ main \in {"on_ready", "waiter", "stopper", "grace", "kills", "done"}
  /\ open \in Nat /\ stopping \in BOOLEAN /\ hurried \in BOOLEAN /\ signalled \in BOOLEAN
  /\ conns \subseteq Conn
  /\ task \in [Conn -> {"unused", "new", "serving", "reporting", "ended"}]
  /\ pending \in [Listener -> SUBSET Conn] /\ listening \subseteq Listener
  /\ acc \in [Listener -> {"none", "new", "readable", "pause"}]
  /\ failing \subseteq Listener
  /\ by \in {"none", "main", "watcher"} \cup Conn /\ unstopped \subseteq Listener
  /\ waiter \in {"waits", "cancelled", "ended"}
  /\ stopper \in {"joins", "on_stop", "waits", "ended"} /\ stopCut \in BOOLEAN
  /\ grace \in {"none", "pick", "ended"} \cup Conn /\ graceCut \in BOOLEAN /\ graced \in BOOLEAN
  /\ caught \in Nat /\ signals \in 0 .. MaxSignals /\ left \subseteq Conn

(* The server's books agree with its tasks: `open` counts the connections  *)
(* whose protocol has not ended, each of them listed once in `conns`, and  *)
(* it never passes the limit, whoever accepts, ends, raises or is killed.  *)
BooksBalance ==
  run = "on" => /\ conns = {c \in Conn : task[c] \in {"new", "serving"}}
                /\ open = Cardinality(conns)
                /\ open <= Most

(* A server under its limit accepts at every listener: a connection that   *)
(* ends at the limit leaves no listener without its accept task.           *)
NoListenerForgotten ==
  Idle /\ ~stopping /\ open < Most => \A l \in Listener : acc[l] # "none"

(* Once the server stops it takes no connection, though the accept tasks   *)
(* and stop(s) itself still wait here and there; and accept is never       *)
(* called on a listener that has been closed.                              *)
NoneAcceptedLate ==
  open' > open => ~stopping /\ \E l \in listening : thread = l

(* Net.serve returns only with every listener closed and every connection  *)
(* closed or killed.                                                       *)
ReturnsClean ==
  run = "returned" => conns = {} /\ open = 0 /\ listening = {} /\ stopping

(* A server told to stop ends, once the grace it was given has passed if   *)
(* need be, whatever its protocols do; only a wait of on_stop's holds it.  *)
StopEndsServer == stopping /\ graced ~> run # "on" \/ stopper = "waits"

(* A second signal ends the server though it has no limit to its grace,    *)
(* and though on_stop would wait for ever.                                 *)
HurryEndsServer == hurried ~> run # "on"

(* The server's books through accepts, ends, raises, kills and stops: the  *)
(* count and the list agree, no listener is forgotten, and Net.serve       *)
(* returns with nothing left open.                                         *)
ServerBooks == ServeTypeOK /\ BooksBalance /\ NoListenerForgotten /\ ReturnsClean

(* The books are kept, and a stop is final.                                *)
ServerKeeps == [][ServerBooks' /\ NoneAcceptedLate]_serveVars

(* A stop ends the server, by its grace or by a second signal.             *)
ServerEnds == StopEndsServer /\ HurryEndsServer
=============================================================================
