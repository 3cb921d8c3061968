------------------------------ MODULE Children ------------------------------
(***************************************************************************)
(* How cosmic/child.tl reaps and ends: a handle for each child it starts,  *)
(* and one table of statuses all handles share.  A process that adopts its *)
(* orphans reaps with waitpid(-1), so whichever handle looks first takes   *)
(* the exits of all of them, and files each for the handle that owns its   *)
(* pid; what a child's group has left is ended with its handle.            *)
(*                                                                         *)
(* One thread runs every task: a look at a child is one step, and what     *)
(* holds the thread between two is `starting`, a start whose process       *)
(* exists before its handle does, `finalizing`, a finalizer the collector  *)
(* runs, in the middle of a start too, or `blocked`, a waitpid.  A status  *)
(* is the name of the child it is of.  The kernel may give a pid out again *)
(* as soon as no process has it for its own or its group's.  No handle     *)
(* here has a relay.                                                       *)
(***************************************************************************)
EXTENDS Naturals, FiniteSets, Functions

CONSTANTS
    Handles,     \* the handles, each the name of its child too
    MaxPid,      \* the highest pid
    MaxForks,    \* bound: how many processes the children make
    MaxDrops     \* bound: how many handles are dropped unclosed at once

Orphan  == "an orphan"
Strays  == "end_strays"
Nobody  == "nobody"
Nothing == "nothing"

ASSUME HandlesAssumption ==
    /\ IsFiniteSet(Handles) /\ Handles \cap {Orphan, Strays, Nobody, Nothing} = {}
    /\ {MaxPid, MaxForks, MaxDrops} \subseteq Nat

VARIABLES
    processes,   \* the processes of the children's, by pid, until reaped
    adopting,    \* reaping.adopting: "unasked", "yes" or "no"
    owned_pids,  \* owned: the pids a handle owns
    reaped,      \* the statuses collected for an owned pid and not yet taken
    stage,       \* where each handle is
    pid_of,      \* handle.pid
    grouped,     \* handle.process_group
    status_of,   \* handle._status
    failed,      \* the handles told that there is no such child
    starting,    \* the handle whose start is under way, or Nobody
    finalizing,  \* the handle whose finalizer runs, or Nobody
    blocked,     \* the handle whose wait is in waitpid, or Nobody
    overtaken,   \* the handles in whose start a finalizer ran
    reused,      \* the handles that shared a pid before they were done with it
    struck,      \* whom the last signal sent reached: [by, who, leader]
    forked       \* how many processes the children made

childTables == <<processes, owned_pids, reaped, status_of, failed>>
inside == <<starting, finalizing, blocked>>
begun == <<adopting, pid_of, grouped>>
childVars == <<childTables, inside, begun, stage, overtaken, reused, struck, forked>>

Process == [who : Handles, leader : BOOLEAN, group : Nat, ours : BOOLEAN, exited : BOOLEAN]

ChildrenInit ==
    /\ processes = [p \in {} |-> Nobody] /\ adopting = "unasked"
    /\ owned_pids = {} /\ reaped = [p \in {} |-> Nobody]
    /\ stage = [h \in Handles |-> "none"] /\ pid_of = [h \in Handles |-> 0]
    /\ grouped = [h \in Handles |-> FALSE]
    /\ status_of = [h \in Handles |-> Nothing] /\ failed = {}
    /\ starting = Nobody /\ finalizing = Nobody /\ blocked = Nobody
    /\ overtaken = {} /\ reused = {} /\ struck = {} /\ forked = 0

-----------------------------------------------------------------------------
\* The kernel.

Without(f, S) == Restrict(f, DOMAIN f \ S)

\* The handles not done with p: what they do next may name it.
Holder(h)  == stage[h] \in {"spawned", "open", "dropped", "collected"}
Holders(p) == {h \in Handles : Holder(h) /\ pid_of[h] = p}

\* A process is made under a pid that is no process's own nor its group's.
Forks(p, made) ==
    /\ \A q \in DOMAIN processes : p \notin {q, processes[q].group}
    /\ processes' = [q \in DOMAIN processes \cup {p} |-> IF q = p THEN made ELSE processes[q]]
    /\ reused' = reused \cup Holders(p)
                        \cup {h \in Handles : made.leader /\ h = made.who /\ Holders(p) # {}}

\* A child makes a process, in its group or, having left it, in none of ours.
Descends(p) ==
    /\ forked < MaxForks /\ forked' = forked + 1
    /\ \E q \in DOMAIN processes :
          /\ processes[q].leader /\ ~processes[q].exited
          /\ \E group \in {processes[q].group, 0} :
                Forks(p, [who |-> processes[q].who, leader |-> FALSE, group |-> group,
                          ours |-> FALSE, exited |-> FALSE])
    /\ UNCHANGED <<owned_pids, reaped, status_of, failed, inside, begun, stage, overtaken, struck>>

\* One that exits stays until it is reaped, which its parent or init does
\* where it is not ours; a child's own are ours after it, if we adopt.
Exits(p) ==
    /\ p \in DOMAIN processes /\ ~processes[p].exited
    /\ processes' =
         IF processes[p].ours
         THEN [q \in DOMAIN processes |->
                 [who    |-> processes[q].who,
                  leader |-> processes[q].leader,
                  group  |-> processes[q].group,
                  ours   |-> \/ processes[q].ours
                             \/ adopting = "yes" /\ processes[p].leader /\ processes[q].who = processes[p].who,
                  exited |-> processes[q].exited \/ q = p]]
         ELSE Without(processes, {p})
    /\ UNCHANGED <<owned_pids, reaped, status_of, failed, inside, begun, stage, overtaken, reused, struck, forked>>

-----------------------------------------------------------------------------
\* Looking at a child.

StatusOf(p) == IF processes[p].leader THEN processes[p].who ELSE Orphan

\* collect: in an adopting process every child that has exited is reaped, an
\* owned one's status filed for its handle.
Gone == IF adopting = "yes"
        THEN {p \in DOMAIN processes : processes[p].ours /\ processes[p].exited} ELSE {}

\* Mutant: what is collected is not filed.
Filed_Forgets == reaped

Filed == [p \in DOMAIN reaped \cup (Gone \cap owned_pids) |->
             IF p \in Gone \cap owned_pids THEN StatusOf(p) ELSE reaped[p]]

claim(h, what, files) ==
    /\ status_of' = [status_of EXCEPT ![h] = what]
    /\ reaped' = Without(files, {pid_of[h]})
    /\ owned_pids' = owned_pids \ {pid_of[h]}
    /\ UNCHANGED failed

\* A status known, filed, or had of waitpid; or nothing yet, or no such child.
exited(h) ==
    LET p == pid_of[h]
        Ours == p \in DOMAIN processes \ Gone /\ processes[p].ours
    IN  \/ status_of[h] # Nothing /\ UNCHANGED childTables
        \/ /\ status_of[h] = Nothing /\ p \in DOMAIN Filed
           /\ processes' = Without(processes, Gone) /\ claim(h, Filed[p], Filed)
        \/ /\ status_of[h] = Nothing /\ p \notin DOMAIN Filed /\ Ours /\ processes[p].exited
           /\ processes' = Without(processes, Gone \cup {p}) /\ claim(h, StatusOf(p), Filed)
        \/ /\ status_of[h] = Nothing /\ p \notin DOMAIN Filed /\ ~(Ours /\ processes[p].exited)
           /\ processes' = Without(processes, Gone) /\ reaped' = Filed
           /\ failed' = IF Ours THEN failed ELSE failed \cup {h}
           /\ UNCHANGED <<owned_pids, status_of>>

\* The processes of the group the handle leads, among those known.
Members(h, known) == {q \in DOMAIN known : grouped[h] /\ known[q].group = pid_of[h]}

\* target: its group, or the child alone.
Target(h, known) == IF grouped[h] THEN Members(h, known) ELSE DOMAIN known \cap {pid_of[h]}

\* A signal reaches whatever process has the pid, or is in the group.
Strikes(by, pids) ==
    struck' = {[by |-> by, who |-> processes[p].who, leader |-> processes[p].leader] : p \in pids}

\* The rest of end_child, the child reaped: what its group has left is
\* signalled and waited for, and the handle is closed though some stay.
clear_group(h) ==
    LET left == Members(h, processes')
    IN  \/ left = {} /\ stage' = [stage EXCEPT ![h] = "closed"] /\ UNCHANGED struck
        \/ /\ left # {} /\ Strikes(h, left)
           /\ stage' = stage \/ stage' = [stage EXCEPT ![h] = "closed"]

-----------------------------------------------------------------------------
\* The module's operations.

Free    == starting = Nobody /\ finalizing = Nobody /\ blocked = Nobody
Open(h) == Free /\ stage[h] = "open"

\* Child.start as far as its process: the first grouped one asks to adopt.
child_start(h, group, p) ==
    /\ Free /\ stage[h] = "none"
    /\ IF group /\ adopting = "unasked" THEN adopting' \in {"yes", "no"} ELSE UNCHANGED adopting
    /\ Forks(p, [who |-> h, leader |-> TRUE, group |-> IF group THEN p ELSE 0,
                 ours |-> TRUE, exited |-> FALSE])
    /\ stage' = [stage EXCEPT ![h] = "spawned"] /\ pid_of' = [pid_of EXCEPT ![h] = p]
    /\ grouped' = [grouped EXCEPT ![h] = group]
    /\ starting' = h
    /\ UNCHANGED <<owned_pids, reaped, status_of, failed, finalizing, blocked, overtaken, struck, forked>>

make_handle(h) ==
    /\ starting = h /\ finalizing = Nobody
    /\ stage' = [stage EXCEPT ![h] = "open"]
    /\ owned_pids' = owned_pids \cup {pid_of[h]}
    /\ starting' = Nobody
    /\ UNCHANGED <<processes, reaped, status_of, failed, finalizing, blocked, begun, overtaken, reused, struck, forked>>

\* The look of a stream's read or write, which settles nothing.
interrupted(h) ==
    /\ Open(h) /\ exited(h)
    /\ UNCHANGED <<inside, begun, stage, overtaken, reused, struck, forked>>

\* The look of a wait, of try_wait and of wait_any.
child_looks(h) ==
    /\ Open(h) /\ exited(h)
    /\ IF status_of'[h] = Nothing THEN UNCHANGED <<stage, struck>> ELSE clear_group(h)
    /\ UNCHANGED <<inside, begun, overtaken, reused, forked>>

\* A wait with nothing else to serve blocks in waitpid.
child_wait(h) ==
    /\ Open(h) /\ exited(h)
    /\ status_of'[h] = Nothing /\ failed' = failed /\ h \notin failed
    /\ blocked' = h
    /\ UNCHANGED <<starting, finalizing, begun, stage, overtaken, reused, struck, forked>>

child_wait_returns(h) ==
    /\ blocked = h /\ processes[pid_of[h]].exited
    /\ processes' = Without(processes, {pid_of[h]})
    /\ claim(h, StatusOf(pid_of[h]), reaped)
    /\ clear_group(h)
    /\ blocked' = Nobody
    /\ UNCHANGED <<starting, finalizing, begun, overtaken, reused, forked>>

child_stop(h) ==
    /\ Open(h)
    /\ Strikes(h, Target(h, processes))
    /\ UNCHANGED <<childTables, inside, begun, stage, overtaken, reused, forked>>

\* end_child: one still running is signalled, and looked for again; one
\* reaped is settled; where there is none nothing is done.
end_child(h) ==
    /\ exited(h)
    /\ \/ status_of'[h] # Nothing /\ clear_group(h)
       \/ status_of'[h] = Nothing /\ h \in failed' /\ UNCHANGED <<stage, struck>>
       \/ status_of'[h] = Nothing /\ h \notin failed' /\ Strikes(h, Target(h, processes')) /\ UNCHANGED stage

child_close(h) ==
    /\ Open(h) /\ end_child(h)
    /\ UNCHANGED <<inside, begun, overtaken, reused, forked>>

\* Nothing holds the handle any more; one collection later it is finalized.
child_drop(h) ==
    /\ Open(h)
    /\ Cardinality({g \in Handles : stage[g] = "dropped"}) < MaxDrops
    /\ stage' = [stage EXCEPT ![h] = "dropped"]
    /\ UNCHANGED <<childTables, inside, begun, overtaken, reused, struck, forked>>

\* A finalizer runs where the program allocates, a start's handle included.
collector(h) ==
    /\ stage[h] = "dropped" /\ finalizing = Nobody /\ blocked = Nobody
    /\ finalizing' = h
    /\ overtaken' = IF starting = Nobody THEN overtaken ELSE overtaken \cup {starting}
    /\ UNCHANGED <<childTables, starting, blocked, begun, stage, reused, struck, forked>>

finalizer(h) ==
    /\ finalizing = h /\ end_child(h)
    /\ finalizing' = IF stage'[h] = "closed" THEN Nobody ELSE h
    /\ UNCHANGED <<starting, blocked, begun, overtaken, reused, forked>>

\* It ends with no child to wait for, or one signalled and not reaped.
finalizer_fails(h) ==
    /\ finalizing = h /\ exited(h) /\ status_of'[h] = Nothing
    /\ h \in failed' \/ \E x \in struck : x.by = h
    /\ stage' = [stage EXCEPT ![h] = "collected"] /\ finalizing' = Nobody
    /\ UNCHANGED <<starting, blocked, begun, overtaken, reused, struck, forked>>

\* Every child no handle owns is killed with the group it leads, what had
\* exited reaped first.
end_strays ==
    /\ Free /\ adopting = "yes"
    /\ processes' = Without(processes, Gone) /\ reaped' = Filed
    /\ LET strays == {p \in DOMAIN processes' : processes[p].ours} \ owned_pids
       IN  Strikes(Strays, {p \in DOMAIN processes' : p \in strays \/ processes[p].group \in strays})
    /\ UNCHANGED <<owned_pids, status_of, failed, inside, begun, stage, overtaken, reused, forked>>

ChildrenNext ==
    \/ \E p \in 1 .. MaxPid : Exits(p) \/ Descends(p)
    \/ end_strays
    \/ \E h \in Handles :
          \/ \E p \in 1 .. MaxPid, group \in BOOLEAN : child_start(h, group, p)
          \/ make_handle(h) \/ interrupted(h) \/ child_looks(h) \/ child_wait(h) \/ child_wait_returns(h)
          \/ child_stop(h) \/ child_close(h) \/ child_drop(h)
          \/ collector(h) \/ finalizer(h) \/ finalizer_fails(h)

ChildrenSpec == ChildrenInit /\ [][ChildrenNext]_childVars

-----------------------------------------------------------------------------
\* A child exists until its own handle has its status, whoever collects it
\* first, whether adopting began before or after it started, and whichever
\* pids come back: a handle answers only its own child's exit and is never
\* told there is none, unless a finalizer ran inside its start (WaitAnswers);
\* no status is left filed for nobody; a handle's signals reach its own
\* child's processes only, and end_strays' no handle's child.  The code keeps
\* this by pid, so it says nothing of a handle whose pid was given out again
\* after its child was reaped and before the handle was done with it.
ChildrenKept ==
    /\ \A h \in Handles \ reused :
          /\ status_of[h] \in {Nothing, h}
          /\ h \notin overtaken =>
               /\ h \notin failed
               /\ stage[h] \in {"open", "dropped"} /\ status_of[h] = Nothing =>
                    LET p == pid_of[h]
                    IN  \/ p \in DOMAIN processes /\ processes[p].who = h /\ processes[p].leader
                        \/ p \in DOMAIN reaped /\ reaped[p] = h
    /\ DOMAIN reaped \subseteq owned_pids
    /\ \A x \in struck : IF x.by = Strays THEN x.leader => x.who \in reused
                         ELSE x.who = x.by \/ x.by \in reused

\* A wait answers its child's Result: no handle is ever told that its child,
\* which nothing but this module reaps, cannot be waited for, be it that its
\* pid was given out again.
WaitAnswers == failed \subseteq reused
=============================================================================
