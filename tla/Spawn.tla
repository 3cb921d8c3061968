------------------------------- MODULE Spawn -------------------------------
(***************************************************************************)
(* One `spawn` of core/syscalls.c on Linux: the parent, stopped while its  *)
(* child runs on its memory (CLONE_VM | CLONE_VFORK); for an unveiled      *)
(* child the helper that maps its user namespace from outside, the init of *)
(* its pid namespace and the program; the status, started and ready pipes  *)
(* between them; and the pair by which `waitpid` ends the init once its    *)
(* program is reaped.                                                      *)
(*                                                                         *)
(* A process is where its code is: a label of its function before exec,    *)
(* "exec" once it runs its own image, "stuck" when it was killed and the   *)
(* kernel cannot end it yet, "zombie", "gone" once reaped.  A pipe end is  *)
(* held by whoever still has it at its place, so ends are derived, except  *)
(* for the parent's own.  A failure is its stage; which errno it is does   *)
(* not matter here.                                                        *)
(***************************************************************************)
EXTENDS Naturals, Sequences, FiniteSets

CONSTANTS
    Plans,      \* the sets of options a caller may ask for
    MaxFaults,  \* how many outside faults (SIGKILL, a changed path) a behaviour has
    Abi9        \* whether Landlock tells one socket file from another (ABI 9)

\* What a spawn may be asked for: the fields of its plan.
Options == {"unveil", "proc", "strict", "offline", "relay", "user", "idmap", "nest",
            "credentials", "grants", "promises", "sockets"}

ASSUME PlansAssumption == Plans \subseteq SUBSET Options

Roles == {"child", "helper", "init", "program"}
Live == {"exec", "stuck", "pin", "idmap", "helper", "unshare", "told", "maps", "net",
         "pipes", "vfork_init", "ready", "vfork_program", "run",
         "caps", "setup", "asleep", "watch", "root"}
Over == {"none", "zombie", "gone"}
Stages == {"fail", "namespace", "idmap", "root", "proc", "relay", "ECHILD", "EIO"}

VARIABLES
    plan,    \* the options of this spawn
    pc,      \* where the parent is
    place,   \* where each process is
    status,  \* what is in the status pipe
    parent,  \* what the parent holds: "read" and "write" (ends), "root", "ruleset"
    mem,     \* the shared memory: the pids stored, the two errors, mapped (and lost:
             \* a pid no one stored or recorded, which the code does not know)
    ready,   \* what is in the ready pipe
    pair,    \* the record of this sandbox: "none", "both", "ending"
    holds,   \* what holds the program
    shown,   \* whether a bound path is now a socket or directory of the host's
    faults,  \* outside faults so far
    answer   \* what spawn answered: "none", "pid" or a stage

spawnVars == <<plan, pc, place, status, parent, mem, ready, pair, holds, shown, faults, answer>>

NoMem == [init |-> FALSE, program |-> FALSE, init_error |-> "none",
          map_error |-> "ECHILD", mapped |-> TRUE, lost |-> FALSE]

Has(o) == o \in plan
\* `proc` alone makes an unveiled child too, with no paths to bind.
Unveiling == Has("unveil") \/ Has("proc")
Rooted == Has("unveil")

\* The combinations the options are refused in, before anything is made.
Admitted(p) ==
    /\ "idmap" \in p => "user" \in p
    /\ ~ {"proc", "unveil"} \subseteq p
    /\ "user" \in p => p \cap {"unveil", "proc"} # {}
    /\ "relay" \in p => "offline" \in p
    /\ "nest" \in p => {"strict", "unveil"} \subseteq p
    /\ "credentials" \in p => p \cap {"unveil", "proc", "offline", "user"} = {}
    /\ "sockets" \in p => {"promises", "offline"} \subseteq p
    /\ "nest" \in p => "promises" \in p

\* The child holds the status pipe's write end until its exec, and so does
\* whoever it starts; the init until it closes its copy, before its answer.
StatusWriters ==
    {r \in Roles : place[r] \in Live \ {"exec", "stuck", "asleep", "watch"}}
    \cup (IF "write" \in parent THEN {"parent"} ELSE {})

\* The started pipe's write end is the child's, and the program's to its exec.
StartedOpen == \/ place["child"] \in {"vfork_init", "ready", "vfork_program"}
               \/ place["program"] \in {"root", "run"}

SpawnInit ==
    /\ plan = {} /\ pc = "idle" /\ place = [r \in Roles |-> "none"]
    /\ status = <<>> /\ parent = {} /\ mem = NoMem /\ ready = <<>>
    /\ pair = "none" /\ holds = {} /\ shown = FALSE /\ faults = 0 /\ answer = "none"

----------------------------------------------------------------------------
(* The parent, up to the start.                                            *)

AnswerSpawn(a) == pc' = "answered" /\ answer' = a

\* Room for the pair and the environment, then the status pipe.
PipeMade == pc' = "prepare" /\ parent' = {"read", "write"} /\ UNCHANGED answer

\* The options are read and refused, or a plan; room for the pair is made
\* before the child, and then the status pipe.
Begin(p) ==
    /\ pc = "idle"
    /\ plan' = p
    /\ \/ AnswerSpawn("fail") /\ UNCHANGED parent
       \/ Admitted(p) /\ PipeMade
    /\ UNCHANGED <<place, status, mem, ready, pair, holds, shown, faults>>

\* What an unveiled or offline child resolves in its own namespaces is
\* resolved here first, and a directory made to build its root on.
Resolve ==
    /\ pc = "prepare"
    /\ \/ /\ Unveiling \/ Has("offline")
          /\ AnswerSpawn("fail") /\ parent' = {}
       \/ /\ pc' = "rules"
          /\ parent' = parent \cup (IF Rooted THEN {"root"} ELSE {})
          /\ UNCHANGED answer
    /\ UNCHANGED <<plan, place, status, mem, ready, pair, holds, shown, faults>>

\* Whether the root will show no socket of the host's: read by name here.
unix_bound == {"strict", "unveil", "offline"} \subseteq plan
unix_tmp == unix_bound /\ (Has("grants") \/ Has("nest")) /\ ~ shown
\* Whether build_root is to look again at what it bound, and fail.
unix_guard == \/ Has("nest") /\ unix_tmp
              \/ Has("grants") /\ unix_bound /\ ~ Abi9 /\ (unix_tmp \/ Has("sockets"))
\* What the filter is told: that a unix socket made is harmless.
held_unix == unix_tmp \/ (Has("grants") /\ unix_bound /\ Abi9)

\* A bug: a ruleset that cannot be built leaves the root's directory.
RulesLeaveRoot ==
    /\ pc = "rules"
    /\ \/ /\ Has("grants")
          /\ AnswerSpawn("fail") /\ parent' = parent \ {"read", "write"} /\ UNCHANGED holds
       \/ /\ pc' = "start" /\ UNCHANGED <<parent, holds, answer>>
    /\ UNCHANGED <<plan, place, status, mem, ready, pair, shown, faults>>

\* The ruleset of the grants is built, and what holds the child is noted for
\* its filter: that a unix socket is one it was given ("unix"), and the guard.
Rules ==
    /\ pc = "rules"
    /\ \/ /\ Has("grants")
          /\ AnswerSpawn("fail") /\ parent' = {} /\ UNCHANGED holds
       \/ /\ pc' = "start"
          /\ parent' = parent \cup (IF Has("grants") THEN {"ruleset"} ELSE {})
          /\ holds' = (IF held_unix THEN {"held_unix"} ELSE {})
                      \cup (IF unix_guard THEN {"unix_guard"} ELSE {})
          /\ UNCHANGED answer
    /\ UNCHANGED <<plan, place, status, mem, ready, pair, shown, faults>>

\* The child starts, every signal blocked; or clone fails, and all is undone.
StartChild ==
    /\ pc = "start"
    /\ \/ pc' = "stopped" /\ place' = [place EXCEPT !["child"] = "pin"]
          /\ UNCHANGED <<parent, answer>>
       \/ AnswerSpawn("fail") /\ parent' = {} /\ UNCHANGED place
    /\ UNCHANGED <<plan, status, mem, ready, pair, holds, shown, faults>>

----------------------------------------------------------------------------
(* The child, on the parent's memory.                                      *)

\* A failure is written to the status pipe and the process ends.
Report(r, stage) ==
    /\ status' = Append(status, stage)
    /\ place' = [place EXCEPT ![r] = "zombie"]

ChildAt(l) == place["child"] = l
ChildGoes(l) == place' = [place EXCEPT !["child"] = l] /\ UNCHANGED status
ChildFails(stage) == Report("child", stage)
Staged(stage) == IF Has("strict") THEN stage ELSE "fail"
Rest == <<plan, pc, parent, pair, shown, faults, answer>>

\* Every descriptor is pinned above the ones the child is handed.
PinDescriptors ==
    /\ ChildAt("pin")
    /\ \/ ChildFails("fail")
       \/ ChildGoes(IF Unveiling THEN "idmap" ELSE IF Has("offline") THEN "net" ELSE "run")
    /\ UNCHANGED <<mem, ready, holds, Rest>>

\* idmapped_tree: each mapped mount is made through a holder process, which
\* is killed and reaped before this goes on.
IdmapTrees ==
    /\ ChildAt("idmap")
    /\ \/ Has("idmap") /\ ChildFails(Staged("idmap"))
       \/ ChildGoes("helper")
    /\ UNCHANGED <<mem, ready, holds, Rest>>

\* Giving root up, the helper starts, before the namespace it is to map.
StartHelper ==
    /\ ChildAt("helper")
    /\ \/ Has("user") /\ ChildFails("fail")
       \/ /\ place' = [place EXCEPT !["child"] = "unshare",
                                    !["helper"] = IF Has("user") THEN "told" ELSE "none"]
          /\ UNCHANGED status
    /\ UNCHANGED <<mem, ready, holds, Rest>>

\* unshare, and the helper is told, 1 or 0; the child waits for its end.
\* A refused unshare is kept in `ready` (a local here) until it is reaped.
Unshare ==
    /\ ChildAt("unshare")
    /\ \E failed \in BOOLEAN :
          /\ ready' = IF failed THEN <<Staged("namespace")>> ELSE <<>>
          /\ holds' = IF failed THEN holds ELSE holds \cup {"namespaces"}
          /\ ChildGoes("told")
    /\ UNCHANGED <<mem, Rest>>

\* map_from_outside: the maps are written only once the child said 1.
MapFromOutside ==
    /\ place["helper"] = "told" /\ place["child"] # "unshare"
    /\ \E e \in (IF ChildAt("told") /\ ready = <<>> THEN {"none", "fail"} ELSE {"ECHILD"}) :
          mem' = [mem EXCEPT !.map_error = e]
    /\ place' = [place EXCEPT !["helper"] = "zombie"]
    /\ UNCHANGED <<status, ready, holds, Rest>>

\* The helper is reaped and its error taken, ECHILD where it never wrote one.
ReapHelper ==
    /\ ChildAt("told") /\ place["helper"] \in Over
    /\ LET failure == IF ready # <<>> THEN ready[1]
                      ELSE IF place["helper"] = "zombie" THEN mem.map_error ELSE "none"
           reaped == [place EXCEPT !["helper"] = IF @ = "zombie" THEN "gone" ELSE @]
       IN IF failure = "none"
          THEN place' = [reaped EXCEPT !["child"] = "maps"] /\ UNCHANGED status
          ELSE /\ place' = [reaped EXCEPT !["child"] = "zombie"]
               /\ status' = Append(status, failure)
    /\ ready' = <<>>
    /\ UNCHANGED <<mem, holds, Rest>>

\* map_ids: with no root to give up, the child maps its own ids; root of an
\* inner namespace may be refused and goes on unmapped.
MapIds ==
    /\ ChildAt("maps")
    /\ \/ ~ Has("user") /\ ChildFails(Staged("namespace")) /\ UNCHANGED mem
       \/ /\ ChildGoes(IF Has("offline") THEN "net" ELSE "pipes")
          /\ \E m \in (IF Has("user") THEN {TRUE} ELSE BOOLEAN) : mem' = [mem EXCEPT !.mapped = m]
    /\ UNCHANGED <<ready, holds, Rest>>

\* loopback_up and relay_listeners: the stages the network fails with.
NetworkStages == {Staged("namespace")} \cup (IF Has("relay") THEN {"relay"} ELSE {})

\* go_offline, or the network part of an unveiled start: a loopback that is
\* up, and the relay's listeners.  Alone it makes the namespaces too, and
\* gives up the capabilities they brought.
GoOffline ==
    /\ ChildAt("net")
    /\ \/ \E stage \in NetworkStages : ChildFails(stage) /\ UNCHANGED holds
       \/ /\ ChildGoes(IF Unveiling THEN "pipes" ELSE "run")
          /\ holds' = holds \cup {"offline", "namespaces"}
                            \cup (IF Unveiling THEN {} ELSE {"no_capabilities"})
    /\ UNCHANGED <<mem, ready, Rest>>

\* The started and ready pipes, and the init's clone: the child is stopped
\* until the init has exec'd or ended.
CloneInit ==
    /\ ChildAt("pipes")
    /\ \/ ChildFails("fail")
       \/ /\ place' = [place EXCEPT !["child"] = "vfork_init", !["init"] = "caps"]
          /\ UNCHANGED status
    /\ UNCHANGED <<mem, ready, holds, Rest>>

\* start_init: its failure before exec is left in the shared init_error.
StartInit ==
    /\ place["init"] = "caps"
    /\ \/ place' = [place EXCEPT !["init"] = "setup"] /\ UNCHANGED mem
       \/ /\ place' = [place EXCEPT !["init"] = "zombie"]
          /\ mem' = [mem EXCEPT !.init_error = "fail"]
    /\ UNCHANGED <<status, ready, holds, Rest>>

\* The child stores the init's pid and takes its error.
InitStarted ==
    /\ ChildAt("vfork_init") /\ place["init"] # "caps"
    /\ mem' = [mem EXCEPT !.init = TRUE]
    /\ IF mem.init_error = "none" THEN ChildGoes("ready") ELSE ChildFails(mem.init_error)
    /\ UNCHANGED <<ready, holds, Rest>>

\* A bug: the init does not look whether the parent is still there.
InitReadyBlind ==
    /\ place["init"] = "setup"
    /\ \E a \in {"none", "fail"} :
          /\ ready' = Append(ready, a)
          /\ place' = [place EXCEPT !["init"] = IF a = "none" THEN "asleep" ELSE "zombie"]
    /\ UNCHANGED <<status, mem, holds, Rest>>

\* cosmic_sandbox_init: the death signal is set, then a parent already gone
\* is seen as a status pipe with no reader; status is closed, the answer
\* written, and it waits for the started pipe to end.
InitReady ==
    /\ place["init"] = "setup"
    /\ IF "read" \notin parent
       THEN place' = [place EXCEPT !["init"] = "zombie"] /\ UNCHANGED ready
       ELSE \E a \in {"none", "fail"} :
               /\ ready' = Append(ready, a)
               /\ place' = [place EXCEPT !["init"] = IF a = "none" THEN "asleep" ELSE "zombie"]
    /\ UNCHANGED <<status, mem, holds, Rest>>

\* The ready pipe answers, or ends with the init: then the program's clone,
\* the second process of the namespace, which is refused in one that died.
CloneProgram ==
    /\ ChildAt("ready")
    /\ ready # <<>> \/ place["init"] \in Over
    /\ LET failure == IF ready = <<>> THEN "ECHILD" ELSE ready[1] IN
       IF failure # "none" THEN ChildFails(failure)
       ELSE \/ ChildFails("fail")
            \/ /\ place["init"] \notin Over
               /\ place' = [place EXCEPT !["child"] = "vfork_program", !["program"] = "root"]
               /\ UNCHANGED status
    /\ ready' = <<>>
    /\ UNCHANGED <<mem, holds, Rest>>

\* The child stores the program's pid once it exec'd or ended, and ends.
ProgramStarted ==
    /\ ChildAt("vfork_program") /\ place["program"] \in Over \cup {"exec"}
    /\ mem' = [mem EXCEPT !.program = TRUE]
    /\ place' = [place EXCEPT !["child"] = "zombie"]
    /\ UNCHANGED <<status, ready, holds, Rest>>

\* place_proc has no fallback on the host's /proc where the start is strict,
\* nor where only a /proc is asked for.
ProcStages == IF Has("strict") \/ Has("proc") THEN {"proc"} ELSE {"fail"}

\* build_root: on a tmpfs of its own, which an unmapped user has none of (a
\* strict root is then refused, and another builds on the parent's directory,
\* where what it made stays); each path bound is looked at once more where the
\* guard asks, on what the mount shows.
Litters == Rooted /\ ~ mem.mapped /\ ~ Has("strict")
\* A bug: the root trusts spawn's look at the paths.
BuildRootTrusting == Rooted => mem.mapped \/ ~ Has("strict")

BuildRoot ==
    /\ Rooted => mem.mapped \/ ~ Has("strict")
    /\ ~ ("unix_guard" \in holds /\ shown)
RootHolds == {"root"} \cup (IF shown /\ Rooted THEN {"socket"} ELSE {})
                      \cup (IF Litters THEN {"litter"} ELSE {})

\* start_program: the root is built, or only a /proc; the capabilities are
\* dropped, and root given up.
StartProgram ==
    /\ place["program"] = "root"
    /\ \/ /\ \E stage \in {"fail", Staged("root")} \cup ProcStages : Report("program", stage)
          /\ holds' = holds \cup (IF Litters THEN {"litter"} ELSE {})
       \/ /\ BuildRoot
          /\ place' = [place EXCEPT !["program"] = "run"]
          /\ holds' = holds \cup RootHolds \cup {"no_capabilities"} \cup (plan \cap {"user"})
          /\ UNCHANGED status
    /\ UNCHANGED <<mem, ready, Rest>>

\* set_credentials, own_rules and enforce_ruleset, and the filter last.
RunHolds == (plan \cap {"credentials", "grants", "promises"})
            \cup (IF Unveiling /\ {"strict", "grants"} \subseteq plan THEN {"own_rules"} ELSE {})

\* run_program, of the child itself or of the unveiled program: session,
\* credentials, directory, descriptors, ruleset, pledge, limits and last the
\* filter, each of which may fail; then exec, which closes what is not its.
RunProgram(r) ==
    /\ place[r] = "run"
    /\ \/ Report(r, "fail") /\ UNCHANGED holds
       \/ /\ place' = [place EXCEPT ![r] = "exec"]
          /\ holds' = holds \cup RunHolds
          /\ UNCHANGED status
    /\ UNCHANGED <<mem, ready, Rest>>

\* The init sees the started pipe end: with no process 2 it ends, else it
\* watches the program and ends when that does, and its namespace with it.
InitWatches ==
    /\ \/ place["init"] = "asleep" /\ ~ StartedOpen
       \/ place["init"] = "watch" /\ place["program"] \in Over
    /\ place' = [place EXCEPT !["init"] =
                    IF place["program"] \in {"none", "gone"} \/ @ = "watch"
                    THEN "zombie" ELSE "watch"]
    /\ UNCHANGED <<status, mem, ready, holds, Rest>>

----------------------------------------------------------------------------
(* The parent, after its child exec'd or ended.                            *)

\* The kernel ends every process of a namespace whose init ends.
InitEnds(p) == [p EXCEPT !["init"] = "zombie",
                         !["program"] = IF @ \in Live THEN "zombie" ELSE @]

\* end_sandbox_init: SIGKILL, and at most a second to reap it; one the kernel
\* cannot end yet keeps its pair.
EndSandboxInit(p) ==
    {[place |-> [InitEnds(p) EXCEPT !["init"] = "gone"], pair |-> "none"]}
    \cup (IF p["init"] \in Live
          THEN {[place |-> [InitEnds(p) EXCEPT !["init"] = "stuck"], pair |-> "ending"]}
          ELSE {})

Child == <<status, mem, ready, holds, shown, faults>>

\* The ruleset and the write end are closed.  Credentials may leave a parent
\* it cannot make dumpable again: its child is killed and reaped, whatever it
\* is by then, and the spawn fails.
ResumeProgram ==
    /\ pc = "stopped" /\ place["child"] \in Over \cup {"exec"}
    /\ \/ /\ pc' = IF Unveiling THEN "reap" ELSE "read"
          /\ parent' = parent \ {"ruleset", "write"}
          /\ UNCHANGED <<place, answer>>
       \/ /\ Has("credentials")
          /\ AnswerSpawn("fail") /\ parent' = {}
          /\ place' = [place EXCEPT !["child"] = "gone"]
    /\ UNCHANGED <<plan, pair, Child>>

\* The unveiled child is reaped and the pair recorded, ended at once where no
\* program started; with no room left (a finalizer spawned into it and no more
\* is to be had) the init is killed and left.
RecordPair ==
    /\ pc = "reap"
    /\ LET reaped == [place EXCEPT !["child"] = "gone"] IN
       \/ /\ mem.init /\ mem.program
          /\ place' = reaped /\ pair' = "both"
       \/ /\ mem.init /\ ~ mem.program
          /\ \E e \in EndSandboxInit(reaped) : place' = e.place /\ pair' = e.pair
       \/ ~ mem.init /\ place' = reaped /\ UNCHANGED pair
    /\ pc' = "read"
    /\ UNCHANGED <<plan, parent, answer, Child>>

NoRoom ==
    /\ pc = "reap" /\ mem.init
    /\ place' = InitEnds([place EXCEPT !["child"] = "gone"])
    /\ pc' = "read" /\ mem' = [mem EXCEPT !.lost = TRUE]
    /\ UNCHANGED <<plan, parent, pair, answer, status, ready, holds, shown, faults>>

\* The status pipe is read to an errno or its end; the root's directory goes.
\* No errno and a pid is a start; anything else is waited for and failed.
Pid == IF Unveiling THEN IF mem.program THEN {"program"} ELSE {} ELSE {"child"}

ReadStatus ==
    /\ pc = "read"
    /\ status # <<>> \/ StatusWriters = {}
    /\ parent' = parent \cap (IF "litter" \in holds THEN {"root"} ELSE {})
    /\ IF status = <<>> /\ Pid # {} THEN AnswerSpawn("pid")
       ELSE pc' = "failed" /\ UNCHANGED answer
    /\ UNCHANGED <<plan, place, pair, Child>>

\* sandbox_reaped: a program's reaping ends its init, an init's forgets the pair.
Reap(r) ==
    /\ place[r] = "zombie"
    /\ LET reaped == [place EXCEPT ![r] = "gone"] IN
       IF pair # "both" /\ r # "init" THEN place' = reaped /\ UNCHANGED pair
       ELSE IF r = "init" THEN place' = reaped /\ pair' = "none"
       ELSE IF r = "program"
            THEN \E e \in EndSandboxInit(reaped) : place' = e.place /\ pair' = e.pair
            ELSE place' = reaped /\ UNCHANGED pair

Fail ==
    /\ pc = "failed"
    /\ \/ \E r \in Pid : Reap(r)
       \/ Pid = {} /\ UNCHANGED <<place, pair>>
    /\ AnswerSpawn(IF status # <<>> THEN status[1] ELSE "EIO")
    /\ UNCHANGED <<plan, parent, Child>>

\* waitpid, of the pid spawn answered or of any child; then end_sandbox_inits.
Waitpid(any) ==
    /\ pc = "answered"
    /\ \E r \in (IF any THEN Roles \ {"helper"} ELSE IF answer = "pid" THEN Pid ELSE {}) : Reap(r)
    /\ UNCHANGED <<plan, pc, parent, answer, Child>>

\* Any later spawn or waitpid reaps, without waiting, an init that a second
\* was not enough for.
EndSandboxInits ==
    /\ pc = "answered" /\ pair = "ending" /\ place["init"] = "zombie"
    /\ place' = [place EXCEPT !["init"] = "gone"] /\ pair' = "none"
    /\ UNCHANGED <<plan, pc, parent, answer, Child>>

----------------------------------------------------------------------------
(* What happens around them.                                               *)

\* The program ends by itself.
ProgramEnds ==
    /\ pc = "answered"
    /\ \E r \in Pid : place[r] = "exec" /\ place' = [place EXCEPT ![r] = "zombie"]
    /\ UNCHANGED <<status, mem, ready, holds, Rest>>

\* What kept a killed init from ending is over.
Unstuck ==
    /\ place["init"] = "stuck"
    /\ place' = [place EXCEPT !["init"] = "zombie"]
    /\ UNCHANGED <<status, mem, ready, holds, Rest>>

\* Something outside kills a process of the spawn, at any moment.  A child
\* killed while stopped never stores the pid it was about to.
RoleKilled(r) ==
    /\ faults < MaxFaults /\ faults' = faults + 1
    /\ place[r] \in Live \ {"stuck"}
    /\ place' = IF r = "init" THEN InitEnds(place) ELSE [place EXCEPT ![r] = "zombie"]
    /\ mem' = [mem EXCEPT !.lost = @ \/ (r = "child" /\ (ChildAt("vfork_init") \/ ChildAt("vfork_program")))]
    /\ UNCHANGED <<plan, pc, parent, pair, shown, answer, status, ready, holds>>

\* A host process puts a socket or a directory where a bound file was.
PathChanges ==
    /\ faults < MaxFaults /\ faults' = faults + 1
    /\ ~ shown /\ shown' = TRUE
    /\ UNCHANGED <<plan, pc, place, parent, pair, answer, status, mem, ready, holds>>

\* The parent is killed: its ends close, its children are another's to reap,
\* and an init that set its death signal is killed.
ParentDies ==
    /\ faults < MaxFaults /\ faults' = faults + 1
    /\ pc # "dead" /\ pc' = "dead" /\ parent' = {} /\ pair' = "none"
    /\ place' = IF place["init"] \in {"asleep", "watch"} THEN InitEnds(place) ELSE place
    /\ UNCHANGED <<plan, shown, answer, status, mem, ready, holds>>

ProcessStep ==
    \/ PinDescriptors \/ IdmapTrees \/ StartHelper \/ Unshare \/ MapFromOutside \/ ReapHelper
    \/ MapIds \/ GoOffline \/ CloneInit \/ StartInit \/ InitStarted
    \/ InitReady \/ CloneProgram \/ ProgramStarted \/ StartProgram \/ InitWatches
    \/ \E r \in {"child", "program"} : RunProgram(r)

ParentStep ==
    \/ Resolve \/ Rules \/ StartChild \/ ResumeProgram \/ RecordPair \/ NoRoom
    \/ ReadStatus \/ Fail

----------------------------------------------------------------------------
(* Next.                                                                   *)

SpawnNext ==
    \/ \E p \in Plans : Begin(p)
    \/ ProcessStep \/ ParentStep
    \/ \E any \in BOOLEAN : Waitpid(any)
    \/ EndSandboxInits \/ ProgramEnds \/ Unstuck \/ PathChanges \/ ParentDies
    \/ \E r \in Roles : RoleKilled(r)

\* Every process of the start runs on by itself, the parent's waits are for
\* them, and what keeps a killed process from ending passes.
SpawnFairness == WF_spawnVars(ProcessStep) /\ WF_spawnVars(ParentStep) /\ WF_spawnVars(Unstuck)

SpawnSpec == SpawnInit /\ [][SpawnNext]_spawnVars /\ SpawnFairness

----------------------------------------------------------------------------
(* Properties.                                                             *)

\* An image that runs is held by everything its options asked for: run_program
\* is reached on no path that skipped a namespace, the root, the giving up of
\* capabilities or user, the ruleset or the filter.
Sealed ==
    \A r \in Pid : place[r] = "exec" =>
        /\ plan \cap {"credentials", "grants", "promises", "offline", "user"} \subseteq holds
        /\ Unveiling => {"namespaces", "root", "no_capabilities"} \subseteq holds
        /\ Has("offline") => {"namespaces", "no_capabilities"} \subseteq holds
        /\ Unveiling /\ {"strict", "grants"} \subseteq plan => "own_rules" \in holds

\* A program whose filter lets it make unix sockets, below the Landlock ABI that
\* tells one from another, never runs in a root that shows a socket of the
\* host's, even where a path changed between spawn's look and the bind.
SocketsSealed ==
    \A r \in Pid : place[r] = "exec" /\ Has("promises")
                    /\ "held_unix" \in holds /\ ~ (Abi9 /\ Has("grants"))
        => "socket" \notin holds

\* A pid is answered only for a process past its exec, or already ended, that
\* reported nothing; a failure only when no program of it runs.
Truthful ==
    /\ answer = "pid" /\ pc = "answered" =>
          status = <<>> /\ \A r \in Pid : place[r] \in Over \cup {"exec"}
    /\ answer \in Stages => \A r \in {"child", "program"} : place[r] # "exec"
    /\ Len(status) <= 1

\* Once spawn has answered, its pipe ends, ruleset and root directory are
\* released, and a failed one left no process: each is reaped, or is an init
\* that is recorded until the kernel can end it.  A sandbox that started is
\* recorded as long as its init is there.  (Unless the child was killed before
\* it stored a pid, or the record found no room.)
NothingLeft ==
    pc = "answered" =>
        /\ parent \subseteq {"root"}
        /\ "root" \in parent => ~ mem.mapped
        /\ ~ mem.lost =>
              /\ answer # "pid" => \A r \in {"child", "program"} : place[r] \in {"none", "gone"}
              /\ place["init"] \notin {"none", "gone"} => pair # "none"

\* A spawn that started its child answers: no pipe is left open by someone who
\* waits for its end.
SpawnReturns == pc = "stopped" ~> pc \in {"answered", "dead"}

\* A sandbox ends with its program, and with the parent, however early that dies.
SandboxEnds ==
    /\ (Unveiling /\ pc = "dead") ~> (\A r \in Roles : place[r] \in Over)
    /\ (place["program"] \in {"zombie", "gone"}) ~> (place["init"] \in Over)

\* A program never runs with less than all of what was asked to hold it.
ProgramHeld == Sealed /\ SocketsSealed

\* What spawn answers is so, and what it made on the way is released.
SpawnTells == Truthful /\ NothingLeft

\* A start ends, and a sandbox with its program or with its parent.
SpawnEnds == SpawnReturns /\ SandboxEnds
=============================================================================
